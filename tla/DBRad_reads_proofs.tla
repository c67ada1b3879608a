------------------------- MODULE DBRad_reads_proofs -------------------------
(***************************************************************************)
(* Proofs about what transactions of DBRad read: version and value belong  *)
(* together, and no update is lost.  ReadsInv is the inductive invariant;  *)
(* it builds on OrderInv of DBRad_history_proofs.                          *)
(***************************************************************************)
EXTENDS DBRad_history_proofs

-----------------------------------------------------------------------------
(* Fourth layer: reads.                                                     *)

\* s, written by v, is a version of k.
Logged(k, s, v) == \E j \in DOMAIN log[k] : log[k][j].ver = s /\ log[k][j].by = v

\* The value v was found after version s: they belong together, or the second
\* look at seq will find another version, or v is about to be published.
Seen(k, s, v) ==
  \/ TopVer(k) > s \/ Logged(k, s, v)
  \/ node[k].seq = 1 /\ node[k].value = v

\* A read under way.
ReadInv(t) ==
  /\ tx[t].pc \in Begun /\ CurKey(t) \in Ordered /\ tx[t].seq # 1 =>
       /\ tx[t].seq <= TopVer(CurKey(t))
       /\ tx[t].pc \in {"chk", "ro_chk"} /\ tx[t].val # Null =>
            Seen(CurKey(t), tx[t].seq, tx[t].val)
  /\ tx[t].pc = "ro_ochk" => \A j \in DOMAIN tx[t].chain :
       Logged(CurKey(t), tx[t].chain[j].ver, tx[t].chain[j].by)

\* What has been read.
SoundItem(it) ==
  it.kind \in {"get", "upd"} /\ it.key \in Ordered => Logged(it.key, it.seq, it.by)
SoundRead(r) == r.by # Null /\ r.key \in Ordered => Logged(r.key, r.ver, r.by)
ItemInv(t) ==
  /\ \A i \in DOMAIN tx[t].rwset : SoundItem(tx[t].rwset[i])
  /\ \A i \in DOMAIN tx[t].rset : SoundItem(tx[t].rset[i])
  /\ \A r \in tx[t].snap : SoundRead(r)

\* A version that t wrote follows the one that t read.
Follows(t, it) ==
  it.kind = "upd" /\ it.key \in Strict => \A j \in DOMAIN log[it.key] :
    log[it.key][j].by = t => j > 1 /\ log[it.key][j - 1].by = it.by
Overwrites(t) ==
  /\ \A i \in DOMAIN tx[t].rwset : Follows(t, tx[t].rwset[i])
  /\ \A i \in DOMAIN tx[t].rset : Follows(t, tx[t].rset[i])

\* The inductive invariant of reads.
ReadsInv == OrderInv /\ \A t \in Tx : ReadInv(t) /\ ItemInv(t) /\ Overwrites(t)

-----------------------------------------------------------------------------
(* What the steps of a transaction do to its reads.                         *)

\* The phases of end().
EndPhase == LockPhase \cup CommitPhase \cup ReleasePhase

\* A step of end(): nothing that was read changes.
EndMoves(t) ==
  /\ SameItems(t) /\ SameRead(t) /\ tx'[t].pc \in EndPhase \cup {"committed", "aborted"}
  /\ tx[t].pc \in EndPhase \/ (tx[t].pc = "exec" /\ tx[t].prog = <<>>)
\* All of end() is like that.
LEMMA EndMoving ==
  ASSUME LockInv, NEW t \in Tx, Finish(t) \/ Serve(t) PROVE EndMoves(t)
  <1>1. ASSUME NEW pc \in EndPhase \cup {"committed", "aborted"}, NEW c, NEW i, NEW todo,
               NEW ok, NEW ts, EndTo(t, pc, c, i, todo, ok, ts),
               tx[t].pc \in EndPhase \/ (tx[t].pc = "exec" /\ tx[t].prog = <<>>)
        PROVE  EndMoves(t)
    BY <1>1 DEF EndMoves, EndTo
  <1>2. CASE End(t)
    BY <1>1, <1>2, EndEffect DEF End, EndPhase, LockPhase
  <1>3. CASE LockReplies(t)
    BY <1>1, <1>3, LockRepliesEffect DEF EndPhase, LockPhase, ReleasePhase
  <1>4. CASE LockAllSet(t)
    <2>1. tx[t].pc = "lock_all" /\ SameItems(t) /\ SameRead(t)
          /\ tx'[t].pc \in {"lock_all", "release_remote", "lock_chk"}
      BY <1>4, LockAllSetEffect DEF EndTo
    <2> QED BY <2>1 DEF EndMoves, EndPhase, LockPhase, ReleasePhase
  <1>5. CASE LockCheck(t)
    <2>1. tx[t].pc = "lock_chk" /\ SameItems(t) /\ SameRead(t)
          /\ tx'[t].pc \in {"lock_all", "release_remote"}
      BY <1>5, LockCheckEffect DEF EndTo
    <2> QED BY <2>1 DEF EndMoves, EndPhase, LockPhase, ReleasePhase
  <1>6. CASE CommitTs(t)
    <2>1. tx[t].pc = "lock_all" /\ SameItems(t) /\ SameRead(t) /\ tx'[t].pc = "commit"
      BY <1>6, CommitTsEffect DEF EndTo
    <2> QED BY <2>1 DEF EndMoves, EndPhase, LockPhase, CommitPhase
  <1>7. ASSUME NEW it, NEW v, NEW i, NEW todo, tx[t].pc \in CommitPhase,
               \/ Hides(t, it) \/ Swaps(t, it, v) \/ Publishes(t, it)
               \/ Unlocks(t, it, i, todo)
        PROVE  EndMoves(t)
    BY <1>7 DEF Hides, Swaps, Publishes, Unlocks, StageTo, EndMoves, EndPhase
  <1>8. CASE CommitLocalWrite(t)
    <2>1. tx[t].pc = "commit" BY <1>8, CommitLocalWriteEffect
    <2>2. PICK it \in Item :
            \/ EndTo(t, "commit", tx[t].current, tx[t].i + 1, tx[t].todo, tx[t].ok,
                     tx[t].timestamp)
            \/ Hides(t, it) \/ Swaps(t, it, it.seq) \/ Publishes(t, it)
            \/ Unlocks(t, it, tx[t].i + 1, tx[t].todo)
      BY <1>8, CommitLocalWriteEffect
    <2>3. CASE EndTo(t, "commit", tx[t].current, tx[t].i + 1, tx[t].todo, tx[t].ok,
                     tx[t].timestamp)
      BY <2>1, <2>3 DEF EndTo, EndMoves, EndPhase, CommitPhase
    <2> PICK n : n = tx[t].i + 1 OBVIOUS
    <2> QED BY <1>7, <2>1, <2>2, <2>3 DEF CommitPhase
  <1>9. CASE CommitRemote(t)
    BY <1>1, <1>9, CommitRemoteEffect DEF EndPhase, CommitPhase
  <1>10. CASE CommitReplies(t)
    BY <1>1, <1>10, CommitRepliesEffect DEF EndPhase, CommitPhase
  <1>11. CASE ReleaseReplies(t)
    <2>1. tx[t].pc = "release_remote" /\ SameItems(t) /\ SameRead(t) /\ tx'[t].pc = "release_all"
      BY <1>11, ReleaseRepliesEffect DEF EndTo
    <2> QED BY <2>1 DEF EndMoves, EndPhase, ReleasePhase
  <1>12. CASE ReleaseAllSet(t)
    <2>1. tx[t].pc = "release_all" /\ SameItems(t) /\ SameRead(t)
          /\ tx'[t].pc \in {"aborted", "release_all"}
      BY <1>12, ReleaseAllSetEffect DEF EndTo
    <2> QED BY <2>1 DEF EndMoves, EndPhase, ReleasePhase
  <1>13. ASSUME NEW i \in tx[t].todo, LockRpcHandler(t, i) PROVE EndMoves(t)
    <2>1. tx[t].pc = "lock_remote" /\ SameItems(t) /\ SameRead(t) /\ tx'[t].pc = "lock_remote"
      BY <1>13, LockRpcHandlerEffect DEF EndTo
    <2> QED BY <2>1 DEF EndMoves, EndPhase, LockPhase
  <1>14. ASSUME NEW i \in tx[t].todo, CommitRpcHandler(t, i) PROVE EndMoves(t)
    <2>1. tx[t].pc = "commit_remote" BY <1>14, CommitRpcHandlerEffect
    <2> DEFINE r == tx[t].todo \ {i}
    <2>2. PICK it \in Item :
            \/ Hides(t, it) \/ Swaps(t, it, node[it.key].seq) \/ Publishes(t, it)
            \/ Unlocks(t, it, tx[t].i, r)
      BY <1>14, CommitRpcHandlerEffect
    <2> HIDE DEF r
    <2> QED BY <1>7, <2>1, <2>2 DEF CommitPhase
  <1>15. ASSUME NEW i \in tx[t].todo, ReleaseRpcHandler(t, i) PROVE EndMoves(t)
    <2>1. tx[t].pc = "release_remote" /\ SameItems(t) /\ SameRead(t)
          /\ tx'[t].pc = "release_remote"
      BY <1>15, ReleaseRpcHandlerEffect DEF EndTo
    <2> QED BY <2>1 DEF EndMoves, EndPhase, ReleasePhase
  <1> QED BY <1>2, <1>3, <1>4, <1>5, <1>6, <1>8, <1>9, <1>10, <1>11, <1>12, <1>13, <1>14, <1>15
          DEF Finish, Serve

\* The looks of a read at the record, and the steps that are none.
Looks(t) ==
  \/ /\ tx'[t].pc \in {"val", "ro_val", "ro_old"} /\ tx'[t].seq = node[CurKey(t)].seq
  \/ /\ tx[t].pc \in {"val", "ro_val"} /\ tx'[t].pc \in {"chk", "ro_chk"}
     /\ tx'[t].seq = tx[t].seq /\ tx'[t].val = node[CurKey(t)].value
  \/ /\ tx[t].pc = "ro_old" /\ tx'[t].pc = "ro_ochk" /\ tx'[t].seq = tx[t].seq
     /\ tx'[t].chain = node[CurKey(t)].old
ReadMoves(t) ==
  /\ SameItems(t) /\ tx'[t].snap = tx[t].snap
  /\ tx'[t].pc \in Begun => tx'[t].prog = tx[t].prog /\ tx[t].prog # <<>> /\ Looks(t)

\* A new item has been read, or will replace whatever is there.
Fetched(t, it) ==
  /\ it \in Item /\ it.key = CurKey(t) /\ tx[t].prog # <<>> /\ tx[t].pc \in ExecPhase
  /\ \/ it.kind \in {"ins", "del"}
     \/ /\ tx[t].pc = "chk" /\ tx[t].seq # 1 /\ node[CurKey(t)].seq = tx[t].seq
        /\ tx[t].val # Null /\ it.seq = tx[t].seq /\ it.by = tx[t].val

\* Every step moves on, adds or marks an item, or returns from get_ro().
ReaderStep(t) ==
  \/ Begins(t) \/ ReadMoves(t) \/ Drains(t)
  \/ \E it : Adds(t, it) /\ Fetched(t, it)
  \/ \E j : Marks(t, j)
  \/ \E v, b : RoReturns(t, v, b) /\ RoResult(t, v, b)
\* No step is of another kind.
LEMMA ReadKinds ==
  ASSUME BooksInv, NEW t \in Tx, Step(t) \/ Drain(t) PROVE ReaderStep(t)
  <1>1. LockInv BY DEF BooksInv
  <1>2. CASE Drain(t) BY <1>1, <1>2, DrainEffect DEF ReaderStep
  <1>3. CASE Begin(t) BY <1>1, <1>3, BeginEffect DEF ReaderStep
  <1>4. CASE Finish(t) \/ Serve(t)
    <2>1. EndMoves(t) BY <1>1, <1>4, EndMoving
    <2>2. tx'[t].pc \notin Begun
      BY <2>1 DEF EndMoves, Begun, EndPhase, LockPhase, CommitPhase, ReleasePhase
    <2> QED BY <2>1, <2>2 DEF EndMoves, ReadMoves, ReaderStep, SameRead
  <1>5. CASE GetRo(t)
    <2>1. CASE RoMoves(t)
      <3>1. /\ SameItems(t) /\ tx'[t].snap = tx[t].snap /\ tx'[t].prog = tx[t].prog
            /\ tx[t].prog # <<>>
        BY <2>1 DEF RoMoves, Reads
      <3>2. tx'[t].pc \in Begun => Looks(t) BY <2>1 DEF RoMoves, Looks, Begun
      <3> QED BY <3>1, <3>2 DEF ReaderStep, ReadMoves
    <2> QED BY <1>1, <1>5, <2>1, GetRoEffect DEF ReaderStep
  <1>6. CASE ReadSeq(t)
    <2>1. /\ tx[t].prog # <<>> /\ Reads(t, "val", tx[t].prog) /\ tx'[t].snap = tx[t].snap
          /\ tx'[t].seq = node[CurKey(t)].seq
      BY <1>1, <1>6, ReadSeqEffect
    <2> QED BY <2>1 DEF ReaderStep, ReadMoves, Looks, Reads
  <1>7. CASE ReadValue(t)
    <2>1. /\ tx[t].pc = "val" /\ tx'[t].seq = tx[t].seq /\ tx'[t].snap = tx[t].snap
          /\ \/ Reads(t, "chk", tx[t].prog) /\ tx'[t].val = node[CurKey(t)].value
             \/ Reads(t, "exec", Tail(tx[t].prog))
      BY <1>1, <1>7, ReadValueEffect
    <2>2. tx[t].prog # <<>> BY <1>1, <2>1, Reading
    <2> QED BY <2>1, <2>2 DEF ReaderStep, ReadMoves, Looks, Reads, Begun
  <1>8. ASSUME NEW it, NEW s \in Nat, NEW v \in Val, it = NewItem(CurKey(t), s, v, Head(tx[t].prog).kind),
               tx[t].prog # <<>>
        PROVE  /\ it \in Item /\ it.key = CurKey(t) /\ it.kind = Head(tx[t].prog).kind
               /\ it.seq = s /\ it.by = v
    <2>1. CurKey(t) \in Key /\ Head(tx[t].prog).kind \in Kind BY <1>1, <1>8, Reading
    <2> QED BY <1>8, <2>1 DEF NewItem, Item
  <1>9. CASE ReadCheck(t)
    <2>1. tx[t].pc = "chk" /\ tx[t].prog # <<>> BY <1>1, <1>9, ReadCheckEffect
    <2>2. CASE Reads(t, "exec", tx[t].prog) /\ tx'[t].snap = tx[t].snap
      BY <2>2 DEF ReaderStep, ReadMoves, Reads, Begun
    <2>3. CASE /\ tx[t].seq # 1 /\ node[CurKey(t)].seq = tx[t].seq /\ tx[t].val # Null
               /\ Adds(t, NewItem(CurKey(t), tx[t].seq, tx[t].val, Head(tx[t].prog).kind))
      <3> PICK it : it = NewItem(CurKey(t), tx[t].seq, tx[t].val, Head(tx[t].prog).kind) OBVIOUS
      <3>1. tx[t].seq \in Nat /\ tx[t].val \in Val BY <1>1 DEF LockInv, TypeOK, TxState
      <3>2. it \in Item /\ it.key = CurKey(t) /\ it.seq = tx[t].seq /\ it.by = tx[t].val
        <4>1. CurKey(t) \in Key /\ Head(tx[t].prog).kind \in Kind BY <1>1, <2>1, Reading
        <4> QED BY <3>1, <4>1 DEF NewItem, Item
      <3>3. Fetched(t, it) BY <2>1, <2>3, <3>2 DEF Fetched, ExecPhase
      <3> QED BY <2>3, <3>3 DEF ReaderStep
    <2> QED BY <1>1, <1>9, <2>2, <2>3, ReadCheckEffect
  <1>10. CASE BlindWrite(t)
    <2> PICK it : it = NewItem(CurKey(t), node[CurKey(t)].seq, node[CurKey(t)].value,
                               Head(tx[t].prog).kind) OBVIOUS
    <2>1. /\ tx[t].pc = "exec" /\ tx[t].prog # <<>> /\ Head(tx[t].prog).kind \in {"ins", "del"}
          /\ Adds(t, it)
      BY <1>1, <1>10, BlindWriteEffect
    <2>2. node[CurKey(t)].seq \in Nat /\ node[CurKey(t)].value \in Val
      BY <1>1, <2>1, Reading DEF MemNode
    <2>3. it \in Item /\ it.key = CurKey(t) /\ it.kind = Head(tx[t].prog).kind
      BY <1>8, <2>1, <2>2
    <2>4. Fetched(t, it) BY <2>1, <2>3 DEF Fetched, ExecPhase
    <2> QED BY <2>1, <2>4 DEF ReaderStep
  <1>11. CASE DeleteItem(t) BY <1>1, <1>11, DeleteItemEffect DEF ReaderStep
  <1> QED BY <1>2, <1>3, <1>4, <1>5, <1>6, <1>7, <1>9, <1>10, <1>11 DEF Step, Execute

-----------------------------------------------------------------------------
(* What has been seen stays true.                                           *)

\* Histories only grow, and a value that was seen is not forgotten.
Grown(k) ==
  /\ \A s, v : Logged(k, s, v) => Logged(k, s, v)'
  /\ k \in Ordered =>
       /\ TopVer(k)' \in Nat /\ TopVer(k) <= TopVer(k)'
       /\ \A s \in Nat : \A v : v # Null /\ s <= TopVer(k) /\ Seen(k, s, v) => Seen(k, s, v)'
\* Every step lets histories grow like that.
LEMMA NextGrown ==
  ASSUME OrderInv, [Next]_vars, NEW k \in Key PROVE Grown(k)
  <1>1. HistInv /\ BooksInv /\ LockInv /\ TopVer(k) \in Nat
    BY TopVersion DEF OrderInv, HistInv, BooksInv
  <1>2. ASSUME log'[k] = log[k], node'[k].seq = node[k].seq \/ node[k].seq # 1,
               node'[k].value = node[k].value \/ node[k].seq # 1 \/ node[k].value = Null
        PROVE  Grown(k)
    <2>1. TopVer(k)' = TopVer(k) /\ \A s, v : Logged(k, s, v)' <=> Logged(k, s, v)
      BY <1>2 DEF TopVer, Logged
    <2> QED BY <1>1, <1>2, <2>1 DEF Grown, Seen
  <1>3. CASE SameVersions BY <1>2, <1>3 DEF SameVersions
  <1>4. ASSUME NEW t \in Tx, NEW it, AtTarget(t, it) PROVE Grown(k)
    <2>1. Target(t, it) /\ InstallAt(t, it) BY <1>4 DEF AtTarget
    <2>2. CASE k # it.key
      <3>1. node'[k] = node[k] /\ log'[k] = log[k] BY <2>1, <2>2, InstallFields
      <3> QED BY <1>2, <3>1
    <2>3. CASE k = it.key /\ SwapsAny(t, it)
      <3>1. log' = log /\ node'[it.key].seq = 1 /\ tx[t].stage[PartOf[it.key]] = 0
        BY <2>3 DEF SwapsAny, Swaps, NodeTo
      <3>2. node[it.key].seq # 1 \/ node[it.key].value = Null
        <4>1. tx[t].stage[PartOf[it.key]] # 1 BY <3>1
        <4>2. node[it.key].seq # 1 \/ Hidden(it.key, t) BY <1>1, <2>1, <4>1, TargetNode
        <4> QED BY <4>2 DEF Hidden
      <3> QED BY <1>2, <2>3, <3>1, <3>2
    <2>6. CASE k = it.key /\ Hides(t, it) BY <1>2, <2>6 DEF Hides, NodeTo
    <2>4. CASE k = it.key /\ UnlocksAny(t, it)
      BY <1>2, <2>4 DEF UnlocksAny, Unlocks, NodeTo
    <2>5. CASE k = it.key /\ Publishes(t, it)
      <3> DEFINE n == Len(log[k])
      <3>1. Extended(k, [ver |-> tx[t].timestamp, by |-> node[k].value])
            /\ tx[t].timestamp \in Nat
        BY <1>1, <2>1, <2>5, PublishLog
      <3>2. /\ n \in Nat /\ DOMAIN log'[k] = 1..(n + 1) /\ DOMAIN log[k] = 1..n
            /\ \A j \in 1..n : log'[k][j] = log[k][j]
            /\ log'[k][n + 1].ver = tx[t].timestamp /\ log'[k][n + 1].by = node[k].value
            /\ log'[k] # <<>> /\ Len(log'[k]) = n + 1
        BY <3>1 DEF Extended
      <3>3. TopVer(k)' = tx[t].timestamp BY <3>2 DEF TopVer
      <3>4. ASSUME NEW s, NEW v, Logged(k, s, v) PROVE Logged(k, s, v)'
        <4>1. PICK j \in 1..n : log[k][j].ver = s /\ log[k][j].by = v BY <3>2, <3>4 DEF Logged
        <4>2. j \in DOMAIN log'[k] /\ log'[k][j] = log[k][j] BY <3>2
        <4> QED BY <4>1, <4>2 DEF Logged
      <3>5. n + 1 \in DOMAIN log'[k] BY <3>2
      <3>7. k \in Ordered => TopVer(k) <= tx[t].timestamp BY <1>1, <2>1, <2>5, PublishAbove
      <3>8. ASSUME k \in Ordered, NEW s \in Nat, NEW v, s <= TopVer(k), Seen(k, s, v)
            PROVE  Seen(k, s, v)'
        <4>1. CASE tx[t].timestamp > s BY <3>3, <4>1 DEF Seen
        <4>2. CASE tx[t].timestamp = s
          <5>1. ~(TopVer(k) > s) BY <1>1, <3>1, <3>7, <3>8, <4>2
          <5>2. Logged(k, s, v) \/ node[k].value = v BY <3>8, <5>1 DEF Seen
          <5>3. Logged(k, s, v)'
            <6>1. CASE Logged(k, s, v) BY <3>4, <6>1
            <6>2. CASE node[k].value = v
              <7>1. log'[k][n + 1].ver = s /\ log'[k][n + 1].by = v BY <3>2, <4>2, <6>2
              <7> QED BY <3>5, <7>1 DEF Logged
            <6> QED BY <5>2, <6>1, <6>2
          <5> QED BY <5>3 DEF Seen
        <4> QED BY <1>1, <3>1, <3>7, <3>8, <4>1, <4>2
      <3> QED BY <3>1, <3>3, <3>4, <3>7, <3>8 DEF Grown
    <2> QED BY <2>1, <2>2, <2>3, <2>4, <2>5, <2>6 DEF InstallAt
  <1> QED BY <1>1, <1>3, <1>4, NextVersions

\* What was sound stays so.
LEMMA SoundStays ==
  ASSUME ReadsInv, NEW u \in Tx, \A k \in Key : Grown(k)
  PROVE  /\ \A i \in DOMAIN tx[u].rwset : tx[u].rwset[i].key \in Key /\ SoundItem(tx[u].rwset[i])
         /\ \A i \in DOMAIN tx[u].rset : tx[u].rset[i].key \in Key /\ SoundItem(tx[u].rset[i])
         /\ \A r \in tx[u].snap : r.key \in Key /\ SoundRead(r) /\ SoundRead(r)'
         /\ \A it : it.key \in Key /\ SoundItem(it) => SoundItem(it)'
  <1>1. LockInv /\ ItemInv(u)
    BY DEF ReadsInv, OrderInv, HistInv, BooksInv
  <1>2. \A r \in tx[u].snap : r.key \in Key
    <2>1. tx[u].snap \in SUBSET Read BY <1>1, Fields DEF TxState
    <2>2. \A r \in tx[u].snap : r \in Read BY <2>1
    <2> QED BY <2>2 DEF Read
  <1>3. \A it : it.key \in Key /\ SoundItem(it) => SoundItem(it)'
    BY DEF SoundItem, Grown, Ordered, Does, IsLocal
  <1>4. \A r : r.key \in Key /\ SoundRead(r) => SoundRead(r)'
    BY DEF SoundRead, Grown, Ordered, Does, IsLocal
  <1> QED BY <1>1, <1>2, <1>3, <1>4, Fields DEF ItemInv

\* A transaction whose items and reads stay as they are.
LEMMA ItemsStay ==
  ASSUME ReadsInv, NEW u \in Tx, \A k \in Key : Grown(k), SameItems(u), tx'[u].snap = tx[u].snap
  PROVE  ItemInv(u)'
  <1>1. ASSUME NEW i \in DOMAIN tx[u].rwset PROVE SoundItem(tx[u].rwset[i])'
    <2> PICK it : it = tx[u].rwset[i] OBVIOUS
    <2>1. SoundItem(it)' /\ tx'[u].rwset[i] = it BY SoundStays DEF SameItems
    <2> QED BY <2>1 DEF SoundItem
  <1>2. ASSUME NEW i \in DOMAIN tx[u].rset PROVE SoundItem(tx[u].rset[i])'
    <2> PICK it : it = tx[u].rset[i] OBVIOUS
    <2>1. SoundItem(it)' /\ tx'[u].rset[i] = it BY SoundStays DEF SameItems
    <2> QED BY <2>1 DEF SoundItem
  <1> QED BY <1>1, <1>2, SoundStays DEF ItemInv, SameItems
\* A read under way that does not move, while others publish.
LEMMA ReadStays ==
  ASSUME ReadsInv, NEW u \in Tx, \A k \in Key : Grown(k), SameRead(u), tx'[u].pc = tx[u].pc
  PROVE  ReadInv(u)'
  <1>1. LockInv /\ ReadInv(u) /\ tx[u].seq \in Nat
    BY Fields DEF ReadsInv, OrderInv, HistInv, BooksInv
  <1>2. CASE tx[u].pc \notin Begun BY <1>2 DEF ReadInv, Begun
  <1>3. CASE tx[u].pc \in Begun
    <2> PICK k : k = CurKey(u) OBVIOUS
    <2>1. CurKey(u)' = k /\ k \in Key BY <1>1, <1>3, Reading DEF SameRead, CurKey, Begun, RoPhase
    <2>2. Grown(k) /\ TopVer(k) \in Nat BY <1>1, <2>1, TopVersion
    <2>3. ASSUME k \in Ordered, tx[u].seq # 1
          PROVE  /\ tx[u].seq <= TopVer(k)'
                 /\ tx[u].pc \in {"chk", "ro_chk"} /\ tx[u].val # Null =>
                      Seen(k, tx[u].seq, tx[u].val)'
      <3> PICK s, v : s = tx[u].seq /\ v = tx[u].val OBVIOUS
      <3>1. s \in Nat /\ s <= TopVer(k) BY <1>1, <1>3, <2>3 DEF ReadInv
      <3>2. s <= TopVer(k)' BY <2>2, <2>3, <3>1 DEF Grown
      <3>3. ASSUME tx[u].pc \in {"chk", "ro_chk"}, v # Null PROVE Seen(k, s, v)'
        <4>1. Seen(k, s, v) BY <1>1, <1>3, <2>3, <3>3 DEF ReadInv
        <4> QED BY <2>2, <2>3, <3>1, <3>3, <4>1 DEF Grown
      <3>4. tx'[u].seq = s /\ tx'[u].val = v BY DEF SameRead
      <3> QED BY <3>2, <3>3, <3>4 DEF Seen, Logged, TopVer
    <2>4. ASSUME tx[u].pc = "ro_ochk", NEW j \in DOMAIN tx[u].chain
          PROVE  Logged(k, tx[u].chain[j].ver, tx[u].chain[j].by)'
      <3> PICK e : e = tx[u].chain[j] OBVIOUS
      <3>1. Logged(k, e.ver, e.by) BY <1>1, <2>4 DEF ReadInv
      <3>2. Logged(k, e.ver, e.by)' BY <2>2, <3>1 DEF Grown
      <3>3. tx'[u].chain = tx[u].chain BY DEF SameRead
      <3> QED BY <3>2, <3>3 DEF Logged
    <2> QED BY <2>1, <2>3, <2>4 DEF ReadInv, SameRead, Seen, Logged, TopVer
  <1> QED BY <1>2, <1>3

-----------------------------------------------------------------------------
(* Reading.                                                                  *)

\* A value that is there belongs to the newest version, or is about to.
LEMMA ValueSeen ==
  ASSUME HistInv, NEW k \in Key, NEW s \in Nat, s <= TopVer(k), node[k].value # Null
  PROVE  Seen(k, s, node[k].value)
  <1>1. NodeInv(k) /\ LockInv BY DEF HistInv, BooksInv
  <1>2. CASE node[k].seq = 1 BY <1>2 DEF Seen
  <1>3. CASE node[k].seq # 1
    <2>1. Settled(k) BY <1>1, <1>3 DEF NodeInv
    <2>2. Len(log[k]) \in Nat /\ TopVer(k) \in Nat BY <1>1, TopVersion
    <2>3. Len(log[k]) > 0 /\ node[k].value = log[k][Len(log[k])].by BY <2>1, <2>2 DEF Settled
    <2>4. Len(log[k]) \in DOMAIN log[k] /\ TopVer(k) = log[k][Len(log[k])].ver
      BY <1>1, <2>3, TopVersion
    <2>5. CASE TopVer(k) > s BY <2>5 DEF Seen
    <2>6. CASE TopVer(k) = s BY <2>3, <2>4, <2>6 DEF Seen, Logged
    <2> QED BY <2>2, <2>5, <2>6
  <1> QED BY <1>2, <1>3

\* The old versions are versions.
LEMMA OldLogged ==
  ASSUME HistInv, NEW k \in Key, NEW j \in DOMAIN node[k].old
  PROVE  Logged(k, node[k].old[j].ver, node[k].old[j].by)
  <1>1. NodeInv(k) /\ LockInv BY DEF HistInv, BooksInv
  <1> DEFINE n == Len(log[k])
  <1>2. n \in Nat /\ DOMAIN log[k] = 1..n BY <1>1, TopVersion
  <1>3. j \in Nat /\ j >= 1
    <2>1. node[k].old \in Seq(Version) BY <1>1, TopVersion
    <2> QED BY <2>1
  <1>4. CASE node[k].seq = 1
    <2>1. PICK u \in Tx : Changing(k, u) \/ Hidden(k, u) BY <1>1, <1>4 DEF NodeInv
    <2>2. PICK m \in {n - 1, n} : Chain(k, m) BY <2>1 DEF Changing, Hidden
    <2>3. j <= m /\ node[k].old[j] = log[k][m + 1 - j] BY <2>2 DEF Chain
    <2>4. m + 1 - j \in DOMAIN log[k] BY <1>2, <1>3, <2>3
    <2> QED BY <2>3, <2>4 DEF Logged
  <1>5. CASE node[k].seq # 1
    <2>1. j <= n - 1 /\ node[k].old[j] = log[k][(n - 1) + 1 - j]
      BY <1>1, <1>5 DEF NodeInv, Settled, Chain
    <2>2. (n - 1) + 1 - j \in DOMAIN log[k] BY <1>2, <1>3, <2>1
    <2> QED BY <2>1, <2>2 DEF Logged
  <1> QED BY <1>4, <1>5

\* A read that finds the same sequence number again.
LEMMA Confirmed ==
  ASSUME HistInv, NEW k \in Key, NEW s \in Nat, NEW v, Seen(k, s, v), node[k].seq = s, s # 1
  PROVE  Logged(k, s, v)
  <1>1. TopVer(k) = s BY DEF HistInv, NodeInv, Settled
  <1> QED BY <1>1 DEF Seen

\* The steps of a read.
LEMMA LookInv ==
  ASSUME ReadsInv, NEW t \in Tx, SameVersions, ReadMoves(t) PROVE ReadInv(t)'
  <1>1. LockInv /\ HistInv /\ ReadInv(t) /\ tx[t].seq \in Nat
    BY Fields DEF ReadsInv, OrderInv, HistInv, BooksInv
  <1>2. CASE tx'[t].pc \notin Begun BY <1>2 DEF ReadInv, Begun
  <1>3. CASE tx'[t].pc \in Begun
    <2> PICK k : k = CurKey(t) OBVIOUS
    <2>1. /\ CurKey(t)' = k /\ k \in Key /\ Looks(t)
      BY <1>1, <1>3, Reading DEF ReadMoves, CurKey
    <2>2. /\ TopVer(k)' = TopVer(k) /\ \A s, v : Logged(k, s, v)' <=> Logged(k, s, v)
          /\ \A s, v : Seen(k, s, v)' <=> Seen(k, s, v)
      BY <2>1 DEF SameVersions, TopVer, Logged, Seen
    <2>3. TopVer(k) \in Nat /\ node[k].seq \in Nat BY <1>1, <2>1, TopVersion
    <2>4. CASE tx'[t].pc \in {"val", "ro_val", "ro_old"} /\ tx'[t].seq = node[k].seq
      <3>1. node[k].seq # 1 => TopVer(k) = node[k].seq
        BY <1>1, <2>1 DEF HistInv, NodeInv, Settled
      <3>2. tx'[t].seq # 1 => tx'[t].seq <= TopVer(k)' BY <2>2, <2>3, <2>4, <3>1
      <3> QED BY <2>1, <2>4, <3>2 DEF ReadInv, TopVer
    <2>5. CASE /\ tx[t].pc \in {"val", "ro_val"} /\ tx'[t].pc \in {"chk", "ro_chk"}
               /\ tx'[t].seq = tx[t].seq /\ tx'[t].val = node[k].value
      <3> PICK s, v : s = tx[t].seq /\ v = node[k].value OBVIOUS
      <3>1. k \in Ordered /\ s # 1 => s <= TopVer(k) BY <1>1, <2>5 DEF ReadInv, Begun
      <3>2. k \in Ordered /\ s # 1 /\ v # Null => Seen(k, s, v) BY <1>1, <2>1, <3>1, ValueSeen
      <3>3. k \in Ordered /\ s # 1 =>
              s <= TopVer(k)' /\ (v # Null => Seen(k, s, v)')
        BY <2>2, <3>1, <3>2
      <3>4. tx'[t].seq = s /\ tx'[t].val = v BY <2>5
      <3> QED BY <2>1, <2>5, <3>3, <3>4 DEF ReadInv, Seen, Logged, TopVer
    <2>6. CASE /\ tx[t].pc = "ro_old" /\ tx'[t].pc = "ro_ochk" /\ tx'[t].seq = tx[t].seq
               /\ tx'[t].chain = node[k].old
      <3>1. k \in Ordered /\ tx[t].seq # 1 => tx[t].seq <= TopVer(k) BY <1>1, <2>6 DEF ReadInv, Begun
      <3>2. ASSUME NEW j \in DOMAIN tx'[t].chain
            PROVE  Logged(k, tx[t].chain[j].ver, tx[t].chain[j].by)'
        <4> PICK e : e = node[k].old[j] OBVIOUS
        <4>1. Logged(k, e.ver, e.by)' BY <1>1, <2>1, <2>2, <2>6, OldLogged
        <4> QED BY <2>6, <4>1 DEF Logged
      <3> QED BY <2>1, <2>2, <2>6, <3>1, <3>2 DEF ReadInv, TopVer, Logged
    <2> QED BY <2>1, <2>4, <2>5, <2>6 DEF Looks
  <1> QED BY <1>2, <1>3

\* A new item.
LEMMA AddSound ==
  ASSUME ReadsInv, NEW t \in Tx, NEW it, Fetched(t, it) PROVE SoundItem(it)
  <1>1. LockInv /\ HistInv /\ ReadInv(t) /\ tx[t].seq \in Nat
    BY Fields DEF ReadsInv, OrderInv, HistInv, BooksInv
  <1>2. it.key \in Key BY DEF Fetched, Item
  <1>3. CASE it.kind \in {"ins", "del"} BY <1>3 DEF SoundItem
  <1>4. ASSUME tx[t].pc = "chk", tx[t].seq # 1, node[CurKey(t)].seq = tx[t].seq,
               tx[t].val # Null, it.seq = tx[t].seq, it.by = tx[t].val, it.key \in Ordered
        PROVE  Logged(it.key, it.seq, it.by)
    <2> PICK k, s, v : k = it.key /\ s = tx[t].seq /\ v = tx[t].val OBVIOUS
    <2>1. k = CurKey(t) /\ Seen(k, s, v) BY <1>1, <1>4 DEF ReadInv, Begun, Fetched
    <2>2. Logged(k, s, v) BY <1>1, <1>2, <1>4, <2>1, Confirmed
    <2> QED BY <1>4, <2>2
  <1> QED BY <1>3, <1>4 DEF Fetched, SoundItem

\* A result of get_ro().
LEMMA ResultSound ==
  ASSUME ReadsInv, NEW t \in Tx, NEW v, NEW b, RoReturns(t, v, b), RoResult(t, v, b)
  PROVE  SoundRead(Got(t, v, b)) /\ Got(t, v, b).key \in Key
  <1> PICK k : k = CurKey(t) OBVIOUS
  <1>1. LockInv /\ HistInv /\ ReadInv(t) /\ tx[t].seq \in Nat
    BY Fields DEF ReadsInv, OrderInv, HistInv, BooksInv
  <1>2. k \in Key BY <1>1, Reading DEF RoReturns
  <1>3. CASE tx[t].pc = "ro_val" /\ b = Null BY <1>2, <1>3 DEF SoundRead, Got
  <1>4. CASE /\ tx[t].pc = "ro_chk" /\ tx[t].seq # 1 /\ node[k].seq = tx[t].seq
             /\ v = tx[t].seq /\ b = tx[t].val
    <2>1. ASSUME b # Null, k \in Ordered PROVE Logged(k, v, b)
      <3>1. Seen(k, v, b) BY <1>1, <1>4, <2>1 DEF ReadInv, Begun
      <3> QED BY <1>1, <1>2, <1>4, <3>1, Confirmed
    <2> QED BY <1>2, <2>1 DEF SoundRead, Got
  <1>5. CASE /\ tx[t].pc = "ro_ochk"
             /\ \/ v = 1 /\ b = Null
                \/ \E j \in Visible(t) : v = tx[t].chain[j].ver /\ b = tx[t].chain[j].by
    <2>1. b # Null => Logged(k, v, b) BY <1>1, <1>5 DEF ReadInv, Visible
    <2> QED BY <1>2, <2>1 DEF SoundRead, Got
  <1> QED BY <1>3, <1>4, <1>5 DEF RoResult

\* Whatever a transaction does to its items, they stay sound.
LEMMA StepItems ==
  ASSUME ReadsInv, NEW t \in Tx, \A k \in Key : Grown(k), ReaderStep(t) PROVE ItemInv(t)'
  <1>1. LockInv BY DEF ReadsInv, OrderInv, HistInv, BooksInv
  <1>2. CASE ReadMoves(t) \/ Drains(t)
    BY <1>2, ItemsStay DEF ReadMoves, Drains, SameRead
  <1>3. CASE Begins(t) BY <1>3, SoundStays DEF Begins, ItemInv
  <1>4. ASSUME NEW it, Adds(t, it), Fetched(t, it) PROVE ItemInv(t)'
    <2>1. it \in Item /\ it.key \in Key /\ SoundItem(it) BY <1>4, AddSound DEF Fetched, Item
    <2>2. SoundItem(it)' BY <2>1, SoundStays
    <2>3. tx[t].rwset \in Seq(Item) /\ tx[t].rset \in Seq(Item) BY <1>1, Fields
    <2>4. ASSUME NEW i \in DOMAIN tx'[t].rwset PROVE SoundItem(tx[t].rwset[i])'
      <3>1. \/ tx'[t].rwset[i] = it
            \/ i \in DOMAIN tx[t].rwset /\ tx'[t].rwset[i] = tx[t].rwset[i]
        <4>1. tx'[t].rwset = tx[t].rwset \/ tx'[t].rwset = Append(tx[t].rwset, it) BY <1>4 DEF Adds
        <4>2. CASE tx'[t].rwset = tx[t].rwset BY <4>2
        <4>3. CASE tx'[t].rwset = Append(tx[t].rwset, it) BY <2>1, <2>3, <4>3, AppendItems
        <4> QED BY <4>1, <4>2, <4>3
      <3> PICK x : x = tx'[t].rwset[i] OBVIOUS
      <3>2. SoundItem(x)' BY <2>2, <3>1, SoundStays
      <3> QED BY <3>2 DEF SoundItem
    <2>5. ASSUME NEW i \in DOMAIN tx'[t].rset PROVE SoundItem(tx[t].rset[i])'
      <3>1. \/ tx'[t].rset[i] = it
            \/ i \in DOMAIN tx[t].rset /\ tx'[t].rset[i] = tx[t].rset[i]
        <4>1. tx'[t].rset = tx[t].rset \/ tx'[t].rset = Append(tx[t].rset, it) BY <1>4 DEF Adds
        <4>2. CASE tx'[t].rset = tx[t].rset BY <4>2
        <4>3. CASE tx'[t].rset = Append(tx[t].rset, it) BY <2>1, <2>3, <4>3, AppendItems
        <4> QED BY <4>1, <4>2, <4>3
      <3> PICK x : x = tx'[t].rset[i] OBVIOUS
      <3>2. SoundItem(x)' BY <2>2, <3>1, SoundStays
      <3> QED BY <3>2 DEF SoundItem
    <2>6. \A r \in tx'[t].snap : SoundRead(r)' BY <1>4, SoundStays DEF Adds
    <2> QED BY <2>4, <2>5, <2>6 DEF ItemInv
  <1>5. ASSUME NEW j, Marks(t, j) PROVE ItemInv(t)'
    <2>1. ASSUME NEW i \in DOMAIN tx'[t].rwset PROVE SoundItem(tx[t].rwset[i])'
      <3> PICK x : x = tx'[t].rwset[i] OBVIOUS
      <3>1. CASE i = j BY <1>5, <3>1 DEF SoundItem, Marks
      <3>2. CASE i # j
        <4>1. i \in DOMAIN tx[t].rwset /\ x = tx[t].rwset[i] BY <1>5, <3>2 DEF Marks
        <4>2. SoundItem(x)' BY <4>1, SoundStays
        <4> QED BY <4>2 DEF SoundItem
      <3> QED BY <3>1, <3>2
    <2>2. ASSUME NEW i \in DOMAIN tx'[t].rset PROVE SoundItem(tx[t].rset[i])'
      <3> PICK x : x = tx'[t].rset[i] OBVIOUS
      <3>1. i \in DOMAIN tx[t].rset /\ x = tx[t].rset[i] BY <1>5 DEF Marks
      <3>2. SoundItem(x)' BY <3>1, SoundStays
      <3> QED BY <3>2 DEF SoundItem
    <2>3. \A r \in tx'[t].snap : SoundRead(r)' BY <1>5, SoundStays DEF Marks
    <2> QED BY <2>1, <2>2, <2>3 DEF ItemInv
  <1>6. ASSUME NEW v, NEW b, RoReturns(t, v, b), RoResult(t, v, b) PROVE ItemInv(t)'
    <2> PICK g : g = Got(t, v, b) OBVIOUS
    <2>1. SoundRead(g) /\ g.key \in Key BY <1>6, ResultSound
    <2>2. SoundRead(g)' BY <2>1 DEF SoundRead, Grown, Ordered, Does, IsLocal
    <2>3. tx'[t].snap = tx[t].snap \cup {g} /\ SameItems(t) BY <1>6 DEF RoReturns, Reads
    <2>4. \A r \in tx'[t].snap : SoundRead(r)' BY <2>2, <2>3, SoundStays
    <2>5. ASSUME NEW i \in DOMAIN tx[t].rwset PROVE SoundItem(tx[t].rwset[i])'
      <3> PICK it : it = tx[t].rwset[i] OBVIOUS
      <3>1. SoundItem(it)' /\ tx'[t].rwset[i] = it BY <2>3, SoundStays DEF SameItems
      <3> QED BY <3>1 DEF SoundItem
    <2>6. ASSUME NEW i \in DOMAIN tx[t].rset PROVE SoundItem(tx[t].rset[i])'
      <3> PICK it : it = tx[t].rset[i] OBVIOUS
      <3>1. SoundItem(it)' /\ tx'[t].rset[i] = it BY <2>3, SoundStays DEF SameItems
      <3> QED BY <3>1 DEF SoundItem
    <2> QED BY <2>3, <2>4, <2>5, <2>6 DEF ItemInv, SameItems
  <1> QED BY <1>2, <1>3, <1>4, <1>5, <1>6 DEF ReaderStep

\* Reads under way, likewise.
LEMMA StepRead ==
  ASSUME ReadsInv, NEW t \in Tx, \A k \in Key : Grown(k), SameVersions, ReaderStep(t)
  PROVE  ReadInv(t)'
  <1>1. CASE ReadMoves(t) BY <1>1, LookInv
  <1>2. CASE Drains(t) BY <1>2, ReadStays DEF Drains
  <1>3. CASE tx'[t].pc \notin Begun BY <1>3 DEF ReadInv, Begun
  <1>4. ASSUME ~ReadMoves(t), ~Drains(t) PROVE tx'[t].pc \notin Begun
    BY <1>4 DEF ReaderStep, Begins, Adds, Marks, RoReturns, Reads, Begun
  <1> QED BY <1>1, <1>2, <1>3, <1>4

-----------------------------------------------------------------------------
(* Overwriting.                                                              *)

\* A transaction that is not committing has written nothing.
LEMMA NothingWritten ==
  ASSUME HistInv, NEW t \in Tx, tx[t].pc \notin Stamped, NEW k \in Key, NEW j \in DOMAIN log[k]
  PROVE  log[k][j].by # t
BY ConstantAssumption DEF HistInv, LogInv, Entry

\* Steps that change no version.
LEMMA StepOverwrites ==
  ASSUME ReadsInv, NEW t \in Tx, SameVersions, ReaderStep(t) PROVE Overwrites(t)'
  <1>1. LockInv /\ HistInv /\ Overwrites(t) BY DEF ReadsInv, OrderInv, HistInv, BooksInv
  <1>2. \A it : Follows(t, it) => Follows(t, it)' BY DEF Follows, SameVersions, Strict, Ordered, Does, IsLocal
  <1>3. CASE SameItems(t)
    <2>1. ASSUME NEW i \in DOMAIN tx[t].rwset PROVE Follows(t, tx[t].rwset[i])'
      <3> PICK it : it = tx[t].rwset[i] OBVIOUS
      <3>1. Follows(t, it)' BY <1>1, <1>2 DEF Overwrites
      <3>2. tx'[t].rwset[i] = it BY <1>3 DEF SameItems
      <3> QED BY <3>1, <3>2 DEF Follows
    <2>2. ASSUME NEW i \in DOMAIN tx[t].rset PROVE Follows(t, tx[t].rset[i])'
      <3> PICK it : it = tx[t].rset[i] OBVIOUS
      <3>1. Follows(t, it)' BY <1>1, <1>2 DEF Overwrites
      <3>2. tx'[t].rset[i] = it BY <1>3 DEF SameItems
      <3> QED BY <3>1, <3>2 DEF Follows
    <2> QED BY <1>3, <2>1, <2>2 DEF Overwrites, SameItems
  <1>4. CASE Begins(t) BY <1>4 DEF Begins, Overwrites
  <1>5. ASSUME NEW it, Adds(t, it), Fetched(t, it) PROVE Overwrites(t)'
    <2>1. it \in Item /\ it.key \in Key /\ tx[t].pc \notin Stamped
      BY <1>5 DEF Fetched, Item, ExecPhase, Stamped
    <2>2. Follows(t, it)' BY <1>1, <1>2, <2>1, NothingWritten DEF Follows
    <2>3. tx[t].rwset \in Seq(Item) /\ tx[t].rset \in Seq(Item) BY <1>1, Fields
    <2>4. ASSUME NEW i \in DOMAIN tx'[t].rwset PROVE Follows(t, tx[t].rwset[i])'
      <3> PICK x : x = tx'[t].rwset[i] OBVIOUS
      <3>1. x = it \/ (i \in DOMAIN tx[t].rwset /\ x = tx[t].rwset[i])
        <4>1. tx'[t].rwset = tx[t].rwset \/ tx'[t].rwset = Append(tx[t].rwset, it)
          BY <1>5 DEF Adds
        <4>2. CASE tx'[t].rwset = tx[t].rwset BY <4>2
        <4>3. CASE tx'[t].rwset = Append(tx[t].rwset, it) BY <2>1, <2>3, <4>3, AppendItems
        <4> QED BY <4>1, <4>2, <4>3
      <3>2. Follows(t, x)' BY <1>1, <1>2, <2>2, <3>1 DEF Overwrites
      <3> QED BY <3>2 DEF Follows
    <2>5. ASSUME NEW i \in DOMAIN tx'[t].rset PROVE Follows(t, tx[t].rset[i])'
      <3> PICK x : x = tx'[t].rset[i] OBVIOUS
      <3>1. x = it \/ (i \in DOMAIN tx[t].rset /\ x = tx[t].rset[i])
        <4>1. tx'[t].rset = tx[t].rset \/ tx'[t].rset = Append(tx[t].rset, it)
          BY <1>5 DEF Adds
        <4>2. CASE tx'[t].rset = tx[t].rset BY <4>2
        <4>3. CASE tx'[t].rset = Append(tx[t].rset, it) BY <2>1, <2>3, <4>3, AppendItems
        <4> QED BY <4>1, <4>2, <4>3
      <3>2. Follows(t, x)' BY <1>1, <1>2, <2>2, <3>1 DEF Overwrites
      <3> QED BY <3>2 DEF Follows
    <2> QED BY <2>4, <2>5 DEF Overwrites
  <1>6. ASSUME NEW j, Marks(t, j) PROVE Overwrites(t)'
    <2>1. ASSUME NEW i \in DOMAIN tx'[t].rwset PROVE Follows(t, tx[t].rwset[i])'
      <3> PICK x : x = tx'[t].rwset[i] OBVIOUS
      <3>1. CASE i = j BY <1>6, <3>1 DEF Follows, Marks
      <3>2. CASE i # j
        <4>1. i \in DOMAIN tx[t].rwset /\ x = tx[t].rwset[i] BY <1>6, <3>2 DEF Marks
        <4>2. Follows(t, x)' BY <1>1, <1>2, <4>1 DEF Overwrites
        <4> QED BY <4>2 DEF Follows
      <3> QED BY <3>1, <3>2
    <2>2. ASSUME NEW i \in DOMAIN tx'[t].rset PROVE Follows(t, tx[t].rset[i])'
      <3> PICK x : x = tx'[t].rset[i] OBVIOUS
      <3>1. i \in DOMAIN tx[t].rset /\ x = tx[t].rset[i] BY <1>6 DEF Marks
      <3>2. Follows(t, x)' BY <1>1, <1>2, <3>1 DEF Overwrites
      <3> QED BY <3>2 DEF Follows
    <2> QED BY <2>1, <2>2 DEF Overwrites
  <1> QED BY <1>3, <1>4, <1>5, <1>6 DEF ReaderStep, ReadMoves, Drains, RoReturns, Reads

\* Among the writes of t the target is the only item of its record.
LEMMA TargetOnly ==
  ASSUME HistInv, NEW t \in Tx, NEW it, Target(t, it), NEW x, Wrote(t, x), x.key = it.key
  PROVE  x = it
  <1>1. Unique(t) /\ Control(t) /\ tx[t].pc \in Stamped
    BY DEF HistInv, BooksInv, Booked, LockInv, Target, CommitPhase, Stamped
  <1>2. CASE IsLocal(t, it.key)
    <2>1. ~\E i \in RemoteWrites(t) : it = tx[t].rset[i] \/ x = tx[t].rset[i]
      BY <1>1, <1>2 DEF Control, RemoteWrites
    <2>2. PICK i \in LocalWrites(t) : it = tx[t].rwset[i] BY <2>1 DEF Target, Wrote
    <2>3. PICK j \in LocalWrites(t) : x = tx[t].rwset[j] BY <2>1 DEF Wrote
    <2> QED BY <1>1, <2>2, <2>3 DEF Unique
  <1>3. CASE ~IsLocal(t, it.key)
    <2>1. ~\E i \in LocalWrites(t) : it = tx[t].rwset[i] \/ x = tx[t].rwset[i]
      BY <1>1, <1>3 DEF Control, LocalWrites
    <2>2. PICK i \in RemoteWrites(t) : it = tx[t].rset[i] BY <2>1 DEF Target, Wrote
    <2>3. PICK j \in RemoteWrites(t) : x = tx[t].rset[j] BY <2>1 DEF Wrote
    <2> QED BY <1>1, <2>2, <2>3 DEF Unique
  <1> QED BY <1>2, <1>3

\* Where versions grow, the newest version number names one version.
LEMMA NewestLogged ==
  ASSUME OrderInv, NEW k \in Strict, NEW v, Logged(k, TopVer(k), v)
  PROVE  Len(log[k]) > 0 /\ log[k][Len(log[k])].by = v
  <1>1. k \in Key /\ Grows(k) /\ LockInv
    BY DEF OrderInv, Strict, Ordered, HistInv, BooksInv
  <1> DEFINE n == Len(log[k])
  <1>2. PICK j \in DOMAIN log[k] : log[k][j].ver = TopVer(k) /\ log[k][j].by = v BY DEF Logged
  <1>3. n \in Nat /\ DOMAIN log[k] = 1..n /\ j \in 1..n BY <1>1, TopVersion
  <1>4. n > 0 BY <1>3
  <1>5. n \in DOMAIN log[k] /\ TopVer(k) = log[k][n].ver /\ TopVer(k) \in Nat
    BY <1>1, <1>4, TopVersion
  <1>6. ~(j < n)
    <2>1. ASSUME j < n PROVE FALSE
      <3>1. log[k][j].ver < log[k][n].ver BY <1>1, <1>5, <2>1 DEF Grows
      <3> QED BY <1>2, <1>5, <3>1
    <2> QED BY <2>1
  <1>7. j = n BY <1>3, <1>6
  <1> QED BY <1>2, <1>4, <1>7

\* A step of an install.
LEMMA InstallOverwrites ==
  ASSUME ReadsInv, NEW t \in Tx, NEW it, AtTarget(t, it), NEW u \in Tx, NEW x, x.key \in Key,
         Follows(u, x), u = t => (x.kind = "upd" => Wrote(t, x)) /\ SoundItem(x)
  PROVE  Follows(u, x)'
  <1>1. /\ HistInv /\ OrderInv /\ BooksInv /\ LockInv /\ Target(t, it) /\ InstallAt(t, it)
    BY DEF ReadsInv, OrderInv, HistInv, BooksInv, AtTarget
  <1> PICK k : k = x.key OBVIOUS
  <1>2. CASE log'[k] = log[k] BY <1>2 DEF Follows, Strict, Ordered, Does, IsLocal
  <1>3. CASE k = it.key /\ Publishes(t, it)
    <2>1. SUFFICES ASSUME x.kind = "upd", k \in Strict, NEW j \in DOMAIN log'[k],
                          log'[k][j].by = u
                   PROVE  j > 1 /\ log'[k][j - 1].by = x.by
      BY DEF Follows, Strict, Ordered, Does, IsLocal
    <2> DEFINE n == Len(log[k])
    <2>2. Extended(k, [ver |-> tx[t].timestamp, by |-> node[k].value])
          /\ tx[t].stage[PartOf[k]] = 1
      BY <1>1, <1>3, PublishLog
    <2>3. /\ n \in Nat /\ DOMAIN log'[k] = 1..(n + 1) /\ DOMAIN log[k] = 1..n
          /\ \A i \in 1..n : log'[k][i] = log[k][i]
          /\ log'[k][n + 1].by = node[k].value
      BY <2>2 DEF Extended
    <2>4. CASE j \in 1..n
      <3>1. j > 1 /\ log[k][j - 1].by = x.by BY <2>1, <2>3, <2>4 DEF Follows
      <3>2. j - 1 \in 1..n BY <2>3, <2>4, <3>1
      <3> QED BY <2>3, <3>1, <3>2
    <2>5. CASE j = n + 1
      <3>1. node[k].value \in {Null, t} BY <1>1, <1>3, <2>2, TargetNode
      <3>2. u = t BY <2>1, <2>3, <2>5, <3>1, ConstantAssumption
      <3>3. Wrote(t, x) BY <2>1, <3>2
      <3>4. x = it BY <1>1, <1>3, <3>3, TargetOnly
      <3>5. it.seq = TopVer(it.key)
        <4>1. tx[t].stage[PartOf[it.key]] # 2 BY <1>3, <2>2
        <4> QED BY <1>1, <4>1, TargetNode
      <3>6. Logged(k, TopVer(k), x.by)
        <4>1. k \in Ordered BY <2>1 DEF Strict
        <4> QED BY <1>3, <2>1, <3>2, <3>4, <3>5, <4>1 DEF SoundItem
      <3>7. n > 0 /\ log[k][n].by = x.by BY <1>1, <2>1, <3>6, NewestLogged
      <3>8. j - 1 = n /\ n \in 1..n /\ j > 1 BY <2>3, <2>5, <3>7
      <3> QED BY <2>3, <3>7, <3>8
    <2> QED BY <2>3, <2>4, <2>5
  <1>4. k # it.key \/ ~Publishes(t, it) => log'[k] = log[k] BY <1>1, InstallTop
  <1> QED BY <1>2, <1>3, <1>4

\* All items of all transactions, after a step of an install.
LEMMA InstallsFollow ==
  ASSUME ReadsInv, NEW t \in Tx, NEW it, AtTarget(t, it), NEW u \in Tx
  PROVE  Overwrites(u)'
  <1>1. /\ HistInv /\ BooksInv /\ LockInv /\ Planned(u) /\ Overwrites(u) /\ ItemInv(u)
    BY DEF ReadsInv, OrderInv, HistInv, BooksInv, Booked
  <1>2. tx'[u].rwset = tx[u].rwset /\ tx'[u].rset = tx[u].rset
    BY InstallFields DEF AtTarget, Alone, SameItems
  <1>3. ASSUME NEW i \in DOMAIN tx[u].rwset PROVE Follows(u, tx[u].rwset[i])'
    <2> PICK x : x = tx[u].rwset[i] OBVIOUS
    <2>1. x.key \in Key /\ Follows(u, x) /\ SoundItem(x) BY <1>1, Fields DEF Overwrites, ItemInv
    <2>2. x.kind = "upd" => Wrote(u, x) BY <1>1 DEF Planned, Wrote, LocalWrites
    <2>3. Follows(u, x)' BY <2>1, <2>2, InstallOverwrites
    <2> QED BY <1>2, <2>3 DEF Follows
  <1>4. ASSUME NEW i \in DOMAIN tx[u].rset PROVE Follows(u, tx[u].rset[i])'
    <2> PICK x : x = tx[u].rset[i] OBVIOUS
    <2>1. x.key \in Key /\ Follows(u, x) /\ SoundItem(x) BY <1>1, Fields DEF Overwrites, ItemInv
    <2>2. x.kind = "upd" => Wrote(u, x) BY <1>1 DEF Planned, Wrote, RemoteWrites
    <2>3. Follows(u, x)' BY <2>1, <2>2, InstallOverwrites
    <2> QED BY <1>2, <2>3 DEF Follows
  <1> QED BY <1>2, <1>3, <1>4 DEF Overwrites

\* A transaction that does nothing, while versions stay.
LEMMA OverwritesStay ==
  ASSUME ReadsInv, SameVersions, NEW u \in Tx, SameItems(u) PROVE Overwrites(u)'
  <1>1. Overwrites(u) /\ tx'[u].rwset = tx[u].rwset /\ tx'[u].rset = tx[u].rset /\ log' = log
    BY DEF ReadsInv, SameItems, SameVersions
  <1> QED BY <1>1 DEF Overwrites, Follows, Strict, Ordered, Does, IsLocal

\* Every step keeps what has been read.
LEMMA NextReads == ASSUME ReadsInv, [Next]_vars PROVE ReadsInv'
  <1>1. OrderInv /\ BooksInv /\ OrderInv' /\ \A k \in Key : Grown(k)
    BY NextOrder, NextGrown DEF ReadsInv, OrderInv, HistInv
  <1>2. ASSUME NEW u \in Tx, tx'[u] = tx[u] PROVE ReadInv(u)' /\ ItemInv(u)'
    BY <1>1, <1>2, OtherViews, ReadStays, ItemsStay DEF SameRead
  <1>3. ASSUME NEW t \in Tx, Step(t) \/ Drain(t), NEW u \in Tx
        PROVE  ReadInv(u)' /\ ItemInv(u)' /\ Overwrites(u)'
    <2>1. Alone(t) /\ ReaderStep(t) BY <1>1, <1>3, StepKinds, ReadKinds
    <2>2. CASE Installs(t)
      <3>1. PICK it : AtTarget(t, it) BY <1>1, <2>2, InstallItem DEF AtTarget
      <3>2. Overwrites(u)' BY <3>1, InstallsFollow
      <3>3. CASE u = t
        <4>1. SameItems(t) /\ SameRead(t) /\ tx'[t].pc = tx[t].pc
          BY <3>1, InstallFields DEF AtTarget, Target
        <4> QED BY <1>1, <3>2, <3>3, <4>1, ReadStays, ItemsStay DEF SameRead
      <3>4. CASE u # t BY <1>2, <2>1, <3>2, <3>4 DEF Alone
      <3> QED BY <3>3, <3>4
    <2>3. CASE SameVersions
      <3>1. CASE u = t BY <1>1, <2>1, <2>3, <3>1, StepRead, StepItems, StepOverwrites
      <3>2. CASE u # t
        <4>1. tx'[u] = tx[u] BY <2>1, <3>2 DEF Alone
        <4> QED BY <1>2, <2>3, <4>1, OtherViews, OverwritesStay
      <3> QED BY <3>1, <3>2
    <2> QED BY <1>1, <1>3, <2>2, <2>3, StepKinds DEF NoInstall, Drains
  <1>4. ASSUME UNCHANGED vars, NEW u \in Tx PROVE ReadInv(u)' /\ ItemInv(u)' /\ Overwrites(u)'
    <2>1. SameVersions /\ tx'[u] = tx[u] BY <1>4 DEF vars, SameVersions
    <2> QED BY <1>2, <2>1, OtherViews, OverwritesStay
  <1> QED BY <1>1, <1>3, <1>4 DEF Next, Terminated, ReadsInv

\* Nothing has been read at the start.
LEMMA InitReads == ASSUME Init PROVE ReadsInv
  <1>1. ASSUME NEW t \in Tx PROVE ReadInv(t) /\ ItemInv(t) /\ Overwrites(t)
    <2>1. /\ tx[t].pc = Idle /\ tx[t].rwset = <<>> /\ tx[t].rset = <<>> /\ tx[t].snap = {}
      BY DEF Init
    <2> QED BY <2>1 DEF ReadInv, ItemInv, Overwrites, Idle, Begun
  <1> QED BY <1>1, InitOrder DEF ReadsInv

\* What has been read and what is being read, in every reachable state.
THEOREM ReadsInvariance == Spec => []ReadsInv
  <1>1. Init => ReadsInv BY InitReads
  <1>2. ReadsInv /\ [Next]_vars => ReadsInv' BY NextReads
  <1> QED BY <1>1, <1>2, PTL DEF Spec

\* A version number and a value that were read in different steps belong to one
\* published version, for records that are not inserted at their own machine.
THEOREM NotTorn ==
  ASSUME Ordered = Key PROVE Spec => []NoTornRead
  <1>1. ASSUME ReadsInv PROVE NoTornRead
    <2>1. LockInv BY <1>1 DEF ReadsInv, OrderInv, HistInv, BooksInv
    <2>2. ASSUME NEW k \in Key, NEW s, NEW v, Logged(k, s, v)
          PROVE  [ver |-> s, by |-> v] \in Range(log[k])
      <3>1. PICK j \in DOMAIN log[k] : log[k][j].ver = s /\ log[k][j].by = v BY <2>2 DEF Logged
      <3>2. log[k][j] \in Version BY <2>1, TopVersion
      <3>3. log[k][j] = [ver |-> s, by |-> v] BY <3>1, <3>2 DEF Version
      <3> QED BY <3>3 DEF Range
    <2>3. ASSUME NEW t \in Tx, NEW it \in Range(tx[t].rwset) \cup Range(tx[t].rset),
                 it.kind \in {"get", "upd"}
          PROVE  [ver |-> it.seq, by |-> it.by] \in Range(log[it.key])
      <3>1. it.key \in Key /\ SoundItem(it)
        BY <1>1, <2>1, Fields DEF ReadsInv, ItemInv, Range
      <3>2. Logged(it.key, it.seq, it.by) BY <2>3, <3>1 DEF SoundItem
      <3> QED BY <2>2, <3>1, <3>2
    <2>4. ASSUME NEW t \in Tx, NEW r \in tx[t].snap, r.by # Null
          PROVE  [ver |-> r.ver, by |-> r.by] \in Range(log[r.key])
      <3>1. tx[t].snap \in SUBSET Read BY <2>1, Fields DEF TxState
      <3>2. r.key \in Key BY <3>1 DEF Read
      <3>3. Logged(r.key, r.ver, r.by) BY <1>1, <2>4, <3>2 DEF ReadsInv, ItemInv, SoundRead
      <3> QED BY <2>2, <3>2, <3>3
    <2> QED BY <2>3, <2>4 DEF NoTornRead
  <1> QED BY <1>1, ReadsInvariance, PTL

\* A transaction that reads a record and overwrites it overwrites the version it
\* read, for records that only transactions of their own machine write.
THEOREM UpdatesKept ==
  ASSUME Strict = Key PROVE Spec => []NoLostUpdate
  <1>1. ASSUME ReadsInv PROVE NoLostUpdate
    <2>1. LockInv BY <1>1 DEF ReadsInv, OrderInv, HistInv, BooksInv
    <2>2. SUFFICES ASSUME NEW t \in Tx, NEW it \in Range(tx[t].rwset) \cup Range(tx[t].rset),
                          it.kind = "upd", NEW j \in DOMAIN log[it.key], log[it.key][j].by = t
                   PROVE  j > 1 /\ log[it.key][j - 1].by = it.by
      BY DEF NoLostUpdate
    <2>3. it.key \in Key /\ Follows(t, it)
      BY <1>1, <2>1, Fields DEF ReadsInv, Overwrites, Range
    <2> QED BY <2>2, <2>3 DEF Follows
  <1> QED BY <1>1, ReadsInvariance, PTL
=============================================================================
