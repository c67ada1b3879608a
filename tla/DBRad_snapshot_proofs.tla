----------------------- MODULE DBRad_snapshot_proofs ------------------------
(***************************************************************************)
(* Proofs about the snapshot reads of DBRad, without RC.  First, get_ro()  *)
(* is exact about the past: ExactInv is the inductive invariant and builds *)
(* on ReadsInv of DBRad_reads_proofs.  Then, when stores are visible at    *)
(* once (no TSO), snapshots are stable: nobody publishes below one that    *)
(* has been read, and it sees transactions whole.  StableInv is the        *)
(* inductive invariant and builds on ExactInv.                             *)
(***************************************************************************)
EXTENDS DBRad_reads_proofs, WellFoundedInduction

\* A program reads at its snapshot only, or never does: local_ro_begin() starts
\* the read-only transactions, _begin() the others.
Pure(q) ==
  \/ \A i \in DOMAIN q : q[i].kind = "ro"
  \/ \A i \in DOMAIN q : q[i].kind # "ro"
Separate == \A t \in Tx : \A p \in Programs[t] : Pure(p)

\* The records a snapshot read is exact about.
Exact == Ordered \cap Intact

\* The old versions t walks are the history up to some version, and what is
\* above has at least the number that sent t to the old ones.
GoodChain(t, k) ==
  /\ Len(tx[t].chain) <= Len(log[k])
  /\ \A j \in DOMAIN tx[t].chain : tx[t].chain[j] = log[k][Len(tx[t].chain) + 1 - j]
  /\ \A j \in DOMAIN log[k] : j > Len(tx[t].chain) => log[k][j].ver >= tx[t].seq

\* A read-only transaction never leaves get_ro(), and the sequence number it
\* last saw has sent it to the current value or to the old ones.
RoInv(t) ==
  /\ Pure(tx[t].prog)
  /\ tx[t].snap # {} \/ tx[t].pc \in RoPhase =>
       /\ tx[t].pc \in RoPhase \cup {"ro_done"} \/ (tx[t].pc = "exec" /\ tx[t].prog # <<>>)
       /\ \A i \in DOMAIN tx[t].prog : tx[t].prog[i].kind = "ro"
  /\ tx[t].pc \in RoPhase => tx[t].base <= Len(log[CurKey(t)])
  /\ tx[t].pc \in {"ro_val", "ro_chk"} => tx[t].seq <= tx[t].timestamp
  /\ tx[t].pc \in {"ro_old", "ro_ochk"} => tx[t].seq > tx[t].timestamp
  /\ tx[t].pc = "ro_ochk" /\ tx[t].seq # 1 /\ CurKey(t) \in Exact => GoodChain(t, CurKey(t))

\* What has been returned at timestamp ts is exact about the first r.base versions.
GoodRead(ts, r) ==
  /\ r.base <= Len(log[r.key])
  /\ r.key \in Exact =>
       /\ r.ver <= ts
       /\ \A j \in 1..r.base : ~(r.ver < log[r.key][j].ver /\ log[r.key][j].ver <= ts)
RoSnaps(t) == \A r \in tx[t].snap : GoodRead(tx[t].timestamp, r)

\* The inductive invariant.
ExactInv == ReadsInv /\ \A t \in Tx : RoInv(t) /\ RoSnaps(t)

-----------------------------------------------------------------------------
(* The steps, as a snapshot read sees them.                                 *)

\* A step of a transaction that is not reading at a snapshot.
Other(t) ==
  /\ tx[t].pc \notin RoPhase \cup {"ro_done"} /\ tx'[t].pc \notin RoPhase
  /\ tx[t].pc = "exec" /\ tx[t].prog # <<>> => Head(tx[t].prog).kind # "ro"
  /\ tx'[t].snap = tx[t].snap
  /\ \/ tx'[t].prog = tx[t].prog \/ tx'[t].prog \in Programs[t]
     \/ tx[t].prog # <<>> /\ tx'[t].prog = Tail(tx[t].prog)
\* No step is of another kind.
LEMMA RoKinds ==
  ASSUME LockInv, NEW t \in Tx, Step(t) \/ Drain(t)
  PROVE  \/ Other(t) \/ Drains(t) \/ RoMoves(t)
         \/ \E v, b : RoReturns(t, v, b) /\ RoResult(t, v, b)
  <1> USE DEF RoPhase
  <1>1. CASE Drain(t) BY <1>1, DrainEffect
  <1>2. CASE Begin(t) BY <1>2, BeginEffect DEF Begins, Other, Idle
  <1>3. CASE Finish(t) \/ Serve(t)
    BY <1>3, EndMoving DEF EndMoves, Other, SameRead, EndPhase, LockPhase, CommitPhase, ReleasePhase
  <1>4. CASE GetRo(t) BY <1>4, GetRoEffect
  <1>5. CASE ReadSeq(t)
    <2>1. /\ tx[t].pc = "exec" /\ Reads(t, "val", tx[t].prog) /\ tx'[t].snap = tx[t].snap
          /\ Head(tx[t].prog).kind \in {"get", "upd"}
      BY <1>5, ReadSeqEffect
    <2> QED BY <2>1 DEF Reads, Other
  <1>6. CASE ReadValue(t)
    <2>1. /\ tx[t].pc = "val" /\ tx'[t].snap = tx[t].snap
          /\ Reads(t, "chk", tx[t].prog) \/ Reads(t, "exec", Tail(tx[t].prog))
      BY <1>6, ReadValueEffect
    <2>2. tx[t].prog # <<>> BY <2>1, Reading
    <2> QED BY <2>1, <2>2 DEF Reads, Other
  <1>7. CASE ReadCheck(t)
    <2>1. /\ tx[t].pc = "chk" /\ tx[t].prog # <<>>
          /\ \/ Reads(t, "exec", tx[t].prog) /\ tx'[t].snap = tx[t].snap
             \/ Adds(t, NewItem(CurKey(t), tx[t].seq, tx[t].val, Head(tx[t].prog).kind))
      BY <1>7, ReadCheckEffect
    <2> QED BY <2>1 DEF Reads, Adds, Other
  <1>8. CASE BlindWrite(t)
    <2>1. /\ tx[t].pc = "exec" /\ tx[t].prog # <<>> /\ Head(tx[t].prog).kind \in {"ins", "del"}
          /\ Adds(t, NewItem(CurKey(t), node[CurKey(t)].seq, node[CurKey(t)].value,
                             Head(tx[t].prog).kind))
      BY <1>8, BlindWriteEffect
    <2> QED BY <2>1 DEF Adds, Other
  <1>9. CASE DeleteItem(t) BY <1>9, DeleteItemEffect DEF Marks, Other
  <1> QED BY <1>1, <1>2, <1>3, <1>4, <1>5, <1>6, <1>7, <1>8, <1>9 DEF Step, Execute

\* What is left of a pure program.
LEMMA TailPure ==
  ASSUME NEW q \in Seq(Op), q # <<>>
  PROVE  /\ Pure(q) => Pure(Tail(q))
         /\ (\A i \in DOMAIN q : q[i].kind = "ro") => \A i \in DOMAIN Tail(q) : Tail(q)[i].kind = "ro"
         /\ Pure(q) /\ Head(q).kind = "ro" => \A i \in DOMAIN q : q[i].kind = "ro"
         /\ (\A i \in DOMAIN q : q[i].kind = "ro") => Head(q).kind = "ro"
         /\ Len(q) # 1 => Tail(q) # <<>>
  <1>1. \A i \in DOMAIN Tail(q) : i + 1 \in DOMAIN q /\ Tail(q)[i] = q[i + 1] OBVIOUS
  <1>2. 1 \in DOMAIN q /\ Head(q) = q[1] OBVIOUS
  <1>3. Len(q) # 1 => Tail(q) # <<>>
    <2> PICK r : r = Tail(q) OBVIOUS
    <2>1. r \in Seq(Op) /\ Len(r) = Len(q) - 1 /\ Len(q) \in Nat OBVIOUS
    <2>2. r = <<>> => Len(r) = 0 OBVIOUS
    <2>3. r = <<>> => Len(q) = 1 BY <2>1, <2>2
    <2> QED BY <2>3
  <1> QED BY <1>1, <1>2, <1>3 DEF Pure

\* A step of such a transaction.
LEMMA OtherKeeps ==
  ASSUME ExactInv, Separate, NEW t \in Tx, Other(t) PROVE RoInv(t)' /\ RoSnaps(t)'
  <1>1. LockInv /\ RoInv(t) BY DEF ExactInv, ReadsInv, OrderInv, HistInv, BooksInv
  <1>2. tx[t].prog \in Seq(Op) BY <1>1, Fields
  <1>3. tx[t].snap = {}
    <2>1. SUFFICES ASSUME tx[t].snap # {} PROVE FALSE OBVIOUS
    <2>2. /\ tx[t].pc = "exec" /\ tx[t].prog # <<>>
          /\ \A i \in DOMAIN tx[t].prog : tx[t].prog[i].kind = "ro"
      BY <1>1, <2>1 DEF RoInv, Other
    <2>3. Head(tx[t].prog).kind = "ro" BY <1>2, <2>2, TailPure
    <2> QED BY <2>2, <2>3 DEF Other
  <1>4. Pure(tx[t].prog)'
    <2> PICK q : q = tx'[t].prog OBVIOUS
    <2>1. Pure(q)
      <3>1. CASE q = tx[t].prog BY <1>1, <3>1 DEF RoInv
      <3>2. CASE q \in Programs[t] BY <3>2 DEF Separate
      <3>3. CASE tx[t].prog # <<>> /\ q = Tail(tx[t].prog) BY <1>1, <1>2, <3>3, TailPure DEF RoInv
      <3> QED BY <3>1, <3>2, <3>3 DEF Other
    <2> QED BY <2>1 DEF Pure
  <1>5. tx'[t].snap = {} /\ tx'[t].pc \notin RoPhase BY <1>3 DEF Other
  <1> QED BY <1>4, <1>5 DEF RoInv, RoSnaps, RoPhase

-----------------------------------------------------------------------------
(* Histories only get longer.                                               *)

\* What was published stays in its place, and what comes on top is not older.
Longer(k) ==
  /\ Len(log[k]) <= Len(log'[k])
  /\ \A j \in DOMAIN log[k] : j \in DOMAIN log'[k] /\ log'[k][j] = log[k][j]
  /\ k \in Ordered => \A j \in DOMAIN log'[k] : j > Len(log[k]) => log'[k][j].ver >= TopVer(k)
\* Every step lets histories grow like that.
LEMMA NextLonger ==
  ASSUME OrderInv, [Next]_vars, NEW k \in Key PROVE Longer(k)
  <1>1. HistInv /\ BooksInv /\ LockInv BY DEF OrderInv, HistInv, BooksInv
  <1>2. Len(log[k]) \in Nat /\ DOMAIN log[k] = 1..Len(log[k]) BY <1>1, TopVersion
  <1>3. CASE log'[k] = log[k] BY <1>2, <1>3 DEF Longer
  <1>4. ASSUME NEW t \in Tx, NEW it, AtTarget(t, it), k = it.key, Publishes(t, it) PROVE Longer(k)
    <2> DEFINE n == Len(log[k])
    <2>1. Extended(k, [ver |-> tx[t].timestamp, by |-> node[k].value])
          /\ tx[t].timestamp \in Nat
      BY <1>1, <1>4, PublishLog DEF AtTarget
    <2>2. /\ n \in Nat /\ DOMAIN log'[k] = 1..(n + 1) /\ DOMAIN log[k] = 1..n
          /\ \A j \in 1..n : log'[k][j] = log[k][j]
          /\ log'[k][n + 1].ver = tx[t].timestamp /\ Len(log'[k]) = n + 1
      BY <2>1 DEF Extended
    <2>3. k \in Ordered => TopVer(k) <= tx[t].timestamp BY <1>1, <1>4, PublishAbove DEF AtTarget
    <2>4. TopVer(k) \in Nat BY <1>1, TopVersion
    <2>5. ASSUME k \in Ordered, NEW j \in DOMAIN log'[k], j > n PROVE log'[k][j].ver >= TopVer(k)
      <3>1. j = n + 1 BY <2>2, <2>5
      <3> QED BY <2>1, <2>2, <2>3, <2>4, <2>5, <3>1
    <2>6. n <= Len(log'[k]) /\ \A j \in 1..n : j \in 1..(n + 1) BY <2>2
    <2> QED BY <2>2, <2>5, <2>6 DEF Longer
  <1>5. ASSUME NEW t \in Tx, NEW it, AtTarget(t, it) PROVE Longer(k)
    <2>1. k # it.key \/ ~Publishes(t, it) => log'[k] = log[k]
      BY <1>1, <1>5, InstallTop DEF AtTarget
    <2> QED BY <1>3, <1>4, <1>5, <2>1
  <1> QED BY <1>1, <1>3, <1>5, NextVersions DEF SameVersions

\* A result stays exact.
LEMMA GoodStays ==
  ASSUME LockInv, NEW r \in Read, NEW ts, Longer(r.key), GoodRead(ts, r), LockInv'
  PROVE  GoodRead(ts, r)'
  <1> PICK k, b : k = r.key /\ b = r.base OBVIOUS
  <1>1. k \in Key /\ b \in Nat BY DEF Read
  <1>2. Len(log[k]) \in Nat /\ DOMAIN log[k] = 1..Len(log[k]) BY <1>1, TopVersion
  <1>3. Len(log'[k]) \in Nat
    <2>1. log' \in [Key -> Seq(Version)] BY DEF LockInv, TypeOK
    <2>2. log'[k] \in Seq(Version) BY <1>1, <2>1
    <2> QED BY <2>2
  <1>4. b <= Len(log[k]) /\ Len(log[k]) <= Len(log'[k]) BY DEF GoodRead, Longer
  <1>5. b <= Len(log'[k]) BY <1>1, <1>2, <1>3, <1>4
  <1>6. \A j \in 1..b : log'[k][j] = log[k][j]
    <2>1. \A j \in 1..b : j \in DOMAIN log[k] BY <1>1, <1>2, <1>4
    <2> QED BY <2>1 DEF Longer
  <1> QED BY <1>5, <1>6 DEF GoodRead, Exact, Ordered, Intact, Does, IsLocal

\* A transaction whose own state does not change, while others publish.
LEMMA RoStays ==
  ASSUME ExactInv, LockInv', NEW u \in Tx, \A k \in Key : Longer(k),
         SameEnd(u), SameRead(u), tx'[u].pc = tx[u].pc
  PROVE  RoInv(u)' /\ RoSnaps(u)'
  <1>1. LockInv /\ RoInv(u) /\ RoSnaps(u) /\ ReadInv(u) /\ tx[u].seq \in Nat
    BY Fields DEF ExactInv, ReadsInv, OrderInv, HistInv, BooksInv
  <1>2. RoSnaps(u)'
    <2>1. tx[u].snap \in SUBSET Read BY <1>1, Fields DEF TxState
    <2>2. ASSUME NEW r \in tx[u].snap PROVE GoodRead(tx[u].timestamp, r)'
      <3> PICK ts : ts = tx[u].timestamp OBVIOUS
      <3>1. r \in Read /\ r.key \in Key BY <2>1 DEF Read
      <3>2. GoodRead(ts, r)' BY <1>1, <3>1, GoodStays DEF RoSnaps
      <3> QED BY <3>2 DEF GoodRead, SameEnd
    <2> QED BY <2>2 DEF RoSnaps, SameRead
  <1>3. ASSUME tx[u].pc \in RoPhase, NEW k, k = CurKey(u)
        PROVE  /\ tx[u].base <= Len(log'[k])
               /\ tx[u].pc = "ro_ochk" /\ tx[u].seq # 1 /\ k \in Exact => GoodChain(u, k)'
    <2>1. k \in Key /\ CurKey(u)' = k BY <1>1, <1>3, Reading DEF CurKey, SameRead
    <2>2. /\ Len(log[k]) \in Nat /\ DOMAIN log[k] = 1..Len(log[k]) /\ TopVer(k) \in Nat
          /\ tx[u].base \in Nat
      BY <1>1, <2>1, TopVersion, Fields DEF TxState
    <2>3. log'[k] \in Seq(Version)
      <3>1. log' \in [Key -> Seq(Version)] BY DEF LockInv, TypeOK
      <3> QED BY <2>1, <3>1
    <2>4. Len(log'[k]) \in Nat /\ DOMAIN log'[k] = 1..Len(log'[k]) BY <2>3
    <2>5. Longer(k) BY <2>1
    <2>6. tx[u].base <= Len(log'[k]) BY <1>1, <1>3, <2>2, <2>4, <2>5 DEF RoInv, Longer
    <2>7. ASSUME tx[u].pc = "ro_ochk", tx[u].seq # 1, k \in Exact PROVE GoodChain(u, k)'
      <3> PICK c, s : c = tx[u].chain /\ s = tx[u].seq OBVIOUS
      <3>1. /\ Len(c) <= Len(log[k]) /\ \A j \in DOMAIN c : c[j] = log[k][Len(c) + 1 - j]
            /\ \A j \in DOMAIN log[k] : j > Len(c) => log[k][j].ver >= s
        BY <1>1, <1>3, <2>7 DEF RoInv, GoodChain
      <3>2. c \in Seq(Version) BY <1>1, Fields
      <3>3. Len(c) \in Nat /\ DOMAIN c = 1..Len(c) BY <3>2
      <3>4. k \in Ordered /\ s <= TopVer(k) /\ s \in Nat
        BY <1>1, <1>3, <2>7 DEF ReadInv, Begun, Exact
      <3>5. Len(c) <= Len(log'[k]) BY <2>2, <2>4, <2>5, <3>1, <3>3 DEF Longer
      <3>6. \A j \in DOMAIN c : c[j] = log'[k][Len(c) + 1 - j]
        <4>1. \A j \in DOMAIN c : Len(c) + 1 - j \in DOMAIN log[k] BY <2>2, <3>1, <3>3
        <4> QED BY <2>5, <3>1, <4>1 DEF Longer
      <3>7. ASSUME NEW j \in DOMAIN log'[k], j > Len(c) PROVE log'[k][j].ver >= s
        <4>1. CASE j <= Len(log[k])
          <5>1. j \in DOMAIN log[k] BY <2>2, <2>4, <4>1
          <5> QED BY <2>5, <3>1, <3>7, <5>1 DEF Longer
        <4>2. CASE j > Len(log[k])
          <5>1. log'[k][j].ver >= TopVer(k) BY <2>5, <3>4, <4>2 DEF Longer
          <5>2. log'[k][j] \in Version BY <2>3
          <5>3. log'[k][j].ver \in Nat BY <5>2 DEF Version
          <5> QED BY <2>2, <3>4, <5>1, <5>3
        <4> QED BY <2>2, <2>4, <4>1, <4>2
      <3>8. tx'[u].chain = c /\ tx'[u].seq = s BY DEF SameRead
      <3> QED BY <3>5, <3>6, <3>7, <3>8 DEF GoodChain
    <2> QED BY <2>6, <2>7
  <1>4. Exact' = Exact BY DEF Exact, Ordered, Intact, Does, IsLocal
  <1>5. Pure(tx[u].prog)' BY <1>1 DEF RoInv, Pure, SameRead
  <1>6. CASE tx[u].pc \notin RoPhase
    <2>1. tx[u].pc \notin {"ro_val", "ro_chk", "ro_old", "ro_ochk"} BY <1>6 DEF RoPhase
    <2> QED BY <1>1, <1>2, <1>5, <1>6, <2>1 DEF RoInv, SameRead
  <1>7. CASE tx[u].pc \in RoPhase
    <2> PICK k : k = CurKey(u) OBVIOUS
    <2>1. CurKey(u)' = k BY DEF CurKey, SameRead
    <2>2. /\ tx[u].base <= Len(log'[k])
          /\ tx[u].pc = "ro_ochk" /\ tx[u].seq # 1 /\ k \in Exact => GoodChain(u, k)'
      BY <1>3, <1>7
    <2>3. /\ \A i \in DOMAIN tx'[u].prog : tx'[u].prog[i].kind = "ro"
          /\ tx'[u].pc \in {"ro_val", "ro_chk"} => tx'[u].seq <= tx'[u].timestamp
          /\ tx'[u].pc \in {"ro_old", "ro_ochk"} => tx'[u].seq > tx'[u].timestamp
      BY <1>1, <1>7 DEF RoInv, SameRead, SameEnd
    <2>4. tx'[u].base = tx[u].base /\ tx'[u].seq = tx[u].seq BY DEF SameRead
    <2> QED BY <1>2, <1>4, <1>5, <1>7, <2>1, <2>2, <2>3, <2>4 DEF RoInv
  <1> QED BY <1>6, <1>7

-----------------------------------------------------------------------------
(* The steps of get_ro().                                                    *)

\* The old versions, when t takes them.
LEMMA ChainTaken ==
  ASSUME ReadsInv, NEW k \in Exact, NEW s \in Nat, s <= TopVer(k)
  PROVE  /\ Len(node[k].old) <= Len(log[k])
         /\ \A j \in DOMAIN node[k].old : node[k].old[j] = log[k][Len(node[k].old) + 1 - j]
         /\ \A j \in DOMAIN log[k] : j > Len(node[k].old) => log[k][j].ver >= s
  <1>1. LockInv /\ k \in Key /\ NodeInv(k) /\ Whole(k)
    BY DEF Exact, Intact, ReadsInv, OrderInv, HistInv, BooksInv
  <1> DEFINE n == Len(log[k])
             m == Len(node[k].old)
  <1>2. /\ n \in Nat /\ DOMAIN log[k] = 1..n /\ TopVer(k) \in Nat /\ node[k].old \in Seq(Version)
    BY <1>1, TopVersion
  <1>3. m \in Nat BY <1>2
  <1>4. CASE node[k].seq = 1
    <2>1. PICK u \in Tx : Changing(k, u) BY <1>1, <1>4 DEF NodeInv, Whole, Hidden
    <2>2. m = n BY <1>1, <1>4 DEF Whole
    <2> QED BY <1>2, <2>1, <2>2 DEF Changing, Chain
  <1>5. CASE node[k].seq # 1
    <2>1. m + 1 = n /\ Chain(k, n - 1) BY <1>1, <1>5 DEF Whole, NodeInv, Settled
    <2>2. n - 1 = m BY <1>2, <1>3, <2>1
    <2>3. \A j \in DOMAIN node[k].old : node[k].old[j] = log[k][m + 1 - j]
      BY <2>1, <2>2 DEF Chain
    <2>4. ASSUME NEW j \in DOMAIN log[k], j > m PROVE log[k][j].ver >= s
      <3>1. j = n /\ n > 0 BY <1>2, <1>3, <2>1, <2>4
      <3>2. log[k][j].ver = TopVer(k) BY <1>1, <3>1, TopVersion
      <3> QED BY <1>2, <3>2
    <2> QED BY <1>2, <1>3, <2>1, <2>3, <2>4
  <1> QED BY <1>4, <1>5

\* A step of get_ro() that does not return.
LEMMA MovesKeep ==
  ASSUME ExactInv, ~RC, NEW t \in Tx, RoMoves(t) PROVE RoInv(t)' /\ RoSnaps(t)'
  <1>1. LockInv /\ RoInv(t) /\ RoSnaps(t) /\ ReadInv(t) /\ tx[t].seq \in Nat
        /\ ReadsInv /\ tx[t].prog \in Seq(Op) /\ tx[t].timestamp \in Nat
    BY Fields DEF ExactInv, ReadsInv, OrderInv, HistInv, BooksInv
  <1>2. /\ log' = log /\ tx'[t].snap = tx[t].snap /\ tx'[t].timestamp = tx[t].timestamp
        /\ tx'[t].prog = tx[t].prog /\ tx[t].prog # <<>> /\ tx'[t].pc \in RoPhase
    BY DEF RoMoves, Reads, SameVersions, SameEnd
  <1> PICK k : k = CurKey(t) OBVIOUS
  <1>3. CurKey(t)' = k /\ k \in Key BY <1>1, <1>2, Reading DEF CurKey
  <1>4. Len(log[k]) \in Nat /\ node[k].seq \in Nat BY <1>1, <1>3, TopVersion
  <1>5. Exact' = Exact BY DEF Exact, Ordered, Intact, Does, IsLocal
  <1>6. RoSnaps(t)'
    BY <1>1, <1>2, <1>5 DEF RoSnaps, GoodRead
  <1>7. Pure(tx[t].prog)' /\ \A i \in DOMAIN tx'[t].prog : tx'[t].prog[i].kind = "ro"
    <2>1. \A i \in DOMAIN tx[t].prog : tx[t].prog[i].kind = "ro"
      <3>1. CASE tx[t].pc \in RoPhase BY <1>1, <3>1 DEF RoInv
      <3>2. CASE Head(tx[t].prog).kind = "ro" BY <1>1, <1>2, <3>2, TailPure DEF RoInv
      <3> QED BY <3>1, <3>2 DEF RoMoves
    <2> QED BY <1>2, <2>1 DEF Pure
  <1>8. tx'[t].base <= Len(log'[k])
    BY <1>1, <1>2, <1>4 DEF RoMoves, RoInv
  <1>9. CASE tx'[t].pc \notin Begun
    <2>1. tx'[t].pc \notin {"ro_val", "ro_chk", "ro_old", "ro_ochk"} BY <1>9 DEF Begun
    <2> QED BY <1>2, <1>3, <1>6, <1>7, <1>8, <2>1 DEF RoInv
  <1>10. CASE /\ tx'[t].seq = node[k].seq
              /\ tx'[t].pc = IF RC \/ node[k].seq <= tx[t].timestamp THEN "ro_val" ELSE "ro_old"
    <2>1. /\ tx'[t].pc \in {"ro_val", "ro_chk"} => tx'[t].seq <= tx'[t].timestamp
          /\ tx'[t].pc \in {"ro_old", "ro_ochk"} => tx'[t].seq > tx'[t].timestamp
          /\ tx'[t].pc # "ro_ochk"
      BY <1>1, <1>2, <1>4, <1>10
    <2> QED BY <1>2, <1>3, <1>6, <1>7, <1>8, <2>1 DEF RoInv
  <1>11. CASE tx[t].pc = "ro_val" /\ tx'[t].pc = "ro_chk" /\ tx'[t].seq = tx[t].seq
    <2>1. tx'[t].seq <= tx'[t].timestamp BY <1>1, <1>2, <1>11 DEF RoInv
    <2> QED BY <1>2, <1>3, <1>6, <1>7, <1>8, <1>11, <2>1 DEF RoInv
  <1>12. CASE tx[t].pc = "ro_old" /\ tx'[t].pc = "ro_ochk" /\ tx'[t].seq = tx[t].seq
              /\ tx'[t].chain = node[k].old
    <2>1. tx'[t].seq > tx'[t].timestamp BY <1>1, <1>2, <1>12 DEF RoInv
    <2>2. ASSUME tx[t].seq # 1, k \in Exact PROVE GoodChain(t, k)'
      <3> PICK s, c : s = tx[t].seq /\ c = node[k].old OBVIOUS
      <3>1. s \in Nat /\ s <= TopVer(k) BY <1>1, <1>12, <2>2 DEF ReadInv, Begun, Exact
      <3>2. /\ Len(c) <= Len(log[k])
            /\ \A j \in DOMAIN c : c[j] = log[k][Len(c) + 1 - j]
            /\ \A j \in DOMAIN log[k] : j > Len(c) => log[k][j].ver >= s
        BY <1>1, <2>2, <3>1, ChainTaken
      <3>3. tx'[t].chain = c /\ tx'[t].seq = s BY <1>12
      <3> QED BY <1>2, <3>2, <3>3 DEF GoodChain
    <2> QED BY <1>2, <1>3, <1>5, <1>6, <1>7, <1>8, <1>12, <2>1, <2>2 DEF RoInv
  <1> QED BY <1>9, <1>10, <1>11, <1>12 DEF RoMoves, Begun

\* The walk over the old versions finds the first one that is old enough.
LEMMA FirstVisible ==
  ASSUME LockInv, NEW t \in Tx, NEW g \in DOMAIN tx[t].chain, tx[t].chain[g].ver <= tx[t].timestamp
  PROVE  Visible(t) # {}
  <1> PICK c, ts : c = tx[t].chain /\ ts = tx[t].timestamp OBVIOUS
  <1> DEFINE T == {h \in DOMAIN c : c[h].ver <= ts}
  <1>1. c \in Seq(Version) /\ ts \in Nat BY Fields
  <1>2. DOMAIN c \subseteq Nat \ {0} /\ \A h \in DOMAIN c : c[h] \in Version BY <1>1
  <1>3. \A h \in DOMAIN c : c[h].ver \in Nat BY <1>2 DEF Version
  <1>4. T \subseteq Nat /\ T # {} BY <1>2
  <1>5. PICK x \in T : \A y \in T : ~(<<y, x>> \in OpToRel(<, Nat))
    <2> HIDE DEF T
    <2> QED BY <1>4, NatLessThanWellFounded, WFMin
  <1>6. \A y \in T : ~(y < x) BY <1>4, <1>5 DEF OpToRel
  <1>7. ASSUME NEW h \in 1..(x - 1) PROVE c[h].ver > ts
    <2>1. h \in DOMAIN c /\ h < x
      <3>1. DOMAIN c = 1..Len(c) /\ Len(c) \in Nat BY <1>1
      <3> QED BY <1>2, <3>1
    <2>2. h \notin T BY <1>6, <2>1
    <2> QED BY <1>1, <1>3, <2>1, <2>2
  <1>8. x \in Visible(t) BY <1>7 DEF Visible
  <1> QED BY <1>8

\* What get_ro() returns is exact.
LEMMA ResultExact ==
  ASSUME ExactInv, NEW t \in Tx, NEW v, NEW b, tx[t].pc \in RoPhase, RoResult(t, v, b),
         NEW k \in Exact, k = CurKey(t)
  PROVE  /\ v <= tx[t].timestamp
         /\ \A j \in DOMAIN log[k] : ~(v < log[k][j].ver /\ log[k][j].ver <= tx[t].timestamp)
  <1> PICK ts : ts = tx[t].timestamp OBVIOUS
  <1>1. /\ LockInv /\ RoInv(t) /\ ReadInv(t) /\ tx[t].seq \in Nat /\ ts \in Nat
        /\ k \in Key /\ NodeInv(k) /\ Whole(k) /\ InOrder(k) /\ Times(t)
    BY Fields DEF ExactInv, ReadsInv, OrderInv, HistInv, BooksInv, Booked, Exact, Intact
  <1> DEFINE n == Len(log[k])
  <1>2. /\ n \in Nat /\ DOMAIN log[k] = 1..n /\ TopVer(k) \in Nat
        /\ \A j \in DOMAIN log[k] : log[k][j].ver \in Nat
    BY <1>1, TopVersion
  <1>5. ts >= 2 BY <1>1 DEF Times, RoPhase, Idle
  <1>6. ASSUME tx[t].pc = "ro_val", node[k].value = Null PROVE FALSE
    <2>1. n > 0 /\ n \in DOMAIN log[k] BY <1>1, <1>2 DEF Whole
    <2>2. node[k].seq # 1 BY <1>1, <1>6 DEF Whole
    <2>3. node[k].value = log[k][n].by BY <1>1, <2>1, <2>2 DEF NodeInv, Settled
    <2> QED BY <1>1, <1>6, <2>1, <2>3 DEF Whole
  <1>7. CASE tx[t].pc = "ro_chk" /\ tx[t].seq # 1 /\ node[k].seq = tx[t].seq /\ v = tx[t].seq
    <2>1. v <= ts BY <1>1, <1>7 DEF RoInv
    <2>2. v = TopVer(k) BY <1>1, <1>7 DEF NodeInv, Settled
    <2>3. \A j \in DOMAIN log[k] : log[k][j].ver <= v BY <1>1, <2>2, InOrderTop
    <2> QED BY <1>2, <2>1, <2>2, <2>3
  <1>8. ASSUME tx[t].pc = "ro_ochk", tx[t].seq # 1,
               \/ Visible(t) = {} /\ v = 1
               \/ \E j \in Visible(t) : v = tx[t].chain[j].ver
        PROVE  /\ v <= ts
               /\ \A j \in DOMAIN log[k] : ~(v < log[k][j].ver /\ log[k][j].ver <= ts)
    <2> PICK c : c = tx[t].chain OBVIOUS
    <2> DEFINE m == Len(c)
    <2>1. tx[t].seq > ts /\ GoodChain(t, k) BY <1>1, <1>8 DEF RoInv
    <2>2. c \in Seq(Version) BY <1>1, Fields
    <2>3. m \in Nat /\ DOMAIN c = 1..m /\ \A h \in DOMAIN c : c[h] \in Version BY <2>2
    <2>4. \A h \in DOMAIN c : c[h].ver \in Nat BY <2>3 DEF Version
    <2>5. /\ m <= n /\ \A h \in DOMAIN c : c[h] = log[k][m + 1 - h]
          /\ \A j \in DOMAIN log[k] : j > m => log[k][j].ver >= tx[t].seq
      BY <2>1 DEF GoodChain
    <2>6. v <= ts BY <1>1, <1>5, <1>8 DEF Visible
    <2>7. ASSUME NEW j \in DOMAIN log[k], v < log[k][j].ver, log[k][j].ver <= ts PROVE FALSE
      <3>1. j \in DOMAIN log[k] /\ log[k][j].ver \in Nat /\ j \in Nat /\ j >= 1 BY <1>2
      <3>2. ~(j > m)
        <4>1. j > m => log[k][j].ver >= tx[t].seq BY <2>5, <3>1
        <4> QED BY <1>1, <2>1, <2>7, <3>1, <4>1
      <3> PICK g : g = m + 1 - j OBVIOUS
      <3>3. g \in DOMAIN c /\ m + 1 - g = j BY <2>3, <3>1, <3>2
      <3>4. c[g] = log[k][j] BY <2>5, <3>3
      <3>5. Visible(t) # {} BY <1>1, <2>7, <3>3, <3>4, FirstVisible
      <3>6. PICK h \in Visible(t) : v = c[h].ver BY <1>8, <3>5
      <3>7. h \in DOMAIN c /\ \A i \in 1..(h - 1) : c[i].ver > ts BY <3>6 DEF Visible
      <3>8. ~(g < h)
        <4>1. g < h => g \in 1..(h - 1) BY <2>3, <3>3, <3>7
        <4>2. c[g].ver \in Nat BY <2>4, <3>3
        <4>3. c[g].ver <= ts BY <2>7, <3>4
        <4>4. g < h => c[g].ver > ts BY <3>7, <4>1
        <4> QED BY <1>1, <4>2, <4>3, <4>4
      <3>9. g # h BY <2>4, <2>7, <3>3, <3>4, <3>6
      <3> PICK i : i = m + 1 - h OBVIOUS
      <3>10. i \in DOMAIN log[k] /\ j < i /\ c[h] = log[k][i]
        <4>1. g \in 1..m /\ h \in 1..m /\ m \in Nat /\ n \in Nat /\ m <= n
          BY <1>2, <2>3, <2>5, <3>3, <3>7
        <4> HIDE DEF m, n
        <4>2. i \in 1..n /\ j < i BY <3>3, <3>8, <3>9, <4>1
        <4> QED BY <1>2, <2>5, <3>7, <4>2
      <3>11. log[k][j].ver <= log[k][i].ver BY <1>1, <3>1, <3>10 DEF InOrder
      <3>12. log[k][i].ver \in Nat BY <1>2, <3>10
      <3> QED BY <2>7, <3>1, <3>6, <3>10, <3>11, <3>12
    <2> QED BY <2>6, <2>7
  <1> QED BY <1>6, <1>7, <1>8 DEF RoResult

\* A return from get_ro().
LEMMA ReturnsKeep ==
  ASSUME ExactInv, NEW t \in Tx, NEW v, NEW b, RoReturns(t, v, b), RoResult(t, v, b)
  PROVE  RoInv(t)' /\ RoSnaps(t)'
  <1>1. LockInv /\ RoInv(t) /\ RoSnaps(t) /\ tx[t].prog \in Seq(Op)
    BY Fields DEF ExactInv, ReadsInv, OrderInv, HistInv, BooksInv
  <1> PICK g, q, k : g = Got(t, v, b) /\ q = Tail(tx[t].prog) /\ k = CurKey(t) OBVIOUS
  <1>2. /\ log' = log /\ tx'[t].snap = tx[t].snap \cup {g} /\ tx'[t].timestamp = tx[t].timestamp
        /\ tx'[t].prog = q /\ tx[t].prog # <<>> /\ tx[t].pc \in RoPhase
        /\ tx'[t].pc = IF Len(tx[t].prog) = 1 THEN "ro_done" ELSE "exec"
    BY DEF RoReturns, Reads, SameVersions, SameEnd
  <1>3. Exact' = Exact BY DEF Exact, Ordered, Intact, Does, IsLocal
  <1>4. GoodRead(tx[t].timestamp, g)
    <2>1. g.key = k /\ g.ver = v /\ g.base = tx[t].base BY DEF Got
    <2>2. tx[t].base <= Len(log[k]) BY <1>1, <1>2 DEF RoInv
    <2>3. \A j \in 1..tx[t].base : k \in Key => j \in DOMAIN log[k]
      <3>1. k \in Key => DOMAIN log[k] = 1..Len(log[k]) /\ Len(log[k]) \in Nat BY <1>1, TopVersion
      <3>2. tx[t].base \in Nat BY <1>1, Fields DEF TxState
      <3> QED BY <2>2, <3>1, <3>2
    <2>4. k \in Exact => k \in Key BY DEF Exact, Ordered
    <2> QED BY <1>2, <2>1, <2>2, <2>3, <2>4, ResultExact DEF GoodRead
  <1>5. RoSnaps(t)'
    <2>1. ASSUME NEW r \in tx'[t].snap PROVE GoodRead(tx[t].timestamp, r)'
      <3> PICK ts : ts = tx[t].timestamp OBVIOUS
      <3>1. GoodRead(ts, r) BY <1>1, <1>2, <1>4 DEF RoSnaps
      <3>2. GoodRead(ts, r)' BY <1>2, <1>3, <3>1 DEF GoodRead
      <3> QED BY <1>2, <3>2 DEF GoodRead
    <2> QED BY <2>1 DEF RoSnaps
  <1>6. /\ \A i \in DOMAIN q : q[i].kind = "ro"
        /\ Len(tx[t].prog) # 1 => q # <<>>
    BY <1>1, <1>2, TailPure DEF RoInv
  <1>7. Pure(tx[t].prog)' BY <1>2, <1>6 DEF Pure
  <1>8. tx'[t].pc \notin RoPhase
        /\ (tx'[t].pc = "ro_done" \/ (tx'[t].pc = "exec" /\ tx'[t].prog # <<>>))
    BY <1>2, <1>6 DEF RoPhase
  <1> QED BY <1>2, <1>5, <1>6, <1>7, <1>8 DEF RoInv, RoPhase

\* Every step keeps snapshot reads exact.
LEMMA NextExact ==
  ASSUME ~RC, Separate, ExactInv, [Next]_vars PROVE ExactInv'
  <1>1. /\ LockInv /\ OrderInv /\ ReadsInv /\ ReadsInv' /\ \A k \in Key : Longer(k)
    BY NextReads, NextLonger DEF ExactInv, ReadsInv, OrderInv, HistInv, BooksInv
  <1>2. LockInv' BY <1>1 DEF ReadsInv, OrderInv, HistInv, BooksInv
  <1>3. ASSUME NEW u \in Tx, tx'[u] = tx[u] PROVE RoInv(u)' /\ RoSnaps(u)'
    BY <1>1, <1>2, <1>3, OtherViews, RoStays
  <1>4. ASSUME NEW t \in Tx, Step(t) \/ Drain(t), NEW u \in Tx PROVE RoInv(u)' /\ RoSnaps(u)'
    <2>1. CASE u # t
      <3>1. tx'[u] = tx[u] BY <1>1, <1>4, <2>1, StepKinds DEF Alone, ReadsInv, OrderInv, HistInv
      <3> QED BY <1>3, <3>1
    <2>2. CASE u = t
      <3>1. CASE Drains(t) BY <1>1, <1>2, <2>2, <3>1, RoStays DEF Drains
      <3> QED BY <1>1, <1>4, <2>2, <3>1, RoKinds, OtherKeeps, MovesKeep, ReturnsKeep
    <2> QED BY <2>1, <2>2
  <1>5. ASSUME UNCHANGED vars, NEW u \in Tx PROVE RoInv(u)' /\ RoSnaps(u)'
    BY <1>3, <1>5 DEF vars
  <1> QED BY <1>1, <1>4, <1>5 DEF Next, Terminated, ExactInv

\* Nobody reads at a snapshot at the start.
LEMMA InitExact == ASSUME Init PROVE ExactInv
  <1>1. ASSUME NEW t \in Tx PROVE RoInv(t) /\ RoSnaps(t)
    <2>1. tx[t].pc = Idle /\ tx[t].prog = <<>> /\ tx[t].snap = {} BY DEF Init
    <2> QED BY <2>1 DEF RoInv, RoSnaps, RoPhase, Idle, Pure
  <1> QED BY <1>1, InitReads DEF ExactInv

\* Snapshot reads under way and their results, in every reachable state.
THEOREM ExactInvariance ==
  ASSUME ~RC, Separate PROVE Spec => []ExactInv
  <1>1. Init => ExactInv BY InitExact
  <1>2. ExactInv /\ [Next]_vars => ExactInv' BY NextExact
  <1> QED BY <1>1, <1>2, PTL DEF Spec

\* get_ro() without RC returns no version newer than its timestamp and misses
\* none that had been published when it began, whatever is installed while it
\* runs, for records that are loaded, never deleted and not inserted at their
\* own machine.
THEOREM SnapshotsExact ==
  ASSUME ~RC, Separate, Exact = Key PROVE Spec => []SnapshotExact
  <1>1. ASSUME ExactInv PROVE SnapshotExact
    <2>1. SUFFICES ASSUME NEW t \in Tx, NEW r \in tx[t].snap
                   PROVE  /\ r.ver <= tx[t].timestamp
                          /\ \A j \in 1..r.base : ~(/\ r.ver < log[r.key][j].ver
                                                    /\ log[r.key][j].ver <= tx[t].timestamp)
      BY DEF SnapshotExact
    <2>2. LockInv BY <1>1 DEF ExactInv, ReadsInv, OrderInv, HistInv, BooksInv
    <2>3. tx[t].snap \in SUBSET Read BY <2>2, Fields DEF TxState
    <2>4. r.key \in Key BY <2>3 DEF Read
    <2> QED BY <1>1, <2>4 DEF ExactInv, RoSnaps, GoodRead
  <1> QED BY <1>1, ExactInvariance, PTL

-----------------------------------------------------------------------------
(* Store buffers, read_ts and the timestamps of writers.                    *)

\* What a step does to the stores that wait and to read_ts.
Buffers(t) ==
  /\ \A k \in Key : node'[k].read_ts = node[k].read_ts
  /\ tx'[t].sbuf = tx[t].sbuf \/ (tx[t].pc = "ro_set" /\ tx'[t].sbuf = {CurKey(t)})
\* Locks are no part of it.
LEMMA LockOnly ==
  ASSUME LockInv, NEW k \in Key, NEW v, NEW h \in Key,
         node' = node \/ node' = [node EXCEPT ![k].lock = v]
  PROVE  node'[h].read_ts = node[h].read_ts
  <1>1. node \in [Key -> MemNode] BY DEF LockInv, TypeOK
  <1> QED BY <1>1 DEF MemNode

\* get() and the other operations of the application.
LEMMA ExecuteBuffers ==
  ASSUME LockInv, NEW t \in Tx, Begin(t) \/ Execute(t) PROVE Buffers(t)
  <1>1. tx \in [Tx -> TxState] BY DEF LockInv, TypeOK
  <1>2. node' = node BY DEF Begin, Execute, ReadSeq, ReadValue, ReadCheck, BlindWrite, DeleteItem
  <1>4. CASE Begin(t)
    BY <1>1, <1>2, <1>4 DEF Begin, Become, Buffers, TxState
  <1>5. CASE ReadSeq(t) BY <1>1, <1>2, <1>5 DEF ReadSeq, Become, Buffers, TxState
  <1>6. CASE ReadValue(t)
    <2>1. CASE Become(t, [tx[t] EXCEPT !.pc = "chk", !.val = node[CurKey(t)].value])
      BY <1>1, <1>2, <2>1 DEF Become, Buffers, TxState
    <2>2. CASE Become(t, [tx[t] EXCEPT !.pc = "exec", !.prog = Tail(@)])
      BY <1>1, <1>2, <2>2 DEF Become, Buffers, TxState
    <2> QED BY <1>6, <2>1, <2>2 DEF ReadValue
  <1>7. ASSUME NEW k, NEW s, NEW v, NEW kd, Become(t, AddItem(t, k, s, v, kd)) PROVE Buffers(t)
    <2> PICK it : it = NewItem(k, s, v, kd) OBVIOUS
    <2>1. CASE Become(t, AddLocal(t, it))
      BY <1>1, <1>2, <2>1 DEF AddLocal, Become, Buffers, TxState
    <2>2. CASE Become(t, AddRemote(t, it))
      BY <1>1, <1>2, <2>2 DEF AddRemote, Become, Buffers, TxState
    <2> QED BY <1>7, <2>1, <2>2 DEF AddItem
  <1>8. CASE ReadCheck(t)
    <2>1. CASE Become(t, [tx[t] EXCEPT !.pc = "exec"])
      BY <1>1, <1>2, <2>1 DEF Become, Buffers, TxState
    <2> QED BY <1>7, <1>8, <2>1 DEF ReadCheck
  <1>9. CASE BlindWrite(t) BY <1>7, <1>9 DEF BlindWrite
  <1>10. CASE DeleteItem(t)
    <2>1. PICK j \in Items(t, CurKey(t)) :
            Become(t, [tx[t] EXCEPT !.prog = Tail(@),
                      !.rwset[j] = [@ EXCEPT !.kind = "del", !.w = TRUE],
                      !.timestamp = MAX(@, tx[t].rwset[j].seq)])
      BY <1>10 DEF DeleteItem
    <2> QED BY <1>1, <1>2, <2>1 DEF Become, Buffers, TxState
  <1> QED BY <1>4, <1>5, <1>6, <1>8, <1>9, <1>10 DEF Execute

\* An install.
LEMMA InstallBuffers ==
  ASSUME LockInv, NEW t \in Tx, NEW it \in Item, NEW ver, NEW i, NEW todo, NEW x,
         x = [tx[t] EXCEPT !.i = i, !.todo = todo],
         Hide(t, it) \/ Swap(t, it, ver) \/ Publish(t, it) \/ Unlock(t, it, x)
  PROVE  Buffers(t)
  <1>1. tx \in [Tx -> TxState] /\ node \in [Key -> MemNode] BY DEF LockInv, TypeOK
  <1>2. it.key \in Key BY DEF Item
  <1> PICK p : p = PartOf[it.key] OBVIOUS
  <1>3. tx'[t].sbuf = tx[t].sbuf
    <2>1. CASE Become(t, [tx[t] EXCEPT !.stage[p] = 1])
      BY <1>1, <2>1 DEF Become, TxState
    <2>2. CASE Become(t, [tx[t] EXCEPT !.stage[p] = 2])
      BY <1>1, <2>2 DEF Become, TxState
    <2>3. CASE Become(t, [x EXCEPT !.stage[p] = 0])
      <3>1. x.sbuf = tx[t].sbuf BY <1>1 DEF TxState
      <3>2. [x EXCEPT !.stage[p] = 0].sbuf = x.sbuf BY <1>1 DEF TxState
      <3> QED BY <1>1, <2>3, <3>1, <3>2 DEF Become
    <2>4. CASE Hide(t, it) BY <2>4 DEF Hide
    <2> QED BY <2>1, <2>2, <2>3, <2>4 DEF Swap, Publish, Unlock
  <1>4. \A k \in Key : node'[k].read_ts = node[k].read_ts
    <2>1. CASE Swap(t, it, ver) BY <2>1, SwapEffect, <1>2 DEF Swaps, NodeTo
    <2>2. CASE Publish(t, it) BY <2>2, PublishEffect, <1>2 DEF Publishes, NodeTo
    <2>3. CASE Unlock(t, it, x)
      <3>1. Unlocks(t, it, i, todo) BY <2>3, UnlockEffect
      <3> QED BY <1>2, <3>1 DEF Unlocks, NodeTo
    <2>4. CASE Hide(t, it) BY <2>4, HideEffect, <1>2 DEF Hides, NodeTo
    <2> QED BY <2>1, <2>2, <2>3, <2>4
  <1> QED BY <1>3, <1>4 DEF Buffers

\* end().
LEMMA FinishBuffers ==
  ASSUME LockInv, NEW t \in Tx, Finish(t) \/ Serve(t) PROVE Buffers(t)
  <1>1. tx \in [Tx -> TxState] /\ node \in [Key -> MemNode] BY DEF LockInv, TypeOK
  <1>2. \/ End(t) \/ LockReplies(t) \/ LockCheck(t) \/ CommitTs(t) \/ CommitRemote(t)
        \/ CommitReplies(t) \/ ReleaseReplies(t)
        => node' = node
    BY DEF End, LockReplies, LockCheck, CommitTs, CommitRemote, CommitReplies, ReleaseReplies
  <1>3. CASE Abort(t) /\ UNCHANGED node BY <1>1, <1>3 DEF Abort, Become, Buffers, TxState
  <1>4. CASE End(t) BY <1>1, <1>2, <1>4 DEF End, Become, Buffers, TxState
  <1>5. CASE LockReplies(t)
    <2>1. CASE Become(t, [tx[t] EXCEPT !.pc = "lock_all", !.i = 1])
      BY <1>1, <1>2, <1>5, <2>1 DEF Become, Buffers, TxState
    <2> QED BY <1>2, <1>3, <1>5, <2>1 DEF LockReplies
  <1>6. CASE LockAllSet(t)
    <2> PICK k : k = tx[t].rwset[tx[t].i].key OBVIOUS
    <2>1. k \in Key BY <1>6, ItemKeys DEF LockInv, LockAllSet
    <2>2. \A h \in Key : node'[h].read_ts = node[h].read_ts
      <3>1. node' = node \/ node' = [node EXCEPT ![k].lock = t] BY <1>6 DEF LockAllSet
      <3> QED BY <2>1, <3>1, LockOnly
    <2>3. CASE Become(t, [tx[t] EXCEPT !.i = @ + 1])
      BY <1>1, <2>2, <2>3 DEF Become, Buffers, TxState
    <2>4. CASE Become(t, [tx[t] EXCEPT !.pc = "lock_chk", !.current = tx[t].i])
      BY <1>1, <2>2, <2>4 DEF Become, Buffers, TxState
    <2> QED BY <1>3, <1>6, <2>3, <2>4 DEF LockAllSet
  <1>7. CASE LockCheck(t)
    <2> PICK m : m = MAX(node[tx[t].rwset[tx[t].i].key].read_ts, tx[t].timestamp) OBVIOUS
    <2>1. CASE Become(t, [tx[t] EXCEPT !.pc = "lock_all", !.i = @ + 1, !.timestamp = m])
      BY <1>1, <1>2, <1>7, <2>1 DEF Become, Buffers, TxState
    <2> QED BY <1>2, <1>3, <1>7, <2>1 DEF LockCheck
  <1>8. CASE CommitTs(t)
    <2>1. PICK m : Become(t, [tx[t] EXCEPT !.pc = "commit", !.i = 1, !.timestamp = m])
      BY <1>8 DEF CommitTs
    <2> QED BY <1>1, <1>2, <1>8, <2>1 DEF Become, Buffers, TxState
  <1>9. CASE CommitLocalWrite(t)
    <2> PICK it, n : it = tx[t].rwset[tx[t].i] /\ n = tx[t].i + 1 OBVIOUS
    <2>1. it \in Item
      <3>1. tx[t].rwset \in Seq(Item) /\ tx[t].i \in DOMAIN tx[t].rwset
        BY <1>9, Fields DEF CommitLocalWrite
      <3> QED BY <3>1
    <2>2. CASE Become(t, [tx[t] EXCEPT !.i = n]) /\ UNCHANGED node
      BY <1>1, <2>2 DEF Become, Buffers, TxState
    <2>3. [tx[t] EXCEPT !.i = n] = [tx[t] EXCEPT !.i = n, !.todo = tx[t].todo] BY <1>1 DEF TxState
    <2> PICK x : x = [tx[t] EXCEPT !.i = n] OBVIOUS
    <2>4. ASSUME Hide(t, it) \/ Swap(t, it, it.seq) \/ Publish(t, it) \/ Unlock(t, it, x)
          PROVE  Buffers(t)
      BY <2>1, <2>3, <2>4, InstallBuffers
    <2> QED BY <1>9, <2>2, <2>4 DEF CommitLocalWrite
  <1>10. CASE CommitRemote(t) BY <1>1, <1>2, <1>10 DEF CommitRemote, Become, Buffers, TxState
  <1>11. CASE CommitReplies(t) BY <1>1, <1>2, <1>11 DEF CommitReplies, Become, Buffers, TxState
  <1>12. CASE ReleaseReplies(t) BY <1>1, <1>2, <1>12 DEF ReleaseReplies, Become, Buffers, TxState
  <1>13. CASE ReleaseAllSet(t)
    <2> PICK it : it = tx[t].rwset[tx[t].i] OBVIOUS
    <2>1. CASE Become(t, [tx[t] EXCEPT !.pc = "aborted"]) /\ UNCHANGED node
      BY <1>1, <2>1 DEF Become, Buffers, TxState
    <2>2. CASE /\ tx[t].i <= tx[t].current /\ Become(t, [tx[t] EXCEPT !.i = @ + 1])
               /\ node' = IF it.w THEN [node EXCEPT ![it.key].lock = NoTx] ELSE node
      <3>1. tx[t].i \in DOMAIN tx[t].rwset
        <4>1. /\ tx[t].rwset \in Seq(Item) /\ tx[t].i \in Nat /\ tx[t].i > 0 /\ tx[t].current \in Nat
              /\ tx[t].current <= Len(tx[t].rwset)
          BY <1>1, Fields DEF LockInv, Control, TxState
        <4> QED BY <2>2, <4>1
      <3>2. it.key \in Key BY <3>1, ItemKeys DEF LockInv
      <3>3. \A h \in Key : node'[h].read_ts = node[h].read_ts BY <2>2, <3>2, LockOnly
      <3>4. tx'[t].sbuf = tx[t].sbuf BY <1>1, <2>2 DEF Become, TxState
      <3> QED BY <3>3, <3>4 DEF Buffers
    <2> QED BY <1>13, <2>1, <2>2 DEF ReleaseAllSet
  <1>14. ASSUME NEW i \in tx[t].todo, LockRpcHandler(t, i) \/ ReleaseRpcHandler(t, i)
         PROVE  Buffers(t)
    <2> PICK k : k = tx[t].rset[i].key OBVIOUS
    <2>1. k \in Key BY <1>14, NextAtItem
    <2>2. \A h \in Key : node'[h].read_ts = node[h].read_ts
      <3>1. \/ node' = node \/ node' = [node EXCEPT ![k].lock = t]
            \/ node' = [node EXCEPT ![k].lock = NoTx]
        BY <1>14 DEF LockRpcHandler, ReleaseRpcHandler
      <3> QED BY <2>1, <3>1, LockOnly
    <2>3. ASSUME NEW r, NEW o, Become(t, [tx[t] EXCEPT !.todo = r, !.ok = o]) PROVE Buffers(t)
      BY <1>1, <2>2, <2>3 DEF Become, Buffers, TxState
    <2>4. ASSUME NEW r, Become(t, [tx[t] EXCEPT !.todo = r]) PROVE Buffers(t)
      BY <1>1, <2>2, <2>4 DEF Become, Buffers, TxState
    <2>5. CASE LockRpcHandler(t, i) BY <2>3, <2>4, <2>5 DEF LockRpcHandler
    <2>6. CASE ReleaseRpcHandler(t, i) BY <2>4, <2>6 DEF ReleaseRpcHandler
    <2> QED BY <1>14, <2>5, <2>6
  <1>15. ASSUME NEW i \in tx[t].todo, CommitRpcHandler(t, i) PROVE Buffers(t)
    <2> PICK it, r : it = tx[t].rset[i] /\ r = tx[t].todo \ {i} OBVIOUS
    <2>1. it \in Item BY <1>15, NextAtItem
    <2>2. [tx[t] EXCEPT !.todo = r] = [tx[t] EXCEPT !.i = tx[t].i, !.todo = r] BY <1>1 DEF TxState
    <2> QED BY <1>15, <2>1, <2>2, InstallBuffers DEF CommitRpcHandler
  <1> QED BY <1>4, <1>5, <1>6, <1>7, <1>8, <1>9, <1>10, <1>11, <1>12, <1>13, <1>14, <1>15
          DEF Finish, Serve

\* The points of get_ro() behind the test of the lock.
Tested == {"ro_get", "ro_val", "ro_chk", "ro_old", "ro_ochk"}

\* The turns that get_ro() takes on one worker thread.
RoTurn(t) ==
  \/ tx[t].pc = "exec" /\ tx'[t].pc = "ro_ts"
  \/ /\ tx[t].pc = "ro_ts"
     /\ tx'[t].pc = IF node[CurKey(t)].read_ts > tx[t].timestamp THEN "ro_get" ELSE "ro_lock"
  \/ tx[t].pc = "ro_lock" /\ tx'[t].pc = "ro_set"
  \/ tx[t].pc = "ro_set" /\ tx'[t].pc = "ro_seq" /\ tx'[t].sbuf = {CurKey(t)}
  \/ /\ tx[t].pc = "ro_seq" /\ tx[t].sbuf = {} /\ tx'[t].pc = "ro_lk"
     /\ tx'[t].seq = node[CurKey(t)].seq
  \/ /\ tx[t].pc = "ro_lk" /\ tx'[t].seq = tx[t].seq
     /\ tx'[t].pc = IF node[CurKey(t)].lock # NoTx /\ tx[t].seq < tx[t].timestamp
                    THEN "ro_wait" ELSE "ro_get"
  \/ /\ tx[t].pc = "ro_wait" /\ tx'[t].pc = "ro_get"
     /\ node[CurKey(t)].seq # tx[t].seq \/ node[CurKey(t)].lock = NoTx
  \/ tx[t].pc \in Tested /\ tx'[t].pc \in Tested \cup {"exec", "ro_done"}
\* get_ro() takes them, and leaves read_ts to Drain.
LEMMA GetRoTurns ==
  ASSUME LockInv, ~RC, ~TSO, NEW t \in Tx, GetRo(t) PROVE RoTurn(t) /\ Buffers(t)
  <1>1. tx \in [Tx -> TxState] /\ node \in [Key -> MemNode] BY DEF LockInv, TypeOK
  <1> PICK k : k = CurKey(t) OBVIOUS
  <1>2. CASE RoStart(t)
    BY <1>1, <1>2 DEF RoStart, AtRo, RoTurn, Buffers, Become, TxState
  <1>3. CASE RoReadTs(t)
    BY <1>1, <1>3 DEF RoReadTs, AtRo, RoTurn, Buffers, Become, TxState
  <1>4. CASE RoLockTs(t)
    <2>1. k \in Key BY <1>4, Reading DEF RoLockTs, AtRo, RoPhase
    <2>2. \A h \in Key : node'[h].read_ts = node[h].read_ts
      BY <1>1, <1>4, <2>1 DEF RoLockTs, MemNode
    <2>3. tx[t].pc = "ro_lock" /\ tx'[t].pc = "ro_set" /\ tx'[t].sbuf = tx[t].sbuf
      BY <1>1, <1>4 DEF RoLockTs, AtRo, Become, TxState
    <2> QED BY <2>2, <2>3 DEF RoTurn, Buffers
  <1>5. CASE RoSetTs(t)
    BY <1>1, <1>5 DEF RoSetTs, AtRo, RoTurn, Buffers, Become, TxState
  <1>6. CASE RoReadSeq(t)
    BY <1>1, <1>6 DEF RoReadSeq, AtRo, RoTurn, Buffers, Become, TxState
  <1>7. CASE RoTestLock(t)
    BY <1>1, <1>7 DEF RoTestLock, AtRo, RoTurn, Buffers, Become, TxState
  <1>8. CASE RoWait(t)
    BY <1>1, <1>8 DEF RoWait, AtRo, RoTurn, Buffers, Become, TxState
  <1>9. ASSUME UNCHANGED node, tx[t].pc \in Tested, tx'[t].pc \in Tested \cup {"exec", "ro_done"},
               tx'[t].sbuf = tx[t].sbuf
        PROVE  RoTurn(t) /\ Buffers(t)
    BY <1>9 DEF RoTurn, Buffers
  <1>10. ASSUME NEW v, NEW b, RoReturn(t, v, b), UNCHANGED node, tx[t].pc \in Tested
         PROVE  RoTurn(t) /\ Buffers(t)
    <2>1. tx'[t].sbuf = tx[t].sbuf /\ tx'[t].pc \in {"exec", "ro_done"}
      BY <1>1, <1>10 DEF RoReturn, Become, TxState
    <2> QED BY <1>9, <1>10, <2>1
  <1>11. CASE RoGet(t)
    <2>1. /\ UNCHANGED node /\ tx[t].pc = "ro_get" /\ tx'[t].pc \in {"ro_val", "ro_old"}
          /\ tx'[t].sbuf = tx[t].sbuf
      BY <1>1, <1>11 DEF RoGet, AtRo, Become, TxState
    <2> QED BY <1>9, <2>1 DEF Tested
  <1>12. CASE RoOld(t)
    <2>1. /\ UNCHANGED node /\ tx[t].pc = "ro_old" /\ tx'[t].pc = "ro_ochk"
          /\ tx'[t].sbuf = tx[t].sbuf
      BY <1>1, <1>12 DEF RoOld, AtRo, Become, TxState
    <2> QED BY <1>9, <2>1 DEF Tested
  <1>13. CASE RoValue(t)
    <2>1. UNCHANGED node /\ tx[t].pc = "ro_val" BY <1>13 DEF RoValue, AtRo
    <2>2. CASE Become(t, [tx[t] EXCEPT !.pc = "ro_chk", !.val = node[CurKey(t)].value])
      <3>1. tx'[t].pc = "ro_chk" /\ tx'[t].sbuf = tx[t].sbuf BY <1>1, <2>2 DEF Become, TxState
      <3> QED BY <1>9, <2>1, <3>1 DEF Tested
    <2> QED BY <1>10, <1>13, <2>1, <2>2 DEF RoValue, Tested
  <1>14. ASSUME UNCHANGED node, tx[t].pc \in Tested, Become(t, [tx[t] EXCEPT !.pc = "ro_get"])
         PROVE  RoTurn(t) /\ Buffers(t)
    <2>1. tx'[t].pc = "ro_get" /\ tx'[t].sbuf = tx[t].sbuf BY <1>1, <1>14 DEF Become, TxState
    <2> QED BY <1>9, <1>14, <2>1 DEF Tested
  <1>15. CASE RoCheck(t) BY <1>10, <1>14, <1>15 DEF RoCheck, AtRo, Tested
  <1>16. CASE RoOldCheck(t)
    <2>1. UNCHANGED node /\ tx[t].pc \in Tested BY <1>16 DEF RoOldCheck, AtRo, Tested
    <2>2. \/ Become(t, [tx[t] EXCEPT !.pc = "ro_get"])
          \/ \E v, b : RoReturn(t, v, b)
      BY <1>16 DEF RoOldCheck
    <2> QED BY <1>10, <1>14, <2>1, <2>2
  <1> QED BY <1>2, <1>3, <1>4, <1>5, <1>6, <1>7, <1>8, <1>11, <1>12, <1>13, <1>15, <1>16 DEF GetRo

\* In get_ro(), t takes only the steps of get_ro().
LEMMA GetRoOnly ==
  ASSUME LockInv, NEW t \in Tx, Step(t), tx[t].pc \in RoPhase PROVE GetRo(t)
  <1>1. CASE Begin(t) BY <1>1 DEF Begin, Idle, RoPhase
  <1>2. CASE Execute(t)
    BY <1>2 DEF Execute, ReadSeq, ReadValue, ReadCheck, BlindWrite, DeleteItem, RoPhase
  <1>3. CASE Finish(t) \/ Serve(t)
    BY <1>3, EndMoving DEF EndMoves, EndPhase, LockPhase, CommitPhase, ReleasePhase, RoPhase
  <1> QED BY <1>1, <1>2, <1>3 DEF Step

\* The records that t has locked and checked, and has not written yet.
Pending(t, k) == \E i \in LocalFresh(t) : tx[t].rwset[i].key = k

\* A timestamp only grows while there are such records, grows again when it
\* becomes the commit timestamp, and has met the read_ts of a record that is new
\* among them.
Rises(t) ==
  \A i \in LocalFresh(t)' :
    /\ tx'[t].rwset = tx[t].rwset /\ tx'[t].timestamp >= tx[t].timestamp
    /\ tx'[t].pc = "commit" => tx[t].pc = "commit" \/ tx'[t].timestamp > tx[t].timestamp
    /\ \/ i \in LocalFresh(t)
       \/ /\ tx'[t].pc = "lock_all" /\ i \in DOMAIN tx[t].rwset
          /\ tx'[t].timestamp >= node[tx[t].rwset[i].key].read_ts
\* Elsewhere there are none.
LEMMA NothingFresh ==
  ASSUME NEW t \in Tx, tx'[t].pc \notin {"lock_all", "lock_chk", "commit"} PROVE Rises(t)
  BY DEF Rises, LocalFresh
\* The same records, or fewer.
LEMMA FewerFresh ==
  ASSUME LockInv, NEW t \in Tx, \A i \in LocalFresh(t)' : i \in LocalFresh(t),
         tx'[t].rwset = tx[t].rwset, tx'[t].timestamp = tx[t].timestamp,
         tx'[t].pc = "commit" => tx[t].pc = "commit"
  PROVE  Rises(t)
  <1>1. tx[t].timestamp \in Nat BY Fields
  <1>2. tx'[t].timestamp >= tx[t].timestamp BY <1>1
  <1> QED BY <1>2 DEF Rises

\* LockAllSet takes a lock, and has not checked the record yet.
LEMMA LockAllSetRises ==
  ASSUME LockInv, NEW t \in Tx, LockAllSet(t) PROVE Rises(t)
  <1>1. tx[t].pc = "lock_all" /\ tx[t].i \in DOMAIN tx[t].rwset BY LockAllSetEffect
  <1>2. /\ tx[t].current \in Nat /\ tx[t].i \in Nat /\ \A j \in LocalWrites(t) : j \in Nat
        /\ \A j \in LocalWrites(t) : j < tx[t].i => j <= tx[t].current
    BY <1>1, Fields DEF LockInv, Control, TxState, LocalWrites
  <1> PICK n, c : n = tx[t].i + 1 /\ c = tx[t].i OBVIOUS
  <1>3. CASE EndTo(t, "lock_all", tx[t].current, n, tx[t].todo, tx[t].ok, tx[t].timestamp)
    <2>1. /\ SameItems(t) /\ tx'[t].pc = "lock_all" /\ tx'[t].current = tx[t].current
          /\ tx'[t].timestamp = tx[t].timestamp /\ LocalWrites(t)' = LocalWrites(t)
      BY <1>3 DEF EndTo, SameItems, LocalWrites
    <2>2. \A i \in LocalFresh(t)' : i \in LocalFresh(t)
      BY <1>1, <2>1 DEF LocalFresh, LocalHeld
    <2> QED BY <2>1, <2>2, FewerFresh DEF SameItems
  <1>4. CASE EndTo(t, "lock_chk", c, c, tx[t].todo, tx[t].ok, tx[t].timestamp)
    <2>1. /\ SameItems(t) /\ tx'[t].pc = "lock_chk" /\ tx'[t].current = c /\ tx'[t].i = c
          /\ tx'[t].timestamp = tx[t].timestamp /\ LocalWrites(t)' = LocalWrites(t)
      BY <1>4 DEF EndTo, SameItems, LocalWrites
    <2>2. \A j \in LocalWrites(t) : j <= c /\ j # c => j <= tx[t].current BY <1>2
    <2>3. \A i \in LocalFresh(t)' : i \in LocalFresh(t)
      BY <1>1, <2>1, <2>2 DEF LocalFresh, LocalHeld
    <2> QED BY <2>1, <2>3, FewerFresh DEF SameItems
  <1> DEFINE todo == RemoteWrites(t)
  <1> HIDE DEF todo
  <1>5. CASE EndTo(t, "release_remote", tx[t].current, tx[t].i, todo, tx[t].ok, tx[t].timestamp)
    BY <1>5, NothingFresh DEF EndTo
  <1> QED BY <1>3, <1>4, <1>5, LockAllSetEffect DEF todo

\* LockCheck, which meets read_ts.
LEMMA LockCheckRises ==
  ASSUME LockInv, NEW t \in Tx, LockCheck(t) PROVE Rises(t)
  <1>1. tx[t].pc = "lock_chk" BY LockCheckEffect
  <1>2. tx[t].i \in LocalWrites(t) /\ tx[t].timestamp \in Nat BY <1>1, Fields DEF LockInv, Control
  <1> PICK k, n : k = tx[t].rwset[tx[t].i].key /\ n = tx[t].i + 1 OBVIOUS
  <1> PICK m : m = MAX(node[k].read_ts, tx[t].timestamp) OBVIOUS
  <1>3. m \in Nat /\ m >= tx[t].timestamp /\ m >= node[k].read_ts
    <2>1. k \in Key BY <1>2, ItemKeys DEF LockInv, LocalWrites
    <2>2. node[k].read_ts \in Nat BY <2>1 DEF LockInv, TypeOK, MemNode
    <2> QED BY <1>2, <2>2 DEF MAX
  <1>4. CASE EndTo(t, "lock_all", tx[t].current, n, tx[t].todo, tx[t].ok, m)
    <2>1. /\ SameItems(t) /\ tx'[t].pc = "lock_all" /\ tx'[t].current = tx[t].current
          /\ tx'[t].timestamp = m /\ LocalWrites(t)' = LocalWrites(t)
      BY <1>4 DEF EndTo, SameItems, LocalWrites
    <2>2. \A i \in LocalFresh(t)' : i \in LocalFresh(t) \/ (i = tx[t].i /\ i \in DOMAIN tx[t].rwset)
      BY <1>1, <1>2, <2>1 DEF LocalFresh, LocalHeld, LocalWrites
    <2> QED BY <1>3, <2>1, <2>2 DEF Rises, SameItems
  <1> DEFINE todo == RemoteWrites(t)
  <1> HIDE DEF todo
  <1>5. CASE EndTo(t, "release_remote", tx[t].current, tx[t].i, todo, tx[t].ok, tx[t].timestamp)
    BY <1>5, NothingFresh DEF EndTo
  <1> QED BY <1>4, <1>5, LockCheckEffect DEF todo

\* The commit timestamp is larger than all met.
LEMMA CommitTsRises ==
  ASSUME LockInv, NEW t \in Tx, CommitTs(t) PROVE Rises(t)
  <1>1. PICK m \in Nat : /\ m > tx[t].timestamp
                         /\ EndTo(t, "commit", tx[t].current, 1, tx[t].todo, tx[t].ok, m)
    BY CommitTsEffect
  <1>2. /\ tx'[t].pc = "commit" /\ tx'[t].timestamp = m /\ SameItems(t)
        /\ tx[t].pc = "lock_all" /\ tx[t].i \notin DOMAIN tx[t].rwset
        /\ LocalWrites(t)' = LocalWrites(t)
    BY <1>1, CommitTsEffect DEF EndTo, SameItems, LocalWrites
  <1>3. \A j \in LocalWrites(t) : j <= tx[t].current
    <2>1. /\ tx[t].rwset \in Seq(Item) /\ tx[t].i \in Nat /\ tx[t].i > 0
          /\ \A j \in LocalWrites(t) : j < tx[t].i => j <= tx[t].current
      BY <1>2, Fields DEF LockInv, Control
    <2>2. \A j \in DOMAIN tx[t].rwset : j < tx[t].i BY <1>2, <2>1
    <2> QED BY <2>1, <2>2 DEF LocalWrites
  <1>4. \A j \in LocalFresh(t)' : j \in LocalFresh(t) BY <1>2, <1>3 DEF LocalFresh, LocalHeld
  <1>5. tx[t].timestamp \in Nat /\ m >= tx[t].timestamp BY <1>1, Fields
  <1> QED BY <1>1, <1>2, <1>4, <1>5 DEF Rises, SameItems

\* CommitLocalWrite only gets done with records.
LEMMA CommitLocalWriteRises ==
  ASSUME BooksInv, NEW t \in Tx, CommitLocalWrite(t) PROVE Rises(t)
  <1>1. LockInv BY DEF BooksInv
  <1>2. tx[t].pc = "commit" /\ tx[t].i \in DOMAIN tx[t].rwset BY <1>1, CommitLocalWriteEffect
  <1>3. PICK it \in Item :
              /\ it = tx[t].rwset[tx[t].i]
              /\ \/ /\ ~it.w /\ UNCHANGED node
                    /\ EndTo(t, "commit", tx[t].current, tx[t].i + 1, tx[t].todo, tx[t].ok,
                             tx[t].timestamp)
                 \/ /\ it.w /\ tx[t].i \in LocalWrites(t)
                    /\ \/ Hides(t, it) \/ Swaps(t, it, it.seq) \/ Publishes(t, it)
                       \/ Unlocks(t, it, tx[t].i + 1, tx[t].todo)
    BY <1>1, CommitLocalWriteEffect
  <1>4. CASE /\ ~it.w
             /\ EndTo(t, "commit", tx[t].current, tx[t].i + 1, tx[t].todo, tx[t].ok,
                      tx[t].timestamp)
    <2>1. /\ SameItems(t) /\ tx'[t].pc = "commit" /\ tx'[t].i = tx[t].i + 1
          /\ tx'[t].timestamp = tx[t].timestamp /\ LocalWrites(t)' = LocalWrites(t)
      BY <1>4 DEF EndTo, SameItems, LocalWrites
    <2>2. \A j \in LocalWrites(t) : tx[t].i + 1 <= j => tx[t].i <= j /\ j # tx[t].i
      BY <1>1, Fields DEF LocalWrites
    <2>3. \A j \in LocalFresh(t)' : j \in LocalFresh(t)
      BY <1>2, <2>1, <2>2 DEF LocalFresh, LocalHeld
    <2> QED BY <1>1, <1>2, <2>1, <2>3, FewerFresh DEF SameItems
  <1>5. CASE Installs(t)
    <2>1. PICK x : Target(t, x) /\ InstallAt(t, x) /\ StillFresh(t, x) BY <1>5, InstallItem
    <2>2. /\ SameItems(t) /\ tx'[t].timestamp = tx[t].timestamp /\ tx'[t].pc = tx[t].pc
      BY <2>1, InstallFields DEF Target
    <2> QED BY <1>1, <2>1, <2>2, FewerFresh DEF StillFresh, SameItems
  <1> QED BY <1>2, <1>3, <1>4, <1>5 DEF Installs

\* LockAllSet starts with nothing.
LEMMA LockRepliesRises ==
  ASSUME LockInv, NEW t \in Tx, LockReplies(t) PROVE Rises(t)
  <1>1. tx[t].pc = "lock_remote" BY LockRepliesEffect
  <1>2. CASE EndTo(t, "lock_all", tx[t].current, 1, tx[t].todo, tx[t].ok, tx[t].timestamp)
    <2>1. /\ tx'[t].pc = "lock_all" /\ tx'[t].current = tx[t].current
          /\ LocalWrites(t)' = LocalWrites(t)
      BY <1>2 DEF EndTo, SameItems, LocalWrites
    <2>2. tx[t].current = 0 BY <1>1 DEF LockInv, Control
    <2>3. \A j \in LocalWrites(t) : ~(j <= 0)
      <3>1. tx[t].rwset \in Seq(Item) BY Fields
      <3> QED BY <3>1 DEF LocalWrites
    <2>4. LocalFresh(t)' = {} BY <2>1, <2>2, <2>3 DEF LocalFresh, LocalHeld
    <2> QED BY <2>4 DEF Rises
  <1> DEFINE todo == RemoteWrites(t)
  <1> HIDE DEF todo
  <1>3. CASE EndTo(t, "release_remote", tx[t].current, tx[t].i, todo, tx[t].ok, tx[t].timestamp)
    BY <1>3, NothingFresh DEF EndTo
  <1> QED BY <1>2, <1>3, LockRepliesEffect DEF todo

\* All steps are like that.
LEMMA StepRises ==
  ASSUME BooksInv, NEW t \in Tx, Step(t) \/ Drain(t) PROVE Rises(t)
  <1>1. LockInv BY DEF BooksInv
  <1>2. CASE Drain(t)
    <2>1. Drains(t) BY <1>1, <1>2, DrainEffect
    <2>2. LocalFresh(t)' = LocalFresh(t) /\ tx'[t].rwset = tx[t].rwset
          /\ tx'[t].timestamp = tx[t].timestamp /\ tx'[t].pc = tx[t].pc
      BY <2>1, Views DEF Drains, SameItems, SameEnd
    <2> QED BY <1>1, <2>2, FewerFresh
  <1>3. CASE Begin(t) BY <1>1, <1>3, BeginEffect, NothingFresh DEF Begins
  <1>4. CASE Execute(t)
    <2>1. CASE ReadSeq(t) BY <1>1, <2>1, ReadSeqEffect, NothingFresh DEF Reads
    <2>2. CASE ReadValue(t) BY <1>1, <2>2, ReadValueEffect, NothingFresh DEF Reads
    <2>3. CASE ReadCheck(t) BY <1>1, <2>3, ReadCheckEffect, NothingFresh DEF Reads, Adds
    <2>4. CASE BlindWrite(t) BY <1>1, <2>4, BlindWriteEffect, NothingFresh DEF Adds
    <2>5. CASE DeleteItem(t) BY <1>1, <2>5, DeleteItemEffect, NothingFresh DEF Marks
    <2> QED BY <1>4, <2>1, <2>2, <2>3, <2>4, <2>5 DEF Execute
  <1>5. CASE GetRo(t)
    <2>1. RoMoves(t) => tx'[t].pc \in RoPhase BY DEF RoMoves
    <2>2. \A v, b : RoReturns(t, v, b) => tx'[t].pc \in {"ro_done", "exec"}
      BY DEF RoReturns, Reads
    <2>3. tx'[t].pc \in RoPhase \cup {"ro_done", "exec"} BY <1>1, <1>5, <2>1, <2>2, GetRoEffect
    <2> QED BY <2>3, NothingFresh DEF RoPhase
  <1>6. CASE Finish(t)
    <2>1. CASE End(t) BY <1>1, <2>1, EndEffect, NothingFresh DEF EndTo
    <2>2. CASE CommitRemote(t) BY <1>1, <2>2, CommitRemoteEffect, NothingFresh DEF EndTo
    <2>3. CASE CommitReplies(t) BY <1>1, <2>3, CommitRepliesEffect, NothingFresh DEF EndTo
    <2>4. CASE ReleaseReplies(t) BY <1>1, <2>4, ReleaseRepliesEffect, NothingFresh DEF EndTo
    <2>5. CASE ReleaseAllSet(t)
      <3>1. tx'[t].pc \in {"aborted", "release_all"} BY <1>1, <2>5, ReleaseAllSetEffect DEF EndTo
      <3> QED BY <3>1, NothingFresh
    <2> QED BY <1>1, <1>6, <2>1, <2>2, <2>3, <2>4, <2>5, LockRepliesRises, LockAllSetRises,
               LockCheckRises, CommitTsRises, CommitLocalWriteRises DEF Finish
  <1>7. CASE Serve(t)
    <2>1. ASSUME NEW i \in tx[t].todo, LockRpcHandler(t, i) PROVE Rises(t)
      <3>1. tx'[t].pc = "lock_remote" BY <1>1, <2>1, LockRpcHandlerEffect DEF EndTo
      <3> QED BY <3>1, NothingFresh
    <2>2. ASSUME NEW i \in tx[t].todo, CommitRpcHandler(t, i) PROVE Rises(t)
      <3>1. PICK it : \/ Hides(t, it) \/ Swaps(t, it, node[it.key].seq) \/ Publishes(t, it)
                      \/ Unlocks(t, it, tx[t].i, tx[t].todo \ {i})
        BY <1>1, <2>2, CommitRpcHandlerEffect
      <3>2. tx[t].pc = "commit_remote" BY <1>1, <2>2, CommitRpcHandlerEffect
      <3>3. tx'[t].pc = "commit_remote" BY <3>1, <3>2 DEF Hides, Swaps, Publishes, Unlocks, StageTo
      <3> QED BY <3>3, NothingFresh
    <2>3. ASSUME NEW i \in tx[t].todo, ReleaseRpcHandler(t, i) PROVE Rises(t)
      <3>1. tx'[t].pc = "release_remote" BY <1>1, <2>3, ReleaseRpcHandlerEffect DEF EndTo
      <3> QED BY <3>1, NothingFresh
    <2> QED BY <1>7, <2>1, <2>2, <2>3 DEF Serve
  <1> QED BY <1>2, <1>3, <1>4, <1>5, <1>6, <1>7 DEF Step

-----------------------------------------------------------------------------
(* The inductive invariant, and what readers do to read_ts.                 *)

\* The records that one transaction at most reads at its snapshot: get_ro()
\* stores its own timestamp into read_ts, the larger one of another reader too.
Single == {k \in Key : \A t, u \in Tx : Does(t, k, "ro") /\ Does(u, k, "ro") => t = u}

\* The records of which a snapshot is stable.
Fixed == Strict \cap Intact \cap Single

\* t is a read-only transaction that has begun.
InRo(t) ==
  \/ tx[t].pc \in RoPhase \cup {"ro_done"}
  \/ tx[t].pc = "exec" /\ tx[t].prog # <<>> /\ Head(tx[t].prog).kind = "ro"

\* Whoever has passed the lock and the check of k, and has yet to write it, will
\* do so above ts.
Above(w, ts) == tx[w].timestamp >= ts /\ (tx[w].pc = "commit" => tx[w].timestamp > ts)
Safe(k, ts)  == \A w \in Tx : Pending(w, k) => Above(w, ts)

\* Nobody publishes k at or below ts any more; the same, unless a writer is in
\* the middle of its install.
Barred(k, ts) == node[k].read_ts = ts /\ (TopVer(k) >= ts \/ Safe(k, ts))
Closed(k, ts) == node[k].read_ts = ts /\ (node[k].seq = 1 \/ TopVer(k) >= ts \/ Safe(k, ts))

\* read_ts is the timestamp of a reader of k.
Stamps(k) ==
  \/ node[k].read_ts = 0
  \/ \E t \in Tx : Does(t, k, "ro") /\ InRo(t) /\ node[k].read_ts = tx[t].timestamp

\* How far get_ro() has come: read_ts is raised before seq is read, and behind
\* the test of the lock the record is closed.  A change of seq ends the wait for
\* a writer that may be below the snapshot.
RaisedAt(t, k, ts) ==
  /\ tx[t].pc = "ro_seq" /\ tx[t].sbuf = {} => node[k].read_ts = ts
  /\ tx[t].pc \in {"ro_lk", "ro_wait"} =>
       /\ node[k].read_ts = ts /\ (tx[t].seq = 1 \/ tx[t].seq <= TopVer(k))
       /\ node[k].seq # tx[t].seq => Closed(k, ts)
  /\ tx[t].pc \in Tested => Closed(k, ts)
Raising(t) ==
  /\ tx[t].sbuf # {} => tx[t].pc = "ro_seq" /\ tx[t].sbuf = {CurKey(t)}
  /\ tx[t].pc \in RoPhase /\ CurKey(t) \in Fixed => RaisedAt(t, CurKey(t), tx[t].timestamp)

\* No version of r's record is between r and ts, and none will be.
FirmRead(t, r, ts) ==
  /\ Does(t, r.key, "ro") /\ Barred(r.key, ts)
  /\ \A j \in DOMAIN log[r.key] : ~(r.ver < log[r.key][j].ver /\ log[r.key][j].ver <= ts)
Firm(t) == \A r \in tx[t].snap : r.key \in Fixed => FirmRead(t, r, tx[t].timestamp)

\* The inductive invariant.
StableInv == ExactInv /\ (\A k \in Key : Stamps(k)) /\ \A t \in Tx : Raising(t) /\ Firm(t)

\* What the parts of it bring along.
LEMMA StableParts ==
  ASSUME StableInv
  PROVE  ExactInv /\ ReadsInv /\ OrderInv /\ HistInv /\ BooksInv /\ LockInv
  BY DEF StableInv, ExactInv, ReadsInv, OrderInv, HistInv, BooksInv
\* Such records are of all the kinds above.
LEMMA FixedRecords ==
  /\ Fixed \subseteq Key /\ Fixed \subseteq Strict /\ Fixed \subseteq Ordered
  /\ Fixed \subseteq Exact /\ Fixed \subseteq Intact /\ Fixed' = Fixed
  BY DEF Fixed, Strict, Ordered, Intact, Exact, Single, Does, IsLocal

\* Readers of a record, and that they stay readers.
LEMMA Readers ==
  ASSUME ExactInv, NEW t \in Tx
  PROVE  /\ tx[t].pc \in RoPhase =>
              /\ Does(t, CurKey(t), "ro") /\ CurKey(t) \in Key /\ tx[t].prog # <<>>
              /\ tx[t].timestamp \in Nat /\ tx[t].timestamp >= 2
         /\ tx[t].snap # {} => InRo(t)
  <1>1. LockInv /\ RoInv(t) /\ Planned(t) /\ Times(t)
    BY DEF ExactInv, ReadsInv, OrderInv, HistInv, BooksInv, Booked
  <1>2. tx[t].prog \in Seq(Op) /\ tx[t].timestamp \in Nat BY <1>1, Fields
  <1>3. ASSUME tx[t].pc \in RoPhase
        PROVE  /\ Does(t, CurKey(t), "ro") /\ CurKey(t) \in Key /\ tx[t].prog # <<>>
               /\ tx[t].timestamp >= 2
    <2>1. tx[t].prog # <<>> /\ CurKey(t) \in Key BY <1>1, <1>3, Reading
    <2>2. Does(t, Head(tx[t].prog).key, Head(tx[t].prog).kind)
      BY <1>1, <1>2, <2>1, TailDoes DEF Planned
    <2>3. Head(tx[t].prog).kind = "ro" BY <1>1, <1>2, <1>3, <2>1, TailPure DEF RoInv
    <2>4. tx[t].timestamp >= 2 BY <1>1, <1>3 DEF Times, RoPhase, Idle
    <2> QED BY <2>1, <2>2, <2>3, <2>4 DEF CurKey
  <1>4. tx[t].snap # {} => InRo(t)
    <2>1. tx[t].prog # <<>> /\ (\A i \in DOMAIN tx[t].prog : tx[t].prog[i].kind = "ro") =>
            Head(tx[t].prog).kind = "ro"
      BY <1>2, TailPure
    <2> QED BY <1>1, <2>1 DEF RoInv, InRo
  <1> QED BY <1>2, <1>3, <1>4
\* A reader stays one, at its timestamp.
LEMMA ReadersStay ==
  ASSUME ExactInv, NEW t \in Tx, Step(t) \/ Drain(t), InRo(t)
  PROVE  InRo(t)' /\ tx'[t].timestamp = tx[t].timestamp
  <1>1. LockInv /\ RoInv(t) BY DEF ExactInv, ReadsInv, OrderInv, HistInv, BooksInv
  <1>2. tx[t].prog \in Seq(Op) BY <1>1, Fields
  <1>3. CASE Drains(t) BY <1>3 DEF Drains, SameEnd, SameRead, InRo
  <1>4. CASE RoMoves(t) BY <1>4 DEF RoMoves, Reads, SameEnd, InRo
  <1>5. ASSUME NEW v, NEW b, RoReturns(t, v, b)
        PROVE  InRo(t)' /\ tx'[t].timestamp = tx[t].timestamp
    <2> PICK q : q = Tail(tx[t].prog) OBVIOUS
    <2>1. /\ tx'[t].timestamp = tx[t].timestamp /\ tx'[t].prog = q /\ tx[t].pc \in RoPhase
          /\ tx[t].prog # <<>> /\ tx'[t].pc = IF Len(tx[t].prog) = 1 THEN "ro_done" ELSE "exec"
      BY <1>5 DEF RoReturns, Reads, SameEnd
    <2>2. /\ \A i \in DOMAIN q : q[i].kind = "ro"
          /\ Len(tx[t].prog) # 1 => q # <<>>
      BY <1>1, <1>2, <2>1, TailPure DEF RoInv
    <2>3. q \in Seq(Op) BY <1>2, <2>1
    <2>4. q # <<>> => Head(q).kind = "ro" BY <2>2, <2>3, TailPure
    <2> QED BY <2>1, <2>2, <2>4 DEF InRo
  <1>6. ~Other(t) BY DEF Other, InRo
  <1> QED BY <1>1, <1>3, <1>4, <1>5, <1>6, RoKinds

\* The store that Drain makes visible.
LEMMA DrainStore ==
  ASSUME LockInv, NEW t \in Tx, Drain(t), Raising(t)
  PROVE  /\ tx[t].pc = "ro_seq" /\ tx'[t].sbuf = {}
         /\ CurKey(t) \in Key => node'[CurKey(t)].read_ts = tx[t].timestamp
         /\ \A k \in Key : k # CurKey(t) => node'[k].read_ts = node[k].read_ts
  <1>1. tx \in [Tx -> TxState] /\ node \in [Key -> MemNode] BY DEF LockInv, TypeOK
  <1>2. PICK h \in tx[t].sbuf :
          node' = [node EXCEPT ![h].read_ts = tx[t].timestamp, ![h].read_lock = NoTx]
    BY DEF Drain
  <1>3. tx[t].pc = "ro_seq" /\ h = CurKey(t) BY <1>2 DEF Raising
  <1>4. tx'[t].sbuf = {} BY <1>1 DEF Drain, Become, TxState
  <1> HIDE <1>3
  <1>5. h \in Key => node'[h].read_ts = tx[t].timestamp BY <1>1, <1>2 DEF MemNode
  <1>6. \A k \in Key : k # h => node'[k].read_ts = node[k].read_ts BY <1>1, <1>2
  <1> QED BY <1>3, <1>4, <1>5, <1>6

\* No step of another kind touches the buffers.
LEMMA StepBuffers ==
  ASSUME LockInv, ~RC, ~TSO, NEW t \in Tx, Step(t), Raising(t)
  PROVE  Buffers(t) /\ tx[t].sbuf = {}
  <1>1. Buffers(t) BY ExecuteBuffers, FinishBuffers, GetRoTurns DEF Step
  <1>2. ASSUME tx[t].sbuf # {} PROVE FALSE
    <2>1. tx[t].pc = "ro_seq" BY <1>2 DEF Raising
    <2>2. GetRo(t) BY <2>1, GetRoOnly DEF RoPhase
    <2> QED BY <1>2, <2>1, <2>2, GetRoTurns DEF RoTurn, Tested
  <1> QED BY <1>1, <1>2

\* Nobody else writes read_ts.
LEMMA StampsStay ==
  ASSUME StableInv, ~RC, ~TSO, NEW t \in Tx, Step(t) \/ Drain(t), NEW k \in Key
  PROVE  Stamps(k)'
  <1>1. LockInv /\ ExactInv /\ BooksInv /\ Raising(t) /\ Stamps(k) BY StableParts DEF StableInv
  <1>2. Alone(t) BY <1>1, StepKinds
  <1>3. ASSUME node'[k].read_ts = node[k].read_ts PROVE Stamps(k)'
    <2>1. CASE node[k].read_ts = 0 BY <1>3, <2>1 DEF Stamps
    <2>2. ASSUME NEW u \in Tx, Does(u, k, "ro"), InRo(u), node[k].read_ts = tx[u].timestamp
          PROVE  Stamps(k)'
      <3>1. InRo(u)' /\ tx'[u].timestamp = tx[u].timestamp
        BY <1>1, <1>2, <2>2, ReadersStay DEF Alone, InRo
      <3>2. Does(u, k, "ro")' BY <2>2 DEF Does
      <3> QED BY <1>3, <2>2, <3>1, <3>2 DEF Stamps
    <2> QED BY <1>1, <2>1, <2>2 DEF Stamps
  <1>4. CASE Step(t) BY <1>1, <1>3, <1>4, StepBuffers DEF Buffers
  <1>5. CASE Drain(t)
    <2>1. tx[t].pc = "ro_seq" /\ tx[t].pc \in RoPhase BY <1>1, <1>5, DrainStore DEF RoPhase
    <2>2. InRo(t) BY <2>1 DEF InRo
    <2>3. InRo(t)' /\ tx'[t].timestamp = tx[t].timestamp BY <1>1, <1>5, <2>2, ReadersStay
    <2>4. Does(t, CurKey(t), "ro") BY <1>1, <2>1, Readers
    <2>5. CASE k = CurKey(t)
      <3>1. node'[k].read_ts = tx'[t].timestamp BY <1>1, <1>5, <2>3, <2>5, DrainStore
      <3>2. Does(t, k, "ro")' BY <2>4, <2>5 DEF Does
      <3> QED BY <2>3, <3>1, <3>2 DEF Stamps
    <2>6. CASE k # CurKey(t) BY <1>1, <1>3, <1>5, <2>6, DrainStore
    <2> QED BY <2>5, <2>6
  <1> QED BY <1>4, <1>5

\* read_ts stays the timestamp of the only reader.
LEMMA ReadTsStays ==
  ASSUME StableInv, ~RC, ~TSO, NEW t \in Tx, Step(t) \/ Drain(t), NEW k \in Fixed, NEW u \in Tx,
         Does(u, k, "ro"), node[k].read_ts = tx[u].timestamp
  PROVE  node'[k].read_ts = tx[u].timestamp
  <1>1. LockInv /\ ExactInv /\ Raising(t) /\ k \in Key BY StableParts, FixedRecords DEF StableInv
  <1>2. CASE Step(t) BY <1>1, <1>2, StepBuffers DEF Buffers
  <1>3. CASE Drain(t)
    <2>1. tx[t].pc = "ro_seq" /\ tx[t].pc \in RoPhase BY <1>1, <1>3, DrainStore DEF RoPhase
    <2>2. Does(t, CurKey(t), "ro") BY <1>1, <2>1, Readers
    <2>3. k = CurKey(t) => t = u BY <2>2 DEF Fixed, Single
    <2> QED BY <1>1, <1>3, <2>3, DrainStore
  <1> QED BY <1>2, <1>3

-----------------------------------------------------------------------------
(* Nobody publishes below a snapshot that has been read.                    *)

\* Whoever locks k from now on meets read_ts.
LEMMA SafeStays ==
  ASSUME LockInv, LockInv', NEW t \in Tx, Alone(t), Rises(t), NEW k \in Key, NEW ts \in Nat,
         node[k].read_ts = ts, Safe(k, ts)
  PROVE  Safe(k, ts)'
  <1>1. SUFFICES ASSUME NEW w \in Tx, Pending(w, k)' PROVE Above(w, ts)' BY DEF Safe
  <1>2. PICK i \in LocalFresh(w)' : tx'[w].rwset[i].key = k BY <1>1 DEF Pending
  <1>3. tx[w].timestamp \in Nat /\ tx'[w].timestamp \in Nat
    BY Fields DEF LockInv, TypeOK, TxState
  <1>4. CASE w # t
    <2>1. tx'[w] = tx[w] /\ LocalFresh(w)' = LocalFresh(w) BY <1>4, OtherViews DEF Alone
    <2>2. Pending(w, k) BY <1>2, <2>1 DEF Pending
    <2> QED BY <2>1, <2>2 DEF Safe, Above
  <1>5. CASE w = t
    <2>1. /\ tx'[t].rwset = tx[t].rwset /\ tx'[t].timestamp >= tx[t].timestamp
          /\ tx'[t].pc = "commit" => tx[t].pc = "commit" \/ tx'[t].timestamp > tx[t].timestamp
          /\ i \in LocalFresh(t) \/ (tx'[t].pc = "lock_all" /\ tx'[t].timestamp >= ts)
      BY <1>2, <1>5 DEF Rises
    <2>2. ASSUME i \in LocalFresh(t) PROVE Above(t, ts)'
      <3>1. Pending(t, k) BY <1>2, <1>5, <2>1, <2>2 DEF Pending
      <3>2. tx[t].timestamp >= ts /\ (tx[t].pc = "commit" => tx[t].timestamp > ts)
        BY <3>1 DEF Safe, Above
      <3> QED BY <1>3, <1>5, <2>1, <3>2 DEF Above
    <2> QED BY <1>5, <2>1, <2>2 DEF Above
  <1> QED BY <1>4, <1>5

\* Without the lock nobody is about to write.
LEMMA FreeIsSafe ==
  ASSUME LockInv, NEW k \in Key, node[k].lock = NoTx, NEW ts PROVE Safe(k, ts)
  <1>1. ASSUME NEW w \in Tx, Pending(w, k) PROVE FALSE
    <2>1. PICK i \in LocalFresh(w) : tx[w].rwset[i].key = k BY <1>1 DEF Pending
    <2>2. node[k].lock = w BY <2>1 DEF LockInv, Locks, LocalFresh
    <2> QED BY <2>2, ConstantAssumption
  <1> QED BY <1>1 DEF Safe

\* Behind the publication of k nobody is about to write it either.
LEMMA AfterPublish ==
  ASSUME BooksInv, LockInv', NEW t \in Tx, NEW it, AtTarget(t, it), Publishes(t, it), NEW ts
  PROVE  Safe(it.key, ts)'
  <1> PICK k : k = it.key OBVIOUS
  <1>1. node'[k].lock = t BY PublishLog DEF AtTarget
  <1>2. ASSUME NEW w \in Tx, Pending(w, k)' PROVE FALSE
    <2>1. PICK i \in LocalFresh(w)' : tx'[w].rwset[i].key = k BY <1>2 DEF Pending
    <2>2. i \in LocalHeld(w)' BY <2>1 DEF LocalFresh
    <2>3. node'[k].lock = w BY <2>1, <2>2 DEF LockInv, Locks
    <2>4. w = t BY <1>1, <2>3
    <2>5. tx'[t].rwset = tx[t].rwset BY InstallFields DEF AtTarget, SameItems
    <2> QED BY <2>1, <2>4, <2>5 DEF AtTarget, StillFresh
  <1>3. Safe(k, ts)' BY <1>2 DEF Safe
  <1>4. it.key \in Key BY DEF AtTarget, Target
  <1> QED BY <1>3 DEF Safe, Pending

\* The record of an install, where only transactions of its machine write it.
LEMMA TargetPending ==
  ASSUME HistInv, NEW t \in Tx, NEW it, Target(t, it), tx[t].stage[PartOf[it.key]] # 2,
         it.key \in Strict
  PROVE  tx[t].pc = "commit" /\ Pending(t, it.key)
  <1>1. LockInv /\ Planned(t) /\ Control(t) /\ Working(t, it.key)
    BY DEF HistInv, BooksInv, Booked, LockInv, Target
  <1>2. CASE tx[t].pc = "commit" /\ tx[t].i \in LocalWrites(t) /\ it.key = tx[t].rwset[tx[t].i].key
    <2>1. tx[t].i \in LocalHeld(t)
      <3>1. tx[t].i \in Nat BY <1>1, Fields
      <3> QED BY <1>2, <3>1 DEF LocalHeld
    <2>2. PartOf[it.key] = Home[t] BY <1>1, <1>2 DEF Control, LocalWrites, IsLocal
    <2>3. tx[t].i \in LocalFresh(t) BY <1>2, <2>1, <2>2 DEF LocalFresh
    <2> QED BY <1>2, <2>3 DEF Pending
  <1>3. ASSUME tx[t].pc = "commit_remote", NEW i \in tx[t].todo, it.key = tx[t].rset[i].key
        PROVE  FALSE
    <2>1. i \in RemoteWrites(t) BY <1>1, <1>3 DEF Control
    <2>2. i \in DOMAIN tx[t].rset /\ tx[t].rset[i].w BY <2>1 DEF RemoteWrites
    <2>3. ~IsLocal(t, it.key) /\ Does(t, it.key, tx[t].rset[i].kind)
      BY <1>1, <1>3, <2>2 DEF Control, Planned
    <2>4. /\ tx[t].rset[i].kind # "get" /\ tx[t].rset[i].kind # "del" /\ tx[t].rset[i].kind # "ro"
      BY <1>1, <2>2 DEF Planned
    <2>5. tx[t].rset[i].kind \in Kind
      <3>1. tx[t].rset[i] \in Item BY <1>1, <2>2, Fields
      <3> QED BY <3>1 DEF Item
    <2> QED BY <2>3, <2>4, <2>5 DEF Strict, Kind
  <1> QED BY <1>1, <1>2, <1>3 DEF Working

\* A step does one of two things to the versions.
LEMMA StepVersions ==
  ASSUME BooksInv, NEW t \in Tx, Step(t) \/ Drain(t) PROVE SameVersions \/ \E it : AtTarget(t, it)
  BY StepKinds, InstallItem DEF NoInstall, Drains, AtTarget

\* A guard that is up stays up, and goes up when seq changes.
LEMMA GuardStays ==
  ASSUME ExactInv, LockInv', NEW t \in Tx, Step(t) \/ Drain(t), NEW k \in Fixed, NEW ts \in Nat,
         node[k].read_ts = ts, node'[k].read_ts = ts
  PROVE  /\ Barred(k, ts) =>
              /\ Barred(k, ts)'
              /\ \A j \in DOMAIN log'[k] : j \in DOMAIN log[k] \/ log'[k][j].ver > ts
         /\ Closed(k, ts) => Closed(k, ts)'
         /\ node'[k].seq # node[k].seq => Closed(k, ts)'
  <1>1. /\ OrderInv /\ HistInv /\ BooksInv /\ LockInv /\ k \in Key /\ k \in Strict /\ k \in Ordered
    BY FixedRecords DEF ExactInv, ReadsInv, OrderInv, HistInv, BooksInv
  <1>2. TopVer(k) \in Nat /\ TopVer(k)' \in Nat /\ TopVer(k) <= TopVer(k)'
    <2>1. Grown(k) BY <1>1, NextGrown DEF Next
    <2> QED BY <1>1, <2>1, TopVersion DEF Grown
  <1>3. TopVer(k) >= ts => TopVer(k)' >= ts
    <2> PICK a, b : a = TopVer(k) /\ b = TopVer(k)' OBVIOUS
    <2> QED BY <1>2
  <1>4. Safe(k, ts) => Safe(k, ts)' BY <1>1, StepKinds, StepRises, SafeStays
  <1>5. Barred(k, ts) => Barred(k, ts)' BY <1>3, <1>4 DEF Barred
  <1>6. ASSUME node'[k].seq # node[k].seq PROVE Closed(k, ts)'
    <2>1. PICK it : AtTarget(t, it) BY <1>1, <1>6, StepVersions DEF SameVersions
    <2>2. Target(t, it) /\ InstallAt(t, it) BY <2>1 DEF AtTarget
    <2>3. k = it.key BY <1>1, <1>6, <2>2, InstallFields
    <2>4. CASE Hides(t, it) \/ SwapsAny(t, it)
      <3>1. node'[k].seq = 1 BY <2>3, <2>4 DEF Hides, SwapsAny, Swaps, NodeTo
      <3> QED BY <3>1 DEF Closed
    <2>5. CASE Publishes(t, it)
      <3>1. Safe(it.key, ts)' BY <1>1, <2>1, <2>5, AfterPublish
      <3>2. Safe(k, ts)' BY <2>3, <3>1 DEF Safe, Pending
      <3> QED BY <3>2 DEF Closed
    <2>6. CASE UnlocksAny(t, it) BY <1>6, <2>3, <2>6 DEF UnlocksAny, Unlocks, NodeTo
    <2> QED BY <2>2, <2>4, <2>5, <2>6 DEF InstallAt
  <1>7. Closed(k, ts) => Closed(k, ts)' BY <1>3, <1>4, <1>6 DEF Closed
  <1>8. ASSUME Barred(k, ts), NEW j \in DOMAIN log'[k], j \notin DOMAIN log[k]
        PROVE  log'[k][j].ver > ts
    <2>1. PICK it : AtTarget(t, it) BY <1>1, <1>8, StepVersions DEF SameVersions
    <2>2. Target(t, it) /\ InstallAt(t, it) BY <2>1 DEF AtTarget
    <2>3. k = it.key /\ Publishes(t, it) BY <1>1, <1>8, <2>2, InstallTop
    <2> PICK n : n = Len(log[k]) OBVIOUS
    <2>4. /\ tx[t].stage[PartOf[it.key]] = 1 /\ tx[t].timestamp \in Nat
          /\ Extended(k, [ver |-> tx[t].timestamp, by |-> node[k].value])
      BY <1>1, <2>2, <2>3, PublishLog
    <2>5. n \in Nat /\ DOMAIN log'[k] = 1..(n + 1) /\ DOMAIN log[k] = 1..n
          /\ log'[k][n + 1].ver = tx[t].timestamp
      BY <2>4 DEF Extended
    <2>6. j = n + 1 BY <1>8, <2>5
    <2>7. TopVer(k) < tx[t].timestamp BY <1>1, <2>2, <2>3, PublishAbove
    <2>8. tx[t].pc = "commit" /\ Pending(t, k) BY <1>1, <2>2, <2>3, <2>4, TargetPending
    <2>9. tx[t].timestamp > ts
      <3>1. CASE TopVer(k) >= ts
        <4> PICK a : a = TopVer(k) OBVIOUS
        <4> QED BY <1>2, <2>4, <2>7, <3>1
      <3>2. CASE Safe(k, ts) BY <2>8, <3>2 DEF Safe, Above
      <3> QED BY <1>8, <3>1, <3>2 DEF Barred
    <2> QED BY <2>5, <2>6, <2>9
  <1> QED BY <1>5, <1>6, <1>7, <1>8

-----------------------------------------------------------------------------
(* Reads at a snapshot, while others publish and by their own steps.        *)

\* What holds of a record and a timestamp holds of the names they have.
LEMMA RaisedThere ==
  ASSUME NEW u \in Tx, NEW k, NEW ts, CurKey(u)' = k, tx'[u].timestamp = ts, RaisedAt(u, k, ts)'
  PROVE  RaisedAt(u, CurKey(u), tx[u].timestamp)'
  BY DEF RaisedAt, Closed, Safe, Above, Pending, TopVer
\* The same for a result.
LEMMA FirmThere ==
  ASSUME NEW u \in Tx, NEW r, NEW ts, tx'[u].timestamp = ts, FirmRead(u, r, ts)'
  PROVE  FirmRead(u, r, tx[u].timestamp)'
  BY DEF FirmRead, Barred, Safe, Above

\* Versions only grow.
LEMMA TopStays ==
  ASSUME ExactInv, NEW t \in Tx, Step(t) \/ Drain(t), NEW k \in Fixed
  PROVE  TopVer(k) \in Nat /\ TopVer(k)' \in Nat /\ TopVer(k) <= TopVer(k)'
  <1>1. OrderInv /\ LockInv /\ k \in Key /\ k \in Ordered
    BY FixedRecords DEF ExactInv, ReadsInv, OrderInv, HistInv, BooksInv
  <1>2. Grown(k) BY <1>1, NextGrown DEF Next
  <1> QED BY <1>1, <1>2, TopVersion DEF Grown

\* Steps of others.
LEMMA RaisingStays ==
  ASSUME StableInv, LockInv', ~RC, ~TSO, NEW t \in Tx, Step(t) \/ Drain(t), NEW u \in Tx,
         tx'[u] = tx[u]
  PROVE  Raising(u)'
  <1>1. ExactInv /\ LockInv /\ Raising(u) BY StableParts DEF StableInv
  <1> PICK k, ts : k = CurKey(u) /\ ts = tx[u].timestamp OBVIOUS
  <1>2. CurKey(u)' = k /\ tx'[u].timestamp = ts BY DEF CurKey
  <1>3. tx'[u].sbuf # {} => tx'[u].pc = "ro_seq" /\ tx'[u].sbuf = {k} BY <1>1 DEF Raising
  <1>4. ASSUME tx[u].pc \in RoPhase, k \in Fixed PROVE RaisedAt(u, k, ts)'
    <2>1. /\ Does(u, k, "ro") /\ k \in Key /\ ts \in Nat BY <1>1, <1>4, Readers
    <2>2. RaisedAt(u, k, ts) BY <1>1, <1>4 DEF Raising
    <2>3. node[k].read_ts = ts => node'[k].read_ts = ts BY <1>4, <2>1, ReadTsStays
    <2>4. Closed(k, ts) => node[k].read_ts = ts BY DEF Closed
    <2>5. Closed(k, ts) => Closed(k, ts)' BY <1>1, <1>4, <2>1, <2>3, <2>4, GuardStays
    <2>6. node[k].read_ts = ts /\ node'[k].seq # node[k].seq => Closed(k, ts)'
      BY <1>1, <1>4, <2>1, <2>3, GuardStays
    <2>7. tx[u].seq <= TopVer(k) => tx[u].seq <= TopVer(k)'
      <3> PICK a, b, s : a = TopVer(k) /\ b = TopVer(k)' /\ s = tx[u].seq OBVIOUS
      <3>1. a \in Nat /\ b \in Nat /\ a <= b /\ s \in Nat BY <1>1, <1>4, TopStays, Fields
      <3> QED BY <3>1
    <2> QED BY <2>2, <2>3, <2>5, <2>6, <2>7 DEF RaisedAt
  <1>5. tx'[u].pc \in RoPhase /\ k \in Fixed => RaisedAt(u, CurKey(u), tx[u].timestamp)'
    BY <1>2, <1>4, RaisedThere
  <1> QED BY <1>2, <1>3, <1>5, FixedRecords DEF Raising

\* Drain makes the store of read_ts visible.
LEMMA DrainRaises ==
  ASSUME StableInv, ~RC, ~TSO, NEW t \in Tx, Drain(t) PROVE Raising(t)'
  <1>1. ExactInv /\ LockInv /\ Raising(t) BY StableParts DEF StableInv
  <1>2. Drains(t) BY <1>1, DrainEffect
  <1> PICK k, ts : k = CurKey(t) /\ ts = tx[t].timestamp OBVIOUS
  <1>3. CurKey(t)' = k /\ tx'[t].timestamp = ts /\ tx'[t].pc = "ro_seq" /\ tx'[t].sbuf = {}
    BY <1>1, <1>2, DrainStore DEF CurKey, Drains, SameRead, SameEnd
  <1>4. tx[t].pc \in RoPhase BY <1>1, DrainStore DEF RoPhase
  <1>5. k \in Key BY <1>1, <1>4, Readers
  <1>6. node'[k].read_ts = ts BY <1>1, <1>5, DrainStore
  <1>7. RaisedAt(t, k, ts)' BY <1>3, <1>6 DEF RaisedAt, Tested
  <1>8. RaisedAt(t, CurKey(t), tx[t].timestamp)' BY <1>3, <1>7, RaisedThere
  <1> QED BY <1>3, <1>8 DEF Raising

\* Steps out of get_ro(), and of transactions that are not in it.
LEMMA LeaveRaises ==
  ASSUME StableInv, ~RC, ~TSO, NEW t \in Tx, Step(t), tx'[t].pc \notin RoPhase PROVE Raising(t)'
  <1>1. LockInv /\ Raising(t) BY StableParts DEF StableInv
  <1>2. Buffers(t) /\ tx[t].sbuf = {} BY <1>1, StepBuffers
  <1>3. ASSUME tx[t].pc = "ro_set" PROVE FALSE
    <2>1. RoTurn(t) BY <1>1, <1>3, GetRoOnly, GetRoTurns DEF RoPhase
    <2> QED BY <1>3, <2>1 DEF RoTurn, Tested, RoPhase
  <1>4. tx'[t].sbuf = {} BY <1>2, <1>3 DEF Buffers
  <1> QED BY <1>4 DEF Raising

\* The turns of get_ro().
LEMMA TurnRaises ==
  ASSUME StableInv, LockInv', ~RC, ~TSO, NEW t \in Tx, GetRo(t), RoMoves(t) PROVE Raising(t)'
  <1>1. /\ ExactInv /\ HistInv /\ LockInv /\ Raising(t) /\ Step(t) BY StableParts DEF StableInv, Step
  <1>2. RoTurn(t) /\ Buffers(t) /\ tx[t].sbuf = {} BY <1>1, GetRoTurns, StepBuffers
  <1> PICK k, ts : k = CurKey(t) /\ ts = tx[t].timestamp OBVIOUS
  <1>3. /\ CurKey(t)' = k /\ tx'[t].timestamp = ts /\ log' = log /\ tx'[t].pc \in RoPhase
        /\ SameVersions /\ tx[t].prog # <<>>
    BY DEF RoMoves, Reads, CurKey, SameEnd, SameVersions
  <1>4. tx'[t].sbuf # {} => tx'[t].pc = "ro_seq" /\ tx'[t].sbuf = {k}
    BY <1>2 DEF Buffers, RoTurn, Tested
  <1>5. ASSUME k \in Fixed PROVE RaisedAt(t, k, ts)'
    <2>1. k \in Key /\ NodeInv(k) /\ Stamps(k) BY <1>1, <1>5, FixedRecords DEF HistInv, StableInv
    <2>2. /\ node'[k].read_ts = node[k].read_ts /\ node'[k].seq = node[k].seq
      BY <1>2, <1>3, <2>1 DEF Buffers, SameVersions
    <2>3. TopVer(k)' = TopVer(k) /\ TopVer(k) \in Nat /\ tx[t].seq \in Nat
      BY <1>1, <1>3, <2>1, TopVersion, Fields DEF TopVer
    <2>4. ASSUME tx[t].pc \in RoPhase
          PROVE  /\ Does(t, k, "ro") /\ ts \in Nat /\ ts >= 2 /\ RaisedAt(t, k, ts)
      BY <1>1, <1>5, <2>4, Readers DEF Raising
    <2>5. ASSUME tx[t].pc \in RoPhase, Closed(k, ts) PROVE Closed(k, ts)'
      <3>1. node[k].read_ts = ts /\ ts \in Nat BY <2>4, <2>5 DEF Closed
      <3> QED BY <1>1, <1>5, <2>2, <2>5, <3>1, GuardStays
    <2>6. CASE tx'[t].pc \in {"ro_ts", "ro_lock", "ro_set"} BY <2>6 DEF RaisedAt, Tested
    <2>7. ASSUME tx[t].pc \in RoPhase, Closed(k, ts), tx'[t].pc \in Tested PROVE RaisedAt(t, k, ts)'
      <3>1. Closed(k, ts)' BY <2>5, <2>7
      <3>2. tx'[t].pc # "ro_seq" /\ tx'[t].pc \notin {"ro_lk", "ro_wait"} BY <2>7 DEF Tested
      <3> QED BY <3>1, <3>2 DEF RaisedAt
    <2>8. ASSUME tx[t].pc = "ro_ts", node[k].read_ts > ts PROVE FALSE
      <3>1. Does(t, k, "ro") /\ ts \in Nat BY <2>4, <2>8 DEF RoPhase
      <3>2. node[k].read_ts # 0 BY <2>8, <3>1
      <3>3. PICK u \in Tx : Does(u, k, "ro") /\ node[k].read_ts = tx[u].timestamp
        BY <2>1, <3>2 DEF Stamps
      <3>4. u = t BY <1>5, <2>1, <3>1, <3>3 DEF Fixed, Single
      <3> QED BY <2>8, <3>1, <3>3, <3>4
    <2>9. CASE tx[t].pc = "ro_set" /\ tx'[t].pc = "ro_seq" /\ tx'[t].sbuf = {k}
      BY <2>9 DEF RaisedAt, Tested
    <2>10. CASE tx[t].pc = "ro_seq" /\ tx'[t].pc = "ro_lk" /\ tx'[t].seq = node[k].seq
      <3>1. node'[k].read_ts = ts BY <1>2, <2>2, <2>4, <2>10 DEF RaisedAt, RoPhase
      <3>2. node[k].seq = 1 \/ node[k].seq = TopVer(k) BY <2>1 DEF NodeInv, Settled
      <3>3. tx'[t].seq = 1 \/ tx'[t].seq <= TopVer(k)' BY <2>3, <2>10, <3>2
      <3> QED BY <2>2, <2>10, <3>1, <3>3 DEF RaisedAt, Tested
    <2>11. ASSUME tx[t].pc \in {"ro_lk", "ro_wait"}
           PROVE  /\ node[k].read_ts = ts /\ (tx[t].seq = 1 \/ tx[t].seq <= TopVer(k))
                  /\ node[k].seq # tx[t].seq \/ node[k].lock = NoTx => Closed(k, ts)
                  /\ tx[t].pc \in RoPhase /\ ts \in Nat /\ ts >= 2
      <3>1. tx[t].pc \in RoPhase BY <2>11 DEF RoPhase
      <3>2. /\ node[k].read_ts = ts /\ (tx[t].seq = 1 \/ tx[t].seq <= TopVer(k))
            /\ node[k].seq # tx[t].seq => Closed(k, ts)
        BY <2>4, <2>11, <3>1 DEF RaisedAt
      <3>3. node[k].lock = NoTx => Closed(k, ts) BY <1>1, <2>1, <3>2, FreeIsSafe DEF Closed
      <3> QED BY <2>4, <3>1, <3>2, <3>3
    <2>12. CASE /\ tx[t].pc = "ro_lk" /\ tx'[t].seq = tx[t].seq
                /\ tx'[t].pc = IF node[k].lock # NoTx /\ tx[t].seq < ts THEN "ro_wait" ELSE "ro_get"
      <3>1. CASE tx'[t].pc = "ro_wait"
        <4>1. node'[k].seq # tx'[t].seq => Closed(k, ts)' BY <2>2, <2>5, <2>11, <2>12
        <4>2. node'[k].read_ts = ts /\ (tx'[t].seq = 1 \/ tx'[t].seq <= TopVer(k)')
          BY <2>2, <2>3, <2>11, <2>12
        <4> QED BY <3>1, <4>1, <4>2 DEF RaisedAt, Tested
      <3>2. CASE node[k].lock = NoTx BY <2>7, <2>11, <2>12, <3>2 DEF Tested
      <3>3. CASE ~(tx[t].seq < ts)
        <4> PICK a, s : a = TopVer(k) /\ s = tx[t].seq OBVIOUS
        <4>1. a \in Nat /\ s \in Nat /\ ts \in Nat /\ ts >= 2 /\ (s = 1 \/ s <= a) /\ ~(s < ts)
          BY <2>3, <2>11, <2>12, <3>3
        <4>2. a >= ts BY <4>1
        <4>3. Closed(k, ts) BY <2>11, <2>12, <4>2 DEF Closed
        <4> QED BY <2>7, <2>11, <2>12, <3>3, <4>3 DEF Tested
      <3> QED BY <2>12, <3>1, <3>2, <3>3
    <2>13. CASE /\ tx[t].pc = "ro_wait" /\ tx'[t].pc = "ro_get"
                /\ node[k].seq # tx[t].seq \/ node[k].lock = NoTx
      BY <2>7, <2>11, <2>13 DEF Tested
    <2>14. CASE tx[t].pc \in Tested
      <3>1. tx[t].pc \in RoPhase BY <2>14 DEF Tested, RoPhase
      <3>2. Closed(k, ts) BY <2>4, <2>14, <3>1 DEF RaisedAt
      <3>3. tx'[t].pc \in Tested
        <4>1. tx'[t].pc \in Tested \cup {"exec", "ro_done"} BY <1>2, <2>14 DEF RoTurn, Tested
        <4> QED BY <1>3, <4>1 DEF RoPhase
      <3> QED BY <2>7, <3>1, <3>2, <3>3
    <2>15. CASE tx[t].pc = "ro_ts" BY <1>2, <2>6, <2>8, <2>15 DEF RoTurn, Tested
    <2> QED BY <1>2, <2>6, <2>9, <2>10, <2>12, <2>13, <2>14, <2>15 DEF RoTurn
  <1>6. k \in Fixed => RaisedAt(t, CurKey(t), tx[t].timestamp)' BY <1>3, <1>5, RaisedThere
  <1> QED BY <1>3, <1>4, <1>6, FixedRecords DEF Raising

\* A result stays the newest one at its timestamp.
LEMMA FirmStays ==
  ASSUME StableInv, LockInv', ~RC, ~TSO, NEW t \in Tx, Step(t) \/ Drain(t), NEW u \in Tx,
         NEW r \in Read, r.key \in Fixed, NEW ts \in Nat, ts = tx[u].timestamp, FirmRead(u, r, ts)
  PROVE  FirmRead(u, r, ts)'
  <1> PICK k, v : k = r.key /\ v = r.ver OBVIOUS
  <1>1. ExactInv /\ OrderInv /\ k \in Key /\ k \in Fixed BY StableParts, FixedRecords
  <1>2. Does(u, k, "ro") /\ Barred(k, ts) BY DEF FirmRead
  <1>3. node[k].read_ts = ts /\ node'[k].read_ts = ts BY <1>1, <1>2, ReadTsStays DEF Barred
  <1>4. /\ Barred(k, ts)'
        /\ \A j \in DOMAIN log'[k] : j \in DOMAIN log[k] \/ log'[k][j].ver > ts
    BY <1>1, <1>2, <1>3, GuardStays
  <1>5. Longer(k) BY <1>1, NextLonger DEF Next
  <1>6. ASSUME NEW j \in DOMAIN log'[k] PROVE ~(v < log'[k][j].ver /\ log'[k][j].ver <= ts)
    <2>1. CASE j \in DOMAIN log[k]
      BY <1>5, <2>1 DEF Longer, FirmRead
    <2>2. CASE log'[k][j].ver > ts
      <3>1. log' \in [Key -> Seq(Version)] BY DEF LockInv, TypeOK
      <3>2. log'[k] \in Seq(Version) BY <1>1, <3>1
      <3>3. log'[k][j] \in Version BY <1>6, <3>2
      <3>4. log'[k][j].ver \in Nat BY <3>3 DEF Version
      <3> QED BY <2>2, <3>4
    <2> QED BY <1>4, <2>1, <2>2
  <1> QED BY <1>2, <1>4, <1>6 DEF FirmRead, Does

\* What get_ro() returns is the newest version at its timestamp, for good.
LEMMA ResultFirm ==
  ASSUME StableInv, NEW t \in Tx, NEW v, NEW b, RoReturns(t, v, b), RoResult(t, v, b),
         CurKey(t) \in Fixed
  PROVE  FirmRead(t, Got(t, v, b), tx[t].timestamp)
  <1> PICK k, ts, g : k = CurKey(t) /\ ts = tx[t].timestamp /\ g = Got(t, v, b) OBVIOUS
  <1>1. ExactInv /\ OrderInv /\ Raising(t) /\ tx[t].pc \in RoPhase /\ k \in Fixed /\ k \in Exact
        /\ k \in Intact
    BY StableParts, FixedRecords DEF StableInv, RoReturns
  <1>2. Does(t, k, "ro") /\ RaisedAt(t, k, ts) BY <1>1, Readers DEF Raising
  <1>3. Closed(k, ts) BY <1>2 DEF RoResult, Tested, RaisedAt
  <1>4. node[k].seq # 1 BY <1>1 DEF RoResult, OrderInv, Whole
  <1>5. Barred(k, ts) BY <1>3, <1>4 DEF Closed, Barred
  <1>6. \A j \in DOMAIN log[k] : ~(v < log[k][j].ver /\ log[k][j].ver <= ts) BY <1>1, ResultExact
  <1>7. g.key = k /\ g.ver = v BY DEF Got
  <1> QED BY <1>2, <1>5, <1>6, <1>7 DEF FirmRead

\* Every step keeps snapshots stable.
LEMMA StepStable ==
  ASSUME StableInv, ExactInv', ~RC, ~TSO, NEW t \in Tx, Step(t) \/ Drain(t), NEW u \in Tx
  PROVE  Raising(u)' /\ Firm(u)'
  <1>1. /\ ExactInv /\ BooksInv /\ LockInv /\ Raising(t) /\ Firm(u) /\ Alone(t)
    BY StableParts, StepKinds DEF StableInv
  <1>2. LockInv' BY DEF ExactInv, ReadsInv, OrderInv, HistInv, BooksInv
  <1>3. Raising(u)'
    <2>1. CASE u # t BY <1>1, <1>2, <2>1, RaisingStays DEF Alone
    <2>2. CASE u = t /\ Drain(t) BY <2>2, DrainRaises
    <2>3. CASE u = t /\ Step(t) /\ tx'[t].pc \notin RoPhase BY <2>3, LeaveRaises
    <2>4. CASE u = t /\ Step(t) /\ tx'[t].pc \in RoPhase /\ ~Drain(t)
      <3>1. \A v, b : RoReturns(t, v, b) => tx'[t].pc \in {"ro_done", "exec"}
        BY DEF RoReturns, Reads
      <3>2. GetRo(t)
        <4>1. CASE Begin(t) BY <1>1, <2>4, <4>1, BeginEffect DEF Begins, RoPhase
        <4>2. CASE Finish(t) \/ Serve(t)
          BY <1>1, <2>4, <4>2, EndMoving
             DEF EndMoves, EndPhase, LockPhase, CommitPhase, ReleasePhase, RoPhase
        <4>3. CASE Execute(t)
          <5>1. CASE ReadSeq(t) BY <1>1, <2>4, <5>1, ReadSeqEffect DEF Reads, RoPhase
          <5>2. CASE ReadValue(t) BY <1>1, <2>4, <5>2, ReadValueEffect DEF Reads, RoPhase
          <5>3. CASE ReadCheck(t) BY <1>1, <2>4, <5>3, ReadCheckEffect DEF Reads, Adds, RoPhase
          <5>4. CASE BlindWrite(t) BY <1>1, <2>4, <5>4, BlindWriteEffect DEF Adds, RoPhase
          <5>5. CASE DeleteItem(t) BY <1>1, <2>4, <5>5, DeleteItemEffect DEF Marks, RoPhase
          <5> QED BY <4>3, <5>1, <5>2, <5>3, <5>4, <5>5 DEF Execute
        <4> QED BY <2>4, <4>1, <4>2, <4>3 DEF Step
      <3>3. RoMoves(t) BY <1>1, <2>4, <3>1, <3>2, GetRoEffect DEF RoPhase
      <3> QED BY <1>2, <2>4, <3>2, <3>3, TurnRaises
    <2> QED BY <2>1, <2>2, <2>3, <2>4
  <1>4. ASSUME NEW r \in tx[u].snap, r.key \in Fixed PROVE FirmRead(u, r, tx[u].timestamp)'
    <2> PICK ts : ts = tx[u].timestamp OBVIOUS
    <2>1. r \in Read /\ ts \in Nat BY <1>1, <1>4, Fields DEF TxState
    <2>2. FirmRead(u, r, ts) BY <1>1, <1>4 DEF Firm
    <2>3. FirmRead(u, r, ts)' BY <1>2, <1>4, <2>1, <2>2, FirmStays
    <2>4. tx'[u].timestamp = ts
      <3>1. CASE u # t BY <1>1, <3>1 DEF Alone
      <3>2. CASE u = t BY <1>1, <1>4, <3>2, Readers, ReadersStay
      <3> QED BY <3>1, <3>2
    <2> QED BY <2>3, <2>4, FirmThere
  <1>5. ASSUME u = t, NEW v, NEW b, RoReturns(t, v, b), RoResult(t, v, b), CurKey(t) \in Fixed,
               NEW g, g = Got(t, v, b)
        PROVE  FirmRead(u, g, tx[u].timestamp)'
    <2> PICK ts : ts = tx[t].timestamp OBVIOUS
    <2>1. FirmRead(t, g, ts) BY <1>5, ResultFirm
    <2>2. tx'[t].timestamp = ts /\ tx'[t].snap = tx[t].snap \cup {g}
      BY <1>5 DEF RoReturns, Reads, SameEnd
    <2>3. g \in Read /\ g.key \in Fixed /\ ts \in Nat
      <3>1. tx' \in [Tx -> TxState] BY <1>2 DEF LockInv, TypeOK
      <3>2. tx'[t].snap \in SUBSET Read BY <3>1 DEF TxState
      <3> QED BY <1>1, <1>5, <2>2, <3>2, Fields DEF Got
    <2>4. FirmRead(t, g, ts)' BY <1>2, <2>1, <2>3, FirmStays
    <2> QED BY <1>5, <2>2, <2>4, FirmThere
  <1>6. ASSUME NEW r \in tx'[u].snap, r.key \in Fixed PROVE FirmRead(u, r, tx[u].timestamp)'
    <2>1. CASE r \in tx[u].snap BY <1>4, <1>6, <2>1
    <2>2. CASE r \notin tx[u].snap
      <3>1. u = t BY <1>1, <1>6, <2>2 DEF Alone
      <3>2. PICK v, b : RoReturns(t, v, b) /\ RoResult(t, v, b)
        BY <1>1, <1>6, <2>2, <3>1, RoKinds DEF Other, Drains, SameRead, RoMoves
      <3>3. r = Got(t, v, b) BY <1>6, <2>2, <3>1, <3>2 DEF RoReturns
      <3>4. CurKey(t) \in Fixed BY <1>6, <3>3 DEF Got
      <3> QED BY <1>5, <3>1, <3>2, <3>3, <3>4
    <2> QED BY <2>1, <2>2
  <1> QED BY <1>3, <1>6, FixedRecords DEF Firm

\* So does the whole next-state relation.
LEMMA NextStable ==
  ASSUME ~RC, ~TSO, Separate, StableInv, [Next]_vars PROVE StableInv'
  <1>1. ExactInv' BY StableParts, NextExact
  <1>2. ASSUME NEW t \in Tx, Step(t) \/ Drain(t) PROVE StableInv'
    BY <1>1, <1>2, StampsStay, StepStable DEF StableInv
  <1>3. ASSUME UNCHANGED vars PROVE StableInv'
    <2>1. tx' = tx /\ node' = node /\ log' = log BY <1>3 DEF vars
    <2>2. \A k \in Key : Stamps(k)' BY <2>1 DEF StableInv, Stamps, InRo, Does
    <2>3. ASSUME NEW u \in Tx PROVE Raising(u)' /\ Firm(u)'
      <3>1. Raising(u) /\ Firm(u) BY DEF StableInv
      <3>2. \A w \in Tx : \A k : Pending(w, k)' <=> Pending(w, k) BY <2>1, OtherViews DEF Pending
      <3>3. \A k, ts : Safe(k, ts)' <=> Safe(k, ts) BY <2>1, <3>2 DEF Safe, Above
      <3> PICK k, ts : k = CurKey(u) /\ ts = tx[u].timestamp OBVIOUS
      <3>4. CurKey(u)' = k /\ tx'[u].timestamp = ts /\ TopVer(k)' = TopVer(k)
        BY <2>1 DEF CurKey, TopVer
      <3>5. RaisedAt(u, k, ts) => RaisedAt(u, k, ts)' BY <2>1, <3>3, <3>4 DEF RaisedAt, Closed
      <3>6. Raising(u)'
        <4>1. tx[u].pc \in RoPhase /\ k \in Fixed => RaisedAt(u, CurKey(u), tx[u].timestamp)'
          BY <3>1, <3>4, <3>5, RaisedThere DEF Raising
        <4> QED BY <2>1, <3>1, <3>4, <4>1, FixedRecords DEF Raising
      <3>7. ASSUME NEW r \in tx[u].snap, r.key \in Fixed PROVE FirmRead(u, r, tx[u].timestamp)'
        <4>1. FirmRead(u, r, ts) BY <3>1, <3>7 DEF Firm
        <4>2. TopVer(r.key)' = TopVer(r.key) /\ (Safe(r.key, ts)' <=> Safe(r.key, ts))
          BY <2>1, <3>3 DEF TopVer
        <4>3. FirmRead(u, r, ts)' BY <2>1, <4>1, <4>2 DEF FirmRead, Barred, Does
        <4> QED BY <3>4, <4>3, FirmThere
      <3> QED BY <2>1, <3>6, <3>7, FixedRecords DEF Firm
    <2> QED BY <1>1, <2>2, <2>3 DEF StableInv
  <1> QED BY <1>2, <1>3 DEF Next, Terminated

\* Nothing is read at the start.
LEMMA InitStable == ASSUME Init PROVE StableInv
  <1>1. ASSUME NEW k \in Key PROVE Stamps(k)
    <2>1. node[k].read_ts = 0 BY <1>1 DEF Init
    <2> QED BY <2>1 DEF Stamps
  <1>2. ASSUME NEW t \in Tx PROVE Raising(t) /\ Firm(t)
    <2>1. tx[t].pc = Idle /\ tx[t].sbuf = {} /\ tx[t].snap = {} BY <1>2 DEF Init
    <2> QED BY <2>1 DEF Raising, Firm, RoPhase, Idle
  <1> QED BY <1>1, <1>2, InitExact DEF StableInv

\* read_ts, the waits of get_ro() and the timestamps of the writers under way
\* fit together in every reachable state.
THEOREM StableInvariance ==
  ASSUME ~RC, ~TSO, Separate PROVE Spec => []StableInv
  <1>1. Init => StableInv BY InitStable
  <1>2. StableInv /\ [Next]_vars => StableInv' BY NextStable
  <1> QED BY <1>1, <1>2, PTL DEF Spec

\* Where a transaction has written a record, Pos names the place.
LEMMA PosOf ==
  ASSUME NEW k \in Key, LogInv(k), NEW j \in DOMAIN log[k], log[k][j].by # Null
  PROVE  Pos(k, log[k][j].by) = j
  <1> PICK w : w = log[k][j].by OBVIOUS
  <1>1. \A i \in DOMAIN log[k] : log[k][i].by = w => i = j BY DEF LogInv
  <1>2. j = CHOOSE i \in DOMAIN log[k] : log[k][i].by = w BY <1>1
  <1> QED BY <1>2 DEF Pos

\* A transaction writes all its records at one timestamp.
LEMMA OneStamp ==
  ASSUME HistInv, NEW k \in Key, NEW j \in DOMAIN log[k], log[k][j].by \in Tx
  PROVE  log[k][j].ver = tx[log[k][j].by].timestamp
  <1>1. Entry(k, log[k][j]) BY DEF HistInv, LogInv
  <1> QED BY <1>1, ConstantAssumption DEF Entry

\* What get_ro() returned for such records stays the newest version at or below
\* its timestamp; and where it returned a transaction's version of one of them, it
\* returned that transaction's version of every other one or a later one.
StableReads ==
  \A t \in Tx : \A r \in tx[t].snap : r.key \in Fixed =>
    \A j \in DOMAIN log[r.key] :
      ~(r.ver < log[r.key][j].ver /\ log[r.key][j].ver <= tx[t].timestamp)
WholeReads ==
  \A t \in Tx : \A r, q \in tx[t].snap :
    r.key \in Fixed /\ q.key \in Fixed /\ r.by \in Tx /\ q.by # Null =>
      Pos(q.key, q.by) >= Pos(q.key, r.by)
\* Both follow from the invariant.
LEMMA StableIsWhole == ASSUME StableInv PROVE StableReads /\ WholeReads
  <1>1. StableReads BY DEF StableInv, Firm, FirmRead, StableReads
  <1>2. ASSUME NEW t \in Tx, NEW r \in tx[t].snap, NEW q \in tx[t].snap,
               r.key \in Fixed, q.key \in Fixed, r.by \in Tx, q.by # Null
        PROVE  Pos(q.key, q.by) >= Pos(q.key, r.by)
    <2> PICK k, w, ts : k = q.key /\ w = r.by /\ ts = tx[t].timestamp OBVIOUS
    <2>1. ExactInv /\ ReadsInv /\ OrderInv /\ HistInv /\ LockInv BY StableParts
    <2>2. r \in Read /\ q \in Read /\ ts \in Nat BY <2>1, Fields DEF TxState
    <2>3. r.key \in Key /\ k \in Key /\ q.ver \in Nat /\ r.ver \in Nat BY <2>2 DEF Read
    <2>4. /\ r.key \in Exact /\ r.key \in Ordered /\ k \in Ordered /\ k \in Strict
          /\ w # Null
      BY <1>2, FixedRecords, ConstantAssumption
    <2>5. LogInv(k) /\ Grows(k) BY <2>1, <2>3, <2>4 DEF HistInv, OrderInv
    <2>6. DOMAIN log[k] \subseteq Nat /\ \A j \in DOMAIN log[k] : log[k][j].ver \in Nat
      BY <2>1, <2>3, TopVersion
    <2>7. PICK i \in DOMAIN log[k] : log[k][i].ver = q.ver /\ log[k][i].by = q.by
      BY <1>2, <2>1, <2>4 DEF ReadsInv, ItemInv, SoundRead, Logged
    <2>8. Pos(k, q.by) = i BY <1>2, <2>3, <2>5, <2>7, PosOf
    <2>9. CASE \A j \in DOMAIN log[k] : log[k][j].by # w
      <3>1. Pos(k, w) = 0 BY <2>9 DEF Pos
      <3>2. i \in Nat BY <2>6
      <3> QED BY <2>8, <3>1, <3>2
    <2>10. ASSUME NEW j \in DOMAIN log[k], log[k][j].by = w PROVE Pos(k, q.by) >= Pos(k, w)
      <3>1. PICK h \in DOMAIN log[r.key] : log[r.key][h].ver = r.ver /\ log[r.key][h].by = w
        BY <1>2, <2>1, <2>4 DEF ReadsInv, ItemInv, SoundRead, Logged
      <3>2. log[k][j].ver = r.ver BY <1>2, <2>1, <2>3, <2>10, <3>1, OneStamp
      <3>3. r.ver <= ts BY <2>1, <2>4 DEF ExactInv, RoSnaps, GoodRead
      <3>4. ~(q.ver < log[k][j].ver /\ log[k][j].ver <= ts)
        BY <1>1, <1>2, <2>10 DEF StableReads
      <3>5. log[k][j].ver <= log[k][i].ver BY <2>3, <2>7, <3>2, <3>3, <3>4
      <3>6. ~(i < j)
        <4>1. i < j => log[k][i].ver < log[k][j].ver BY <2>5 DEF Grows
        <4> PICK a, b : a = log[k][i].ver /\ b = log[k][j].ver OBVIOUS
        <4>2. a \in Nat /\ b \in Nat BY <2>6
        <4> QED BY <3>5, <4>1, <4>2
      <3>7. Pos(k, w) = j BY <2>3, <2>4, <2>5, <2>10, PosOf
      <3>8. i \in Nat /\ j \in Nat BY <2>6
      <3> QED BY <2>8, <3>6, <3>7, <3>8
    <2> QED BY <2>9, <2>10
  <1>3. WholeReads BY <1>2 DEF WholeReads
  <1> QED BY <1>1, <1>3

\* Snapshot reads of such records are stable and whole, whatever happens to the
\* others: every writer that could still publish below the snapshot meets the
\* raised read_ts or is waited for, and a transaction writes at one timestamp.
THEOREM FixedSnapshots ==
  ASSUME ~RC, ~TSO, Separate PROVE Spec => [](StableReads /\ WholeReads)
  BY StableIsWhole, StableInvariance, PTL

\* No version at or below the timestamp of a snapshot is published over what
\* get_ro() returned, when every record is of the kind.
THEOREM SnapshotsStable ==
  ASSUME ~RC, ~TSO, Separate, Fixed = Key PROVE Spec => []SnapshotStable
  <1>1. ASSUME StableInv PROVE SnapshotStable
    <2>1. \A t \in Tx : \A r \in tx[t].snap : r.key \in Key
      BY <1>1, StableParts, Fields DEF TxState, Read
    <2> QED BY <1>1, <2>1, StableIsWhole DEF StableReads, SnapshotStable
  <1> QED BY <1>1, StableInvariance, PTL

\* A snapshot sees the writes of a transaction all or not at all, when every
\* record is of the kind.
THEOREM SnapshotsWhole ==
  ASSUME ~RC, ~TSO, Separate, Fixed = Key PROVE Spec => []NoFracturedRead
  <1>1. ASSUME StableInv PROVE NoFracturedRead
    <2>1. \A t \in Tx : \A r \in tx[t].snap : r.key \in Key
      BY <1>1, StableParts, Fields DEF TxState, Read
    <2> QED BY <1>1, <2>1, StableIsWhole DEF WholeReads, NoFracturedRead
  <1> QED BY <1>1, StableInvariance, PTL
=============================================================================
