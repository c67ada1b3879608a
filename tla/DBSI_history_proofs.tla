------------------------ MODULE DBSI_history_proofs ------------------------
(***************************************************************************)
(* Proofs about the histories of DBSI: no update is lost, and a snapshot   *)
(* read of a record that is never deleted is final.  They build on the     *)
(* invariants of DBSI_proofs: who holds which lock, and which commit       *)
(* timestamps are open.                                                    *)
(***************************************************************************)
EXTENDS DBSI_proofs

-----------------------------------------------------------------------------
(* The inductive invariant.  A record is settled, and then its node shows the *)
(* last version of its history, or its lock holder is changing it.            *)

\* The newest published version of k.
TopVer(k) == IF log[k] = <<>> THEN NoVer ELSE log[k][Len(log[k])].ver

\* The old versions of k are the versions m, m-1, ... of its history.
Chain(k, m) == \A j \in DOMAIN node[k].old : j <= m /\ node[k].old[j] = log[k][m + 1 - j]

\* Nobody is inside an install of k: the node shows the newest version.
Settled(k) ==
  /\ node[k].seq = TopVer(k)
  /\ node[k].value = Null
       \/ (Len(log[k]) > 0 /\ node[k].value = log[k][Len(log[k])].by)
  /\ Chain(k, Len(log[k]) - 1)
  /\ \A t \in Tx : Working(t, k) => PartOf[k] \notin tx[t].swapped

\* t is inside an install of k, after the value switch or (from NULL) before it.
Changing(k, t) ==
  /\ node[k].lock = t /\ Working(t, k)
  /\ \/ /\ PartOf[k] \in tx[t].swapped /\ node[k].value \in {Null, t}
        /\ Chain(k, Len(log[k]))
     \/ /\ PartOf[k] \notin tx[t].swapped /\ node[k].value = Null
        /\ Chain(k, Len(log[k]) - 1)

\* seq = Busy tells the two apart.
NodeInv(k) ==
  /\ node[k].seq # Busy => Settled(k)
  /\ node[k].seq = Busy => \E t \in Tx : Changing(k, t)

\* A machine inside an install has an item it works on.
Swapped(t) == \A p \in tx[t].swapped : \E k \in Key : Working(t, k) /\ PartOf[k] = p

\* The versions of a history carry the timestamps of their transactions, which
\* have given up the lock; a transaction writes a record once.
Entry(k, e) ==
  \/ e = [ver |-> First, by |-> Loaded]
  \/ /\ e.by \in Tx /\ tx[e.by].pc \in Stamped /\ e.ver = tx[e.by].commit_ts
     /\ node[k].lock # e.by
LogInv(k) ==
  /\ \A j \in DOMAIN log[k] : Entry(k, log[k][j])
  /\ \A i, j \in DOMAIN log[k] : log[k][i].by = log[k][j].by => i = j

\* The versions compared under a lock are still the newest ones.
Held(t) ==
  /\ tx[t].pc \in {"lock_all", "commit"} => \A i \in LocalHeld(t) :
       tx[t].rwset[i].seq = TopVer(tx[t].rwset[i].key)
  /\ \A i \in RemoteHeld(t) : tx[t].rset[i].seq = TopVer(tx[t].rset[i].key)

\* A transaction that commits has each record once among its writes.
Unique(t) ==
  tx[t].pc \in Stamped =>
    /\ \A i, j \in LocalWrites(t) : tx[t].rwset[i].key = tx[t].rwset[j].key => i = j
    /\ \A i, j \in RemoteWrites(t) : tx[t].rset[i].key = tx[t].rset[j].key => i = j

\* s, written by v, is a version of k.
Logged(k, s, v) == \E j \in DOMAIN log[k] : log[k][j].ver = s /\ log[k][j].by = v

\* What t read is a version of the record, or nothing, or a lock_remote or
\* LockAllSet of it will fail.
GoodItem(it) == /\ it.kind \in {"upd", "del"} => it.w
                /\ it.by = Null \/ it.seq = Busy \/ Logged(it.key, it.seq, it.by)
ItemInv(t) == /\ \A i \in DOMAIN tx[t].rwset : GoodItem(tx[t].rwset[i])
              /\ \A i \in DOMAIN tx[t].rset : GoodItem(tx[t].rset[i])

\* A read under way.
ReadInv(t) ==
  tx[t].pc \in ReadPhase \ {"exec"} =>
    LET k == CurKey(t) IN
    /\ tx[t].seq \in {Busy, NoVer} \/ \E j \in DOMAIN log[k] : log[k][j].ver = tx[t].seq
    /\ tx[t].pc = "chk" =>
         \/ tx[t].val = Null \/ tx[t].seq = Busy \/ node[k].seq # tx[t].seq
         \/ Logged(k, tx[t].seq, tx[t].val)
    /\ tx[t].pc \in {"old", "ochk"} => ~Sees(t, tx[t].seq)
    /\ tx[t].pc = "ochk" =>
         CurOp(t).kind = "ro" /\ (node[k].seq = tx[t].seq => tx[t].chain = node[k].old)
    /\ tx[t].pc \in {"val", "chk"} /\ CurOp(t).kind = "ro" => Sees(t, tx[t].seq)
    /\ tx[t].pc = "chk" /\ CurOp(t).kind = "ro" => tx[t].val # Null

\* An item that t wrote follows the version it was read from.
Follows(t, it) ==
  it.w /\ it.by # Null => \A j \in DOMAIN log[it.key] :
    log[it.key][j].by = t => j > 1 /\ log[it.key][j - 1].by = it.by
\* All items of t do.
Overwrites(t) ==
  /\ \A i \in DOMAIN tx[t].rwset : Follows(t, tx[t].rwset[i])
  /\ \A i \in DOMAIN tx[t].rset : Follows(t, tx[t].rset[i])

Books(t) == Swapped(t) /\ Held(t) /\ Unique(t) /\ ItemInv(t) /\ ReadInv(t) /\ Overwrites(t)
\* The inductive invariant of the histories.
HistInv == /\ TsInv /\ \A t \in Tx : Books(t)
           /\ \A k \in Key : NodeInv(k) /\ LogInv(k)

-----------------------------------------------------------------------------
(* The snapshots.  The records that no program deletes keep all versions.     *)

\* The records that no program deletes.
Kept == {k \in Key : \A t \in Tx : \A p \in Programs[t] : \A i \in DOMAIN p :
           p[i].kind = "del" => p[i].key # k}

\* No operation and no item deletes a record of Kept.
NotDeleted(t) ==
  /\ \A i \in DOMAIN tx[t].prog : tx[t].prog[i].kind = "del" => tx[t].prog[i].key \notin Kept
  /\ \A i \in DOMAIN tx[t].rwset : tx[t].rwset[i].kind = "del" => tx[t].rwset[i].key \notin Kept
  /\ \A i \in DOMAIN tx[t].rset : tx[t].rset[i].kind = "del" => tx[t].rset[i].key \notin Kept

\* The node holds the whole history.
Whole(k) ==
  /\ node[k].seq # Busy =>
       /\ Len(log[k]) = 0 => node[k].value = Null /\ node[k].old = <<>>
       /\ Len(log[k]) > 0 => Len(node[k].old) + 1 = Len(log[k]) /\ node[k].value # Null
  /\ node[k].seq = Busy => \E t \in Tx :
       /\ node[k].lock = t
       /\ PartOf[k] \in tx[t].swapped => Len(node[k].old) = Len(log[k]) /\ node[k].value = t
       /\ PartOf[k] \notin tx[t].swapped => Len(log[k]) = 0 /\ node[k].old = <<>>

\* What a snapshot read returns is covered, and nothing covered is newer.
GoodRead(t, r) ==
  /\ r.by = Null \/ (Sees(t, r.ver) /\ Logged(r.key, r.ver, r.by))
  /\ r.key \in Kept => \A j \in DOMAIN log[r.key] :
       Sees(t, log[r.key][j].ver) =>
         \E i \in DOMAIN log[r.key] : i >= j /\ log[r.key][i].by = r.by
\* All that t has returned is right; it starts with nothing.
SnapInv(t) == /\ tx[t].pc = "idle" => tx[t].snap = {}
              /\ \A r \in tx[t].snap : GoodRead(t, r)

\* The inductive invariant of the snapshots.
SnapshotInv == /\ HistInv /\ \A t \in Tx : NotDeleted(t) /\ SnapInv(t)
               /\ \A k \in Kept : Whole(k)

-----------------------------------------------------------------------------
(* Facts about states.                                                        *)

\* An install is under the lock, and a machine works on one item at a time.
LEMMA WorkingHolds ==
  ASSUME LockInv, NEW t \in Tx, NEW k \in Key, Working(t, k)
  PROVE  node[k].lock = t /\ tx[t].pc \in {"commit", "commit_remote"}
  <1>1. Locks(t) /\ Control(t) BY DEF LockInv
  <1>2. CASE tx[t].pc = "commit" /\ tx[t].i \in LocalWrites(t) /\ k = tx[t].rwset[tx[t].i].key
    <2>1. tx[t].i \in LocalHeld(t) BY <1>2, Indices DEF LocalHeld
    <2> QED BY <1>1, <1>2, <2>1 DEF Locks
  <1>3. ASSUME tx[t].pc = "commit_remote", NEW i \in tx[t].todo, k = tx[t].rset[i].key
        PROVE  node[k].lock = t
    <2>1. i \in RemoteHeld(t) BY <1>1, <1>3 DEF Control, RemoteHeld
    <2> QED BY <1>1, <1>3, <2>1 DEF Locks
  <1> QED BY <1>2, <1>3 DEF Working

\* Two records of one machine that t works on are one.
LEMMA WorkingOnce ==
  ASSUME LockInv, NEW t \in Tx, NEW h \in Key, NEW k \in Key, Working(t, h), Working(t, k),
         PartOf[h] = PartOf[k]
  PROVE  h = k
  <1>1. CASE tx[t].pc = "commit" BY <1>1 DEF Working
  <1>2. CASE tx[t].pc = "commit_remote"
    <2>1. PICK i \in tx[t].todo : NextAt(t, i) /\ h = tx[t].rset[i].key BY <1>2 DEF Working
    <2>2. PICK j \in tx[t].todo : NextAt(t, j) /\ k = tx[t].rset[j].key BY <1>2 DEF Working
    <2>3. i \in Nat /\ j \in Nat BY Fields DEF LockInv
    <2>4. i <= j /\ j <= i BY <2>1, <2>2 DEF NextAt
    <2> QED BY <2>1, <2>2, <2>3, <2>4
  <1> QED BY <1>1, <1>2, WorkingHolds

\* The versions of a history are none of the constants, and all different.
LEMMA LoggedVersions ==
  ASSUME HistInv, NEW k \in Key, NEW j \in DOMAIN log[k]
  PROVE  log[k][j].ver \notin {Busy, NoVer}
  <1>1. Entry(k, log[k][j]) BY DEF HistInv, LogInv
  <1>2. CASE log[k][j] = [ver |-> First, by |-> Loaded] BY <1>2 DEF First, Busy, NoVer
  <1>3. ASSUME log[k][j].by \in Tx, tx[log[k][j].by].pc \in Stamped,
               log[k][j].ver = tx[log[k][j].by].commit_ts
        PROVE  log[k][j].ver \notin {Busy, NoVer}
    <2> DEFINE t == log[k][j].by
    <2>1. Stamp(t) /\ Home[t] \in Part BY <1>3, SIAssumption DEF HistInv, TsInv
    <2>2. \E c : c >= 3 /\ tx[t].commit_ts = <<Home[t], c>>
      <3>1. CASE tx[t].pc \in Installing
        BY <2>1, <3>1 DEF Stamp, HistInv, TsInv, Clocks
      <3>2. CASE tx[t].pc = "committed" BY <2>1, <3>2 DEF Stamp
      <3> QED BY <1>3, <3>1, <3>2 DEF Stamped, Installing
    <2> QED BY <1>3, <2>2 DEF Busy, NoVer
  <1> QED BY <1>1, <1>2, <1>3 DEF Entry

\* The timestamp of a transaction that has one.
LEMMA StampValue ==
  ASSUME TsInv, NEW t \in Tx, tx[t].pc \in Stamped
  PROVE  /\ \E c \in Nat : c >= 3 /\ tx[t].commit_ts = <<Home[t], c>>
         /\ tx[t].commit_ts \notin {Busy, NoVer, First}
  <1>1. Stamp(t) /\ Home[t] \in Part /\ open[Home[t]] \subseteq Nat
    BY SIAssumption DEF TsInv, LockInv, SITypeOK
  <1>2. \E c \in Nat : c >= 3 /\ tx[t].commit_ts = <<Home[t], c>>
    <2>1. CASE tx[t].pc \in Installing BY <1>1, <2>1 DEF Stamp, TsInv, Clocks
    <2>2. CASE tx[t].pc = "committed" BY <1>1, <2>2 DEF Stamp
    <2> QED BY <2>1, <2>2 DEF Stamped, Installing
  <1> QED BY <1>2 DEF Busy, NoVer, First

\* Two entries of a history with one version are one entry.
LEMMA VersionsDiffer ==
  ASSUME HistInv, NEW k \in Key, NEW i \in DOMAIN log[k], NEW j \in DOMAIN log[k],
         log[k][i].ver = log[k][j].ver
  PROVE  i = j
  <1>1. Entry(k, log[k][i]) /\ Entry(k, log[k][j]) /\ TsInv BY DEF HistInv, LogInv
  <1>2. log[k][i].by = log[k][j].by
    <2>1. CASE log[k][i].by \in Tx /\ log[k][j].by \in Tx
      <3> DEFINE t == log[k][i].by
                 u == log[k][j].by
      <3>1. t # Loaded /\ u # Loaded BY <2>1, SIAssumption
      <3>2. tx[t].pc \in Stamped /\ tx[u].commit_ts = tx[t].commit_ts
        BY <1>1, <2>1, <3>1 DEF Entry
      <3>3. tx[t].commit_ts # NoVer BY <1>1, <2>1, <3>2, StampValue
      <3> HIDE DEF t, u
      <3>4. t \in Tx /\ u \in Tx BY <2>1 DEF t, u
      <3>5. t = u BY <1>1, <3>2, <3>3, <3>4 DEF TsInv, Stamp
      <3> QED BY <3>5 DEF t, u
    <2>2. ASSUME NEW m \in DOMAIN log[k], log[k][m].by \in Tx
          PROVE  log[k][m].ver # First
      <3>1. Entry(k, log[k][m]) /\ log[k][m].by # Loaded
        BY <2>2, SIAssumption DEF HistInv, LogInv
      <3> QED BY <1>1, <2>2, <3>1, StampValue DEF Entry
    <2> QED BY <1>1, <2>1, <2>2 DEF Entry
  <1> QED BY <1>2 DEF HistInv, LogInv

\* The top version is the last of the history.
LEMMA TopVersion ==
  ASSUME HistInv, NEW k \in Key
  PROVE  /\ log[k] \in Seq(Version) /\ Len(log[k]) \in Nat
         /\ DOMAIN log[k] = 1..Len(log[k])
         /\ Len(log[k]) = 0 => TopVer(k) = NoVer
         /\ Len(log[k]) > 0 => /\ Len(log[k]) \in DOMAIN log[k]
                               /\ TopVer(k) = log[k][Len(log[k])].ver
                               /\ TopVer(k) # NoVer
         /\ TopVer(k) # Busy
  <1>1. log[k] \in Seq(Version) BY DEF HistInv, TsInv, LockInv, SITypeOK
  <1>2. Len(log[k]) = 0 <=> log[k] = <<>> BY <1>1
  <1>3. Len(log[k]) > 0 => Len(log[k]) \in DOMAIN log[k] BY <1>1
  <1>4. NoVer # Busy BY DEF NoVer, Busy
  <1> QED BY <1>1, <1>2, <1>3, <1>4, LoggedVersions DEF TopVer

\* A record nobody has locked shows its last version.
LEMMA FreeIsSettled ==
  ASSUME HistInv, NEW k \in Key, node[k].lock \notin Tx \/ \A t \in Tx : ~Working(t, k)
  PROVE  Settled(k) /\ node[k].seq # Busy
  <1>1. node[k].seq # Busy BY DEF HistInv, NodeInv, Changing
  <1> QED BY <1>1 DEF HistInv, NodeInv

-----------------------------------------------------------------------------
(* Steps that install nothing.                                                *)

\* What a step shows of a transaction that does not take it.
LEMMA OtherViews ==
  ASSUME NEW u \in Tx, tx'[u] = tx[u]
  PROVE  /\ LocalWrites(u)' = LocalWrites(u) /\ RemoteWrites(u)' = RemoteWrites(u)
         /\ LocalHeld(u)' = LocalHeld(u) /\ RemoteHeld(u)' = RemoteHeld(u)
         /\ CurKey(u)' = CurKey(u) /\ CurOp(u)' = CurOp(u)
         /\ \A k \in Key : Working(u, k)' <=> Working(u, k)
  <1>1. /\ LocalWrites(u)' = LocalWrites(u) /\ RemoteWrites(u)' = RemoteWrites(u)
    BY DEF LocalWrites, RemoteWrites
  <1>2. LocalHeld(u)' = LocalHeld(u) /\ RemoteHeld(u)' = RemoteHeld(u)
    BY <1>1 DEF LocalHeld, RemoteHeld
  <1>3. CurKey(u)' = CurKey(u) /\ CurOp(u)' = CurOp(u) BY DEF CurKey, CurOp
  <1>4. \A k \in Key : Working(u, k)' <=> Working(u, k)
    BY <1>1 DEF Working, NextAt
  <1> QED BY <1>1, <1>2, <1>3, <1>4

\* Start vectors do not change after the start.
LEMMA Vectors ==
  ASSUME TsInv, NEW t \in Tx, Step(t)
  PROVE  /\ \A u \in Tx : u # t => vec'[u] = vec[u]
         /\ tx[t].pc # "idle" => vec' = vec
  <1>1. KeepsClocks(t) \/ Begin(t) \/ GetCommitTs(t) \/ CommitTs(t)
    BY StepKinds DEF TsInv
  <1>2. CASE KeepsClocks(t) BY <1>2 DEF KeepsClocks, SameClocks
  <1>3. CASE Begin(t)
    <2>1. tx[t].pc = "idle" /\ vec \in [Tx -> [Part -> Nat]]
      BY <1>3 DEF Begin, TsInv, LockInv, SITypeOK
    <2> QED BY <1>3, <2>1 DEF Begin
  <1>4. CASE GetCommitTs(t) \/ CommitTs(t) BY <1>4 DEF GetCommitTs, CommitTs, TakeTs, EndTs
  <1> QED BY <1>1, <1>2, <1>3, <1>4

\* The views of the history and of the old versions.
LEMMA SameTop ==
  ASSUME SameVersions, NEW k \in Key
  PROVE  /\ TopVer(k)' = TopVer(k) /\ \A m : Chain(k, m)' <=> Chain(k, m)
         /\ \A s, v : Logged(k, s, v)' <=> Logged(k, s, v)
         /\ log' = log /\ node'[k].seq = node[k].seq /\ node'[k].old = node[k].old
         /\ node'[k].value = node[k].value
BY DEF SameVersions, TopVer, Chain, Logged

\* Without an install in progress t is inside none.
LEMMA NothingSwapped ==
  ASSUME HistInv, NEW t \in Tx, NoInstall(t)
  PROVE  tx[t].swapped = {} /\ tx'[t].swapped = {}
BY DEF HistInv, Books, Swapped, NoInstall

\* A step that installs nothing keeps the invariant of each node ...
LEMMA NoInstallNode ==
  ASSUME HistInv, NEW t \in Tx, Preserved(t), NoInstall(t), NEW k \in Key
  PROVE  NodeInv(k)'
  <1>1. SameVersions /\ ~Working(t, k) BY DEF NoInstall
  <1>2. \A u \in Tx : u # t => tx'[u] = tx[u] /\ (Working(u, k)' <=> Working(u, k))
    BY OtherViews DEF Preserved, Alone
  <1>3. NodeInv(k) BY DEF HistInv
  <1>4. /\ TopVer(k)' = TopVer(k) /\ log' = log /\ \A m : Chain(k, m)' <=> Chain(k, m)
        /\ node'[k].seq = node[k].seq /\ node'[k].value = node[k].value
    BY <1>1, SameTop
  <1>5. CASE node[k].seq # Busy
    <2>1. Settled(k) BY <1>3, <1>5 DEF NodeInv
    <2>2. \A u \in Tx : Working(u, k)' => PartOf[k] \notin tx'[u].swapped
      BY <1>2, <2>1, NothingSwapped DEF Settled
    <2>3. Chain(k, Len(log[k]) - 1)' BY <1>4, <2>1 DEF Settled
    <2>4. Settled(k)' BY <1>4, <2>1, <2>2, <2>3 DEF Settled
    <2> QED BY <1>4, <1>5, <2>4 DEF NodeInv
  <1>6. CASE node[k].seq = Busy
    <2>1. PICK u \in Tx : Changing(k, u) BY <1>3, <1>6 DEF NodeInv
    <2>2. u # t /\ u # NoTx BY <1>1, <2>1, SIAssumption DEF Changing
    <2>3. node'[k].lock = u BY <2>1, <2>2 DEF Changing, Preserved, LockStep
    <2>4. tx'[u] = tx[u] /\ Working(u, k)' BY <1>2, <2>1, <2>2 DEF Changing
    <2>5. /\ Chain(k, Len(log[k])) => Chain(k, Len(log[k]))'
          /\ Chain(k, Len(log[k]) - 1) => Chain(k, Len(log[k]) - 1)'
      BY <1>4
    <2>6. Changing(k, u)' BY <1>4, <2>1, <2>3, <2>4, <2>5 DEF Changing
    <2> QED BY <1>4, <1>6, <2>6 DEF NodeInv
  <1> QED BY <1>5, <1>6

\* ... and of each history.
LEMMA NoInstallLog ==
  ASSUME HistInv, NEW t \in Tx, Preserved(t), NoInstall(t), NEW k \in Key
  PROVE  LogInv(k)'
  <1>1. log' = log /\ LogInv(k) BY DEF NoInstall, SameVersions, HistInv
  <1>2. ASSUME NEW j \in DOMAIN log[k] PROVE Entry(k, log[k][j])'
    <2> DEFINE e == log[k][j]
    <2>1. Entry(k, e) BY <1>1 DEF LogInv
    <2>2. ASSUME e.by \in Tx, tx[e.by].pc \in Stamped, e.ver = tx[e.by].commit_ts,
                 node[k].lock # e.by
          PROVE  /\ tx'[e.by].pc \in Stamped /\ e.ver = tx'[e.by].commit_ts
                 /\ node'[k].lock # e.by
      <3> HIDE DEF e
      <3>1. CASE e.by = t
        <4>1. tx[t].pc \notin {"lock_remote", "lock_all"} BY <2>2, <3>1 DEF Stamped
        <4> QED BY <2>2, <3>1, <4>1 DEF NoInstall
      <3>2. CASE e.by # t
        <4>1. tx'[e.by] = tx[e.by] BY <2>2, <3>2 DEF Preserved, Alone
        <4>2. e.by # NoTx BY <2>2, SIAssumption
        <4> QED BY <2>2, <3>2, <4>1, <4>2 DEF Preserved, LockStep
      <3> QED BY <3>1, <3>2
    <2> QED BY <1>1, <2>1, <2>2 DEF Entry
  <1> QED BY <1>1, <1>2 DEF LogInv

\* The other transactions see nothing of the step.
LEMMA NoInstallOthers ==
  ASSUME HistInv, NEW t \in Tx, Step(t), Preserved(t), NoInstall(t), NEW u \in Tx, u # t
  PROVE  Books(u)'
  <1>1. tx'[u] = tx[u] /\ Books(u) BY DEF Preserved, Alone, HistInv
  <1>2. SameVersions /\ LockInv /\ SITypeOK BY DEF NoInstall, HistInv, TsInv, LockInv
  <1>3. vec'[u] = vec[u] BY Vectors DEF HistInv
  <1>4. \A s : Sees(u, s)' <=> Sees(u, s) BY <1>3 DEF Sees
  <1>5. /\ \A i \in DOMAIN tx[u].rwset : tx[u].rwset[i].key \in Key
        /\ \A i \in DOMAIN tx[u].rset : tx[u].rset[i].key \in Key
    BY <1>2, LocalItem, RemoteItem
  <1>6. Swapped(u)' BY <1>1, OtherViews DEF Books, Swapped
  <1>7. Held(u)'
    <2>1. Held(u) BY <1>1 DEF Books
    <2>2. LocalHeld(u)' = LocalHeld(u) /\ RemoteHeld(u)' = RemoteHeld(u)
      BY <1>1, OtherViews
    <2>3. \A k \in Key : TopVer(k)' = TopVer(k) BY <1>2, SameTop
    <2> QED BY <1>1, <2>1, <2>2, <2>3, <1>2, HeldKeys DEF Held
  <1>8. Unique(u)' BY <1>1, OtherViews DEF Books, Unique
  <1>9. ItemInv(u)'
    <2>1. ItemInv(u) BY <1>1 DEF Books
    <2>2. ASSUME NEW it, it.key \in Key, GoodItem(it) PROVE GoodItem(it)'
      BY <1>2, <2>2, SameTop DEF GoodItem
    <2> QED BY <1>1, <1>5, <2>1, <2>2 DEF ItemInv
  <1>10. ReadInv(u)'
    <2>1. ReadInv(u) BY <1>1 DEF Books
    <2> SUFFICES ASSUME tx[u].pc \in ReadPhase \ {"exec"} PROVE ReadInv(u)'
      BY <1>1 DEF ReadInv
    <2>2. CurKey(u) \in Key
      <3>1. tx[u].prog # <<>> BY <1>2 DEF LockInv, Control
      <3> QED BY <1>2, <3>1, Current
    <2>3. CurKey(u)' = CurKey(u) /\ CurOp(u)' = CurOp(u) BY <1>1, OtherViews
    <2>4. /\ log' = log /\ node'[CurKey(u)].seq = node[CurKey(u)].seq
          /\ node'[CurKey(u)].old = node[CurKey(u)].old
      BY <1>2, <2>2 DEF SameVersions
    <2> QED BY <1>1, <1>4, <2>1, <2>3, <2>4 DEF ReadInv, Logged
  <1>11. Overwrites(u)'
    <2>1. Overwrites(u) /\ log' = log BY <1>1, <1>2 DEF Books, SameVersions
    <2> QED BY <1>1, <2>1 DEF Overwrites, Follows
  <1> QED BY <1>6, <1>7, <1>8, <1>9, <1>10, <1>11 DEF Books

\* What is locked after a step was locked before it, or the lock was free and the
\* version the one that was read.
Checked(it) == node[it.key].lock = NoTx /\ node[it.key].seq = it.seq
HeldStep(t) ==
  /\ tx'[t].pc \in {"lock_all", "commit"} => \A i \in LocalHeld(t)' :
       \/ tx[t].pc \in {"lock_all", "commit"} /\ i \in LocalHeld(t)
       \/ Checked(tx[t].rwset[i])
  /\ \A i \in RemoteHeld(t)' : i \in RemoteHeld(t) \/ Checked(tx[t].rset[i])

\* The phases that hold nothing for good.
LEMMA HoldsNothing ==
  ASSUME NEW t \in Tx,
         tx'[t].pc \notin {"lock_all", "commit", "lock_remote", "commit_remote"}
  PROVE  HeldStep(t)
BY DEF HeldStep, RemoteHeld

\* LockAllSet: what it takes was free and compared.
LEMMA LockAllSetHeld ==
  ASSUME LockInv, NEW t \in Tx, LockAllSet(t) PROVE HeldStep(t)
  <1> DEFINE n == tx[t].i
             it == tx[t].rwset[n]
  <1>1. SITypeOK /\ tx[t].pc = "lock_all" /\ n \in DOMAIN tx[t].rwset
    BY DEF LockInv, LockAllSet
  <1>2. CASE tx'[t].pc = "release_remote" BY <1>2, HoldsNothing
  <1>3. ASSUME NEW c, SameData(t), tx'[t].pc = "lock_all", tx'[t].current = c,
               c = tx[t].current \/ (c = n /\ Checked(it))
        PROVE  HeldStep(t)
    <2>1. LocalWrites(t)' = LocalWrites(t) /\ RemoteWrites(t)' = RemoteWrites(t)
      BY <1>3 DEF SameData, LocalWrites, RemoteWrites
    <2>2. RemoteHeld(t)' = RemoteHeld(t) BY <1>1, <1>3, <2>1 DEF RemoteHeld
    <2>3. LocalHeld(t)' = {i \in LocalWrites(t) : i <= c} BY <1>3, <2>1 DEF LocalHeld
    <2>4. LocalHeld(t) = {i \in LocalWrites(t) : i <= tx[t].current} BY <1>1 DEF LocalHeld
    <2>5. \A i \in LocalWrites(t) : i < n => i <= tx[t].current BY <1>1 DEF LockInv, Control
    <2>6. \A i \in LocalHeld(t)' : i \in LocalHeld(t) \/ Checked(tx[t].rwset[i])
      BY <1>3, <2>3, <2>4, <2>5, Indices
    <2> QED BY <1>1, <2>2, <2>6 DEF HeldStep
  <1>4. CASE /\ UNCHANGED node
             /\ EndTo(t, "lock_all", tx[t].current, tx[t].i + 1, tx[t].todo, tx[t].ok,
                      tx[t].swapped, tx[t].commit_ts)
    BY <1>3, <1>4 DEF EndTo
  <1>5. CASE /\ node[it.key].lock = NoTx /\ node[it.key].seq = it.seq
             /\ EndTo(t, "lock_all", tx[t].i, tx[t].i + 1, tx[t].todo, tx[t].ok,
                      tx[t].swapped, tx[t].commit_ts)
    BY <1>3, <1>5 DEF EndTo, Checked
  <1>6. \/ tx'[t].pc = "release_remote"
        \/ /\ UNCHANGED node
           /\ EndTo(t, "lock_all", tx[t].current, tx[t].i + 1, tx[t].todo, tx[t].ok,
                    tx[t].swapped, tx[t].commit_ts)
        \/ /\ node[it.key].lock = NoTx /\ node[it.key].seq = it.seq
           /\ EndTo(t, "lock_all", tx[t].i, tx[t].i + 1, tx[t].todo, tx[t].ok,
                    tx[t].swapped, tx[t].commit_ts)
    BY <1>1, LockAllSetEffect DEF EndTo
  <1> QED BY <1>2, <1>4, <1>5, <1>6

\* So is what lock_rpc_handler takes.
LEMMA LockRpcHandlerHeld ==
  ASSUME LockInv, NEW t \in Tx, NEW i \in tx[t].todo, LockRpcHandler(t, i)
  PROVE  HeldStep(t)
  <1> DEFINE it == tx[t].rset[i]
  <1>1. SITypeOK /\ tx[t].pc = "lock_remote" BY DEF LockInv, LockRpcHandler
  <1>2. \/ SameData(t) /\ tx'[t].pc = "lock_remote" /\ tx'[t].ok = FALSE
        \/ /\ SameData(t) /\ tx'[t].pc = "lock_remote" /\ Checked(it)
           /\ tx'[t].ok = tx[t].ok /\ tx'[t].todo = Left(t, i)
    BY <1>1, LockRpcHandlerEffect DEF EndTo, Checked, TakesLock
  <1>3. RemoteWrites(t)' = RemoteWrites(t) BY <1>2 DEF SameData, RemoteWrites
  <1>4. \A j \in RemoteHeld(t)' : j \in RemoteHeld(t) \/ Checked(tx[t].rset[j])
    BY <1>1, <1>2, <1>3 DEF RemoteHeld, Left
  <1> QED BY <1>2, <1>4 DEF HeldStep

\* When all is locked, every local write is.
LEMMA GetCommitTsHeld ==
  ASSUME LockInv, NEW t \in Tx, GetCommitTs(t)
  PROVE  /\ HeldStep(t) /\ LocalHeld(t) = LocalWrites(t) /\ RemoteHeld(t) = RemoteWrites(t)
  <1>1. SITypeOK /\ tx[t].pc = "lock_all" /\ tx[t].i \notin DOMAIN tx[t].rwset
    BY DEF LockInv, GetCommitTs
  <1>2. SameData(t) /\ tx'[t].pc = "commit" BY <1>1, GetCommitTsEffect DEF EndTo
  <1>3. RemoteHeld(t) = RemoteWrites(t) BY <1>1 DEF RemoteHeld
  <1>4. LocalHeld(t) = LocalWrites(t)
    <2>1. \A j \in LocalWrites(t) : j < tx[t].i => j <= tx[t].current
      BY <1>1 DEF LockInv, Control
    <2>2. \A j \in LocalWrites(t) : j < tx[t].i BY <1>1, Indices
    <2> QED BY <1>1, <2>1, <2>2 DEF LocalHeld
  <1>5. LocalHeld(t)' \subseteq LocalWrites(t) /\ RemoteHeld(t)' \subseteq RemoteWrites(t)
    BY <1>2 DEF LocalHeld, RemoteHeld, LocalWrites, RemoteWrites, SameData
  <1> QED BY <1>1, <1>2, <1>3, <1>4, <1>5 DEF HeldStep

\* The steps of the commit path take no lock.
LEMMA CommitHeld ==
  ASSUME LockInv, NEW t \in Tx, SameData(t), tx[t].pc \in {"commit", "commit_remote"},
         tx'[t].pc \in {"commit", "commit_remote"},
         \/ tx'[t].pc = "commit" /\ tx[t].pc = "commit" /\ tx'[t].i \in Nat /\ tx[t].i <= tx'[t].i
         \/ tx'[t].pc = "commit_remote" /\ tx[t].pc = "commit"
         \/ tx'[t].pc = "commit_remote" /\ tx'[t].todo \subseteq tx[t].todo
  PROVE  HeldStep(t)
  <1>1. LocalWrites(t)' = LocalWrites(t) /\ RemoteWrites(t)' = RemoteWrites(t)
    BY DEF SameData, LocalWrites, RemoteWrites
  <1>2. RemoteHeld(t)' \subseteq RemoteHeld(t) BY <1>1 DEF RemoteHeld
  <1>3. tx'[t].pc = "commit" => LocalHeld(t)' \subseteq LocalHeld(t)
    BY <1>1, Indices DEF LocalHeld
  <1> QED BY <1>2, <1>3 DEF HeldStep

\* Installs only shrink what is held.
LEMMA InstallHeld ==
  ASSUME LockInv, NEW t \in Tx, Installs(t) PROVE HeldStep(t)
  <1>1. ASSUME NEW it, NEW ver, NEW i, NEW todo,
               Hides(t, it) \/ Swaps(t, it, ver) \/ Publishes(t, it, i, todo)
        PROVE  /\ SameData(t) /\ tx'[t].pc = tx[t].pc
               /\ tx'[t].i = tx[t].i \/ tx'[t].i = i
               /\ tx'[t].todo = tx[t].todo \/ tx'[t].todo = todo
    BY <1>1 DEF Hides, Swaps, Publishes, EndTo
  <1>2. CASE tx[t].pc = "commit"
    <2>1. SameData(t) /\ tx'[t].pc = "commit" /\ (tx'[t].i = tx[t].i \/ tx'[t].i = tx[t].i + 1)
      BY <1>1, <1>2 DEF Installs
    <2> QED BY <1>2, <2>1, Indices, CommitHeld
  <1>3. CASE tx[t].pc = "commit_remote"
    <2>1. PICK i \in tx[t].todo, it \in Item :
            \/ Hides(t, it) \/ Swaps(t, it, node[it.key].seq)
            \/ Publishes(t, it, tx[t].i, tx[t].todo \ {i})
      BY <1>3 DEF Installs
    <2>2. SameData(t) /\ tx'[t].pc = "commit_remote" /\ tx'[t].todo \subseteq tx[t].todo
      BY <1>3, <2>1 DEF Hides, Swaps, Publishes, EndTo
    <2> QED BY <1>3, <2>2, CommitHeld
  <1> QED BY <1>2, <1>3 DEF Installs

\* Every step.
LEMMA HeldSteps ==
  ASSUME LockInv, NEW t \in Tx, Step(t) PROVE HeldStep(t)
  <1>1. SITypeOK BY DEF LockInv
  <1>2. CASE Begin(t) BY <1>1, <1>2, BeginEffect, HoldsNothing
  <1>3. CASE Read(t)
    <2>1. tx'[t].pc \in ReadPhase \cup {"ro_done", "stopped"} BY <1>3, ReadFields
    <2> QED BY <2>1, HoldsNothing DEF ReadPhase
  <1>4. CASE Installs(t) BY <1>4, InstallHeld
  <1>5. CASE End(t)
    <2>1. SameData(t) /\ tx'[t].pc = "lock_remote" /\ tx'[t].todo = RemoteWrites(t)
      BY <1>1, <1>5, EndEffect DEF EndTo
    <2>2. RemoteHeld(t)' = {} BY <2>1 DEF RemoteHeld, RemoteWrites, SameData
    <2> QED BY <2>1, <2>2 DEF HeldStep
  <1>6. CASE LockReplies(t)
    <2>1. /\ SameData(t) /\ tx[t].pc = "lock_remote" /\ tx[t].todo = {}
          /\ \/ tx'[t].pc = "release_remote"
             \/ tx[t].ok /\ tx'[t].pc = "lock_all" /\ tx'[t].current = tx[t].current
      BY <1>1, <1>6, LockRepliesEffect DEF EndTo, LockReplies
    <2>2. CASE tx'[t].pc = "release_remote" BY <2>2, HoldsNothing
    <2>3. CASE tx[t].ok /\ tx'[t].pc = "lock_all" /\ tx'[t].current = tx[t].current
      <3>1. tx'[t].current = 0 BY <2>1, <2>3 DEF LockInv, Control
      <3>2. LocalWrites(t)' = LocalWrites(t) /\ RemoteWrites(t)' = RemoteWrites(t)
        BY <2>1 DEF SameData, LocalWrites, RemoteWrites
      <3>3. LocalHeld(t)' = {} BY <2>3, <3>1, <3>2, Indices DEF LocalHeld
      <3>4. RemoteHeld(t)' = RemoteHeld(t) BY <2>1, <2>3, <3>2 DEF RemoteHeld
      <3> QED BY <3>3, <3>4 DEF HeldStep
    <2> QED BY <2>1, <2>2, <2>3
  <1>7. CASE ReleaseReplies(t)
    <2>1. tx'[t].pc = "release_all" BY <1>1, <1>7, ReleaseRepliesEffect DEF EndTo
    <2> QED BY <2>1, HoldsNothing
  <1>8. CASE ReleaseAllSet(t)
    <2>1. tx'[t].pc \in {"release_all", "aborted"} BY <1>1, <1>8, ReleaseAllSetEffect DEF EndTo
    <2> QED BY <2>1, HoldsNothing
  <1>9. CASE CommitReplies(t) \/ CommitTs(t)
    <2>1. tx'[t].pc \in {"report", "committed"}
      BY <1>1, <1>9, CommitRepliesEffect, CommitTsEffect DEF EndTo
    <2> QED BY <2>1, HoldsNothing
  <1>10. CASE CommitRemote(t)
    <2>1. SameData(t) /\ tx'[t].pc = "commit_remote" /\ tx[t].pc = "commit"
      BY <1>1, <1>10, CommitRemoteEffect DEF EndTo, CommitRemote
    <2> QED BY <2>1, CommitHeld
  <1>11. CASE CommitLocalWrite(t)
    <2> DEFINE it == tx[t].rwset[tx[t].i]
    <2>1. tx[t].pc = "commit" /\ tx[t].i \in DOMAIN tx[t].rwset BY <1>11 DEF CommitLocalWrite
    <2>2. CASE EndTo(t, "commit", tx[t].current, tx[t].i + 1, tx[t].todo, tx[t].ok,
                     tx[t].swapped, tx[t].commit_ts)
      <3>1. SameData(t) /\ tx'[t].pc = "commit" /\ tx'[t].i = tx[t].i + 1
        BY <2>2 DEF EndTo
      <3> QED BY <2>1, <3>1, CommitHeld, Indices
    <2>3. CASE it.w /\ (\/ Hides(t, it) \/ Swaps(t, it, it.seq)
                        \/ Publishes(t, it, tx[t].i + 1, tx[t].todo))
      <3>1. it \in Item /\ tx[t].i \in LocalWrites(t)
        BY <1>1, <2>1, <2>3, LocalItem DEF LocalWrites
      <3> QED BY <1>4, <2>1, <2>3, <3>1 DEF Installs
    <2> QED BY <1>1, <1>11, <2>2, <2>3, CommitLocalWriteEffect
  <1>12. ASSUME NEW i \in tx[t].todo, CommitRpcHandler(t, i) PROVE HeldStep(t)
    <2>1. i \in DOMAIN tx[t].rset /\ tx[t].rset[i] \in Item BY NextAtItem
    <2>2. NextAt(t, i) /\ tx[t].pc = "commit_remote" BY <1>12 DEF CommitRpcHandler
    <2> QED BY <1>1, <1>4, <1>12, <2>1, <2>2, CommitRpcHandlerEffect DEF Installs
  <1>13. ASSUME NEW i \in tx[t].todo, ReleaseRpcHandler(t, i) PROVE HeldStep(t)
    <2>1. tx'[t].pc = "release_remote" BY <1>1, <1>13, ReleaseRpcHandlerEffect DEF EndTo
    <2> QED BY <2>1, HoldsNothing
  <1>14. CASE Serve(t) BY <1>12, <1>13, <1>14, LockRpcHandlerHeld DEF Serve
  <1>15. CASE EndSteps(t)
    BY <1>5, <1>6, <1>7, <1>8, <1>9, <1>10, <1>11, <1>15, LockAllSetHeld, GetCommitTsHeld
       DEF EndSteps
  <1> QED BY <1>2, <1>3, <1>14, <1>15 DEF Step

\* A version compared under a lock is the newest one.
LEMMA NoInstallHeld ==
  ASSUME HistInv, NEW t \in Tx, Step(t), Preserved(t), NoInstall(t)
  PROVE  Held(t)'
  <1>1. LockInv /\ SITypeOK /\ SameVersions /\ Held(t) /\ HeldStep(t)
    BY HeldSteps DEF HistInv, TsInv, LockInv, NoInstall, Books
  <1>2. CASE Begin(t) \/ Read(t)
    <2>1. tx'[t].pc \in ReadPhase \cup {"ro_done", "stopped"}
      BY <1>1, <1>2, BeginEffect, ReadFields DEF ReadPhase
    <2>2. RemoteHeld(t)' = {} BY <2>1 DEF RemoteHeld, ReadPhase
    <2> QED BY <2>1, <2>2 DEF Held, ReadPhase
  <1>3. CASE InEnd(t)
    <2>1. /\ tx'[t].rwset = tx[t].rwset /\ tx'[t].rset = tx[t].rset
          /\ LocalWrites(t)' = LocalWrites(t) /\ RemoteWrites(t)' = RemoteWrites(t)
      BY <1>3 DEF InEnd, SameData, LocalWrites, RemoteWrites
    <2>2. /\ \A i \in LocalWrites(t) : tx[t].rwset[i].key \in Key
          /\ \A i \in RemoteWrites(t) : tx[t].rset[i].key \in Key
      BY <1>1, LocalItem, RemoteItem DEF LocalWrites, RemoteWrites
    <2>3. \A k \in Key : TopVer(k)' = TopVer(k) BY <1>1, SameTop
    <2>4. ASSUME NEW it, it.key \in Key, Checked(it) PROVE it.seq = TopVer(it.key)
      BY <2>4, SIAssumption, FreeIsSettled DEF Checked, Settled
    <2>5. LocalHeld(t)' \subseteq LocalWrites(t) /\ RemoteHeld(t)' \subseteq RemoteWrites(t)
      BY <2>1 DEF LocalHeld, RemoteHeld
    <2>6. ASSUME tx'[t].pc \in {"lock_all", "commit"}, NEW i \in LocalHeld(t)'
          PROVE  tx[t].rwset[i].seq = TopVer(tx[t].rwset[i].key)
      BY <1>1, <2>2, <2>4, <2>5, <2>6 DEF HeldStep, Held
    <2>7. ASSUME NEW i \in RemoteHeld(t)'
          PROVE  tx[t].rset[i].seq = TopVer(tx[t].rset[i].key)
      BY <1>1, <2>2, <2>4, <2>5, <2>7 DEF HeldStep, Held
    <2> QED BY <2>1, <2>2, <2>3, <2>5, <2>6, <2>7 DEF Held
  <1> QED BY <1>1, <1>2, <1>3, StepKinds

\* A commit timestamp is taken when everything is locked.
LEMMA StepUnique ==
  ASSUME HistInv, NEW t \in Tx, Step(t) PROVE Unique(t)'
  <1>1. LockInv /\ SITypeOK /\ Unique(t) BY DEF HistInv, TsInv, LockInv, Books
  <1> SUFFICES ASSUME tx'[t].pc \in Stamped PROVE Unique(t)' BY DEF Unique
  <1>2. InEnd(t) /\ ~Begin(t)
    <2>1. CASE Begin(t) \/ Read(t)
      BY <1>1, <2>1, BeginEffect, ReadFields DEF Stamped, ReadPhase
    <2> QED BY <1>1, <2>1, StepKinds
  <1>3. /\ tx'[t].rwset = tx[t].rwset /\ tx'[t].rset = tx[t].rset
        /\ LocalWrites(t)' = LocalWrites(t) /\ RemoteWrites(t)' = RemoteWrites(t)
    BY <1>2 DEF InEnd, SameData, LocalWrites, RemoteWrites
  <1>4. CASE tx[t].pc \in Stamped BY <1>1, <1>3, <1>4 DEF Unique
  <1>5. CASE GetCommitTs(t)
    <2>1. Locks(t) BY <1>1 DEF LockInv
    <2> QED BY <1>1, <1>3, <1>5, <2>1, GetCommitTsHeld DEF Locks, Unique
  <1>6. tx[t].pc \in Stamped \/ GetCommitTs(t)
    <2>1. KeepsClocks(t) \/ GetCommitTs(t) \/ CommitTs(t) BY <1>1, <1>2, StepKinds
    <2> QED BY <2>1 DEF KeepsClocks, CommitTs, Stamped, Installing
  <1> QED BY <1>4, <1>5, <1>6

\* Adding a version of the record, or nothing, to a set.
LEMMA GetsItems ==
  ASSUME HistInv, NEW t \in Tx, NEW s, NEW v, Gets(t, s, v), log' = log,
         v = Null \/ s = Busy \/ Logged(CurKey(t), s, v)
  PROVE  ItemInv(t)'
  <1>1. SITypeOK /\ ItemInv(t) BY DEF HistInv, TsInv, LockInv, Books
  <1>2. tx[t].rwset \in Seq(Item) /\ tx[t].rset \in Seq(Item) BY <1>1, Fields
  <1> DEFINE it == GotItem(t, s, v)
  <1>3. GoodItem(it)
    BY DEF GoodItem, GotItem
  <1> HIDE DEF it
  <1>4. \A x : GoodItem(x) => GoodItem(x)' BY DEF GoodItem, Logged
  <1>5. CASE tx'[t].rwset = tx[t].rwset /\ tx'[t].rset = tx[t].rset
    BY <1>1, <1>4, <1>5 DEF ItemInv
  <1>6. CASE tx'[t].rwset = Append(tx[t].rwset, it) /\ tx'[t].rset = tx[t].rset
    <2>1. \A i \in DOMAIN tx'[t].rwset : GoodItem(tx'[t].rwset[i])
      BY <1>1, <1>2, <1>3, <1>6, Appended DEF ItemInv
    <2> QED BY <1>1, <1>4, <1>6, <2>1 DEF ItemInv
  <1>7. CASE tx'[t].rset = Append(tx[t].rset, it) /\ tx'[t].rwset = tx[t].rwset
    <2>1. \A i \in DOMAIN tx'[t].rset : GoodItem(tx'[t].rset[i])
      BY <1>1, <1>2, <1>3, <1>7, Appended DEF ItemInv
    <2> QED BY <1>1, <1>4, <1>7, <2>1 DEF ItemInv
  <1> QED BY <1>5, <1>6, <1>7 DEF Gets, it

\* What a settled node shows is a version of the record.
LEMMA NodeShows ==
  ASSUME HistInv, NEW k \in Key
  PROVE  /\ node[k].value = Null \/ node[k].seq = Busy
              \/ Logged(k, node[k].seq, node[k].value)
         /\ node[k].seq \in {Busy, NoVer} \/ \E j \in DOMAIN log[k] : log[k][j].ver = node[k].seq
         /\ \A j \in DOMAIN node[k].old : Logged(k, node[k].old[j].ver, node[k].old[j].by)
  <1>1. NodeInv(k) BY DEF HistInv
  <1>2. Len(log[k]) \in Nat /\ DOMAIN log[k] = 1..Len(log[k]) BY TopVersion
  <1>3. ASSUME NEW m \in Int, m <= Len(log[k]), Chain(k, m)
        PROVE  \A j \in DOMAIN node[k].old : Logged(k, node[k].old[j].ver, node[k].old[j].by)
    <2> TAKE j \in DOMAIN node[k].old
    <2>1. j \in Nat /\ 1 <= j
      <3>1. node[k].old \in Seq(Version)
        BY DEF HistInv, TsInv, LockInv, SITypeOK, MemNode
      <3> QED BY <3>1
    <2>2. j <= m /\ node[k].old[j] = log[k][m + 1 - j] BY <1>3 DEF Chain
    <2>3. m + 1 - j \in DOMAIN log[k] BY <1>2, <1>3, <2>1, <2>2
    <2> QED BY <2>2, <2>3 DEF Logged
  <1>4. CASE node[k].seq = Busy
    <2>1. Chain(k, Len(log[k])) \/ Chain(k, Len(log[k]) - 1)
      BY <1>1, <1>4 DEF NodeInv, Changing
    <2> QED BY <1>2, <1>3, <1>4, <2>1
  <1>5. CASE node[k].seq # Busy
    <2>1. Settled(k) BY <1>1, <1>5 DEF NodeInv
    <2>2. \A j \in DOMAIN node[k].old : Logged(k, node[k].old[j].ver, node[k].old[j].by)
      BY <1>2, <1>3, <2>1 DEF Settled
    <2>3. node[k].value = Null \/ Logged(k, node[k].seq, node[k].value)
      BY <2>1, TopVersion DEF Settled, Logged
    <2>4. node[k].seq = NoVer \/ \E j \in DOMAIN log[k] : log[k][j].ver = node[k].seq
      BY <1>2, <2>1, TopVersion DEF Settled
    <2> QED BY <2>2, <2>3, <2>4
  <1> QED BY <1>4, <1>5

\* Every item a read adds is good.
LEMMA ReadItems ==
  ASSUME HistInv, NEW t \in Tx, Read(t) PROVE ItemInv(t)'
  <1>1. LockInv /\ SITypeOK /\ ItemInv(t) /\ ReadInv(t) BY DEF HistInv, TsInv, LockInv, Books
  <1>2. /\ Alone(t) /\ SameEnd(t) /\ tx[t].pc \in ReadPhase /\ tx[t].prog # <<>>
        /\ log' = log
    BY <1>1, ReadFields
  <1>3. CurKey(t) \in Key BY <1>1, <1>2, Current
  <1>4. CASE Loads(t) BY <1>1, <1>2, <1>4 DEF ItemInv, Loads, GoodItem, Logged
  <1>5. ASSUME NEW s, Gets(t, s, Null) PROVE ItemInv(t)' BY <1>2, <1>5, GetsItems
  <1>6. CASE Gets(t, node[CurKey(t)].seq, node[CurKey(t)].value)
    BY <1>2, <1>3, <1>6, GetsItems, NodeShows
  <1>7. CASE Walks(t, node[CurKey(t)].old)
    BY <1>2, <1>3, <1>5, <1>7, GetsItems, NodeShows DEF Walks
  <1>8. CASE ReadSeq(t) BY <1>1, <1>4, <1>5, <1>8, ReadSeqEffect
  <1>9. CASE ReadValue(t) BY <1>1, <1>2, <1>4, <1>9, ReadValueEffect
  <1>10. CASE ReadCheck(t)
    <2>1. tx[t].pc = "chk" BY <1>10 DEF ReadCheck
    <2>2. CASE tx[t].seq # Busy /\ node[CurKey(t)].seq = tx[t].seq /\ tx[t].val # Null
               /\ Gets(t, tx[t].seq, tx[t].val)
      <3>1. Logged(CurKey(t), tx[t].seq, tx[t].val)
        BY <1>1, <2>1, <2>2 DEF ReadInv, ReadPhase
      <3> QED BY <1>2, <2>2, <3>1, GetsItems
    <2>3. CASE tx[t].val = Null /\ Gets(t, NoVer, tx[t].val) BY <1>5, <2>3
    <2> QED BY <1>1, <1>2, <1>4, <1>10, <2>2, <2>3, ReadCheckEffect
  <1>11. CASE ReadOld(t) BY <1>1, <1>2, <1>4, <1>7, <1>11, ReadOldEffect
  <1>12. CASE RoOldCheck(t)
    <2>1. tx[t].pc = "ochk" BY <1>12 DEF RoOldCheck
    <2>2. CASE node[CurKey(t)].seq = tx[t].seq /\ Walks(t, tx[t].chain)
      <3>1. tx[t].chain = node[CurKey(t)].old
        BY <1>1, <2>1, <2>2 DEF ReadInv, ReadPhase
      <3> QED BY <1>7, <2>2, <3>1
    <2> QED BY <1>1, <1>2, <1>4, <1>12, <2>2, RoOldCheckEffect
  <1>13. CASE Insert(t) BY <1>1, <1>6, <1>13, InsertEffect
  <1>14. ASSUME NEW j \in DOMAIN tx[t].rwset, Marks(t, j) PROVE ItemInv(t)'
    <2> DEFINE it == [tx[t].rwset[j] EXCEPT !.kind = "del", !.w = TRUE]
    <2>1. tx[t].rwset \in Seq(Item) /\ tx[t].rwset[j] \in Item BY <1>1, Fields, LocalItem
    <2>2. /\ it.key = tx[t].rwset[j].key /\ it.seq = tx[t].rwset[j].seq
          /\ it.by = tx[t].rwset[j].by /\ it.w
      BY <2>1 DEF Item
    <2>3. tx'[t].rwset = [tx[t].rwset EXCEPT ![j] = it] /\ tx'[t].rset = tx[t].rset
      BY <1>14 DEF Marks
    <2> HIDE DEF it
    <2>4. GoodItem(it) BY <1>1, <2>2 DEF ItemInv, GoodItem
    <2>5. \A i \in DOMAIN tx'[t].rwset : GoodItem(tx'[t].rwset[i])
      BY <1>1, <2>1, <2>3, <2>4 DEF ItemInv
    <2>6. \A x : GoodItem(x) => GoodItem(x)' BY <1>2 DEF GoodItem, Logged
    <2> QED BY <1>1, <2>3, <2>5, <2>6 DEF ItemInv
  <1>15. CASE Delete(t) BY <1>1, <1>6, <1>14, <1>15, DeleteEffect
  <1> QED BY <1>8, <1>9, <1>10, <1>11, <1>12, <1>13, <1>15 DEF Read

\* A vector that is in use covers the constants.
LEMMA SeesConstants ==
  ASSUME TsInv, NEW t \in Tx, tx[t].pc # "idle"
  PROVE  Sees(t, Busy) /\ Sees(t, NoVer) /\ Sees(t, First)
  <1>1. 0 \in Part /\ vec[t][0] >= 2 BY SIAssumption DEF TsInv, Clocks
  <1>2. vec[t][0] \in Nat BY <1>1 DEF TsInv, LockInv, SITypeOK
  <1> QED BY <1>1, <1>2 DEF Sees, Busy, NoVer, First

\* What a read under way remembers.
LEMMA ReadReadInv ==
  ASSUME HistInv, NEW t \in Tx, Read(t) PROVE ReadInv(t)'
  <1>1. LockInv /\ SITypeOK /\ ReadInv(t) /\ TsInv BY DEF HistInv, TsInv, LockInv, Books
  <1>2. /\ tx[t].pc \in ReadPhase /\ tx[t].prog # <<>> /\ UNCHANGED <<node, log, vec>>
    BY <1>1, ReadFields
  <1>3. CurKey(t) \in Key BY <1>1, <1>2, Current
  <1>4. CASE tx'[t].pc \notin ReadPhase \ {"exec"} BY <1>4 DEF ReadInv
  <1>5. ASSUME NEW s, NEW v, Gets(t, s, v) PROVE ReadInv(t)'
    BY <1>4, <1>5 DEF Gets, ReadPhase
  <1>6. ASSUME tx'[t].prog = tx[t].prog
        PROVE  /\ CurKey(t)' = CurKey(t) /\ CurOp(t)' = CurOp(t)
               /\ \A s : Sees(t, s)' <=> Sees(t, s)
    BY <1>2, <1>6 DEF CurKey, CurOp, Sees
  <1>7. ASSUME NEW c, Walks(t, c) PROVE ReadInv(t)' BY <1>5, <1>7 DEF Walks
  <1>8. CASE ReadSeq(t)
    <2>1. CASE /\ tx'[t].prog = tx[t].prog /\ tx'[t].seq = node[CurKey(t)].seq
               /\ tx'[t].pc = IF ReadsNewest(t) \/ Sees(t, node[CurKey(t)].seq)
                              THEN "val" ELSE "old"
      <3>1. \/ node[CurKey(t)].seq \in {Busy, NoVer}
            \/ \E j \in DOMAIN log[CurKey(t)] : log[CurKey(t)][j].ver = node[CurKey(t)].seq
        BY <1>3, NodeShows
      <3>2. /\ CurKey(t)' = CurKey(t) /\ CurOp(t)' = CurOp(t)
            /\ \A s : Sees(t, s)' <=> Sees(t, s)
        BY <1>6, <2>1
      <3>3. CASE tx'[t].pc = "val" BY <1>2, <2>1, <3>1, <3>2, <3>3 DEF ReadInv, ReadsNewest
      <3>4. CASE tx'[t].pc = "old" BY <1>2, <2>1, <3>1, <3>2, <3>4 DEF ReadInv
      <3> QED BY <2>1, <3>3, <3>4
    <2> QED BY <1>1, <1>5, <1>8, <2>1, ReadSeqEffect
  <1>9. CASE ReadValue(t)
    <2>1. tx[t].pc = "val" BY <1>9 DEF ReadValue
    <2>2. CASE /\ tx'[t].pc = "chk" /\ tx'[t].prog = tx[t].prog /\ tx'[t].seq = tx[t].seq
               /\ tx'[t].val = node[CurKey(t)].value /\ (tx'[t].val # Null \/ ReadsNewest(t))
      <3>1. /\ CurKey(t)' = CurKey(t) /\ CurOp(t)' = CurOp(t)
            /\ \A s : Sees(t, s)' <=> Sees(t, s)
        BY <1>6, <2>2
      <3>2. \/ node[CurKey(t)].value = Null \/ node[CurKey(t)].seq = Busy
            \/ Logged(CurKey(t), node[CurKey(t)].seq, node[CurKey(t)].value)
        BY <1>3, NodeShows
      <3>3. CurOp(t).kind = "ro" => tx'[t].val # Null BY <2>2 DEF ReadsNewest
      <3>4. /\ tx[t].seq \in {Busy, NoVer}
               \/ \E j \in DOMAIN log[CurKey(t)] : log[CurKey(t)][j].ver = tx[t].seq
            /\ CurOp(t).kind = "ro" => Sees(t, tx[t].seq)
        BY <1>1, <2>1 DEF ReadInv, ReadPhase
      <3> QED BY <1>2, <2>2, <3>1, <3>2, <3>3, <3>4 DEF ReadInv, Logged
    <2> QED BY <1>1, <1>2, <1>4, <1>9, <2>2, ReadValueEffect DEF ReadPhase
  <1>10. CASE ReadCheck(t)
    BY <1>1, <1>2, <1>4, <1>5, <1>10, ReadCheckEffect
  <1>11. CASE ReadOld(t)
    <2>1. tx[t].pc = "old" BY <1>11 DEF ReadOld
    <2>2. CASE /\ tx'[t].pc = "ochk" /\ tx'[t].prog = tx[t].prog /\ CurOp(t).kind = "ro"
               /\ tx'[t].seq = tx[t].seq /\ tx'[t].chain = node[CurKey(t)].old
      <3>1. /\ CurKey(t)' = CurKey(t) /\ CurOp(t)' = CurOp(t)
            /\ \A s : Sees(t, s)' <=> Sees(t, s)
        BY <1>6, <2>2
      <3> QED BY <1>1, <1>2, <2>1, <2>2, <3>1 DEF ReadInv, ReadPhase
    <2> QED BY <1>1, <1>2, <1>7, <1>11, <2>2, ReadOldEffect
  <1>12. CASE RoOldCheck(t)
    BY <1>1, <1>2, <1>4, <1>7, <1>12, RoOldCheckEffect
  <1>13. CASE Insert(t) BY <1>1, <1>5, <1>13, InsertEffect
  <1>14. CASE Delete(t)
    <2>1. ASSUME NEW j, Marks(t, j) PROVE ReadInv(t)' BY <1>4, <2>1 DEF Marks
    <2> QED BY <1>1, <1>5, <1>14, <2>1, DeleteEffect
  <1> QED BY <1>8, <1>9, <1>10, <1>11, <1>12, <1>13, <1>14 DEF Read

\* The books of the transaction that takes the step.
LEMMA NoInstallOwn ==
  ASSUME HistInv, NEW t \in Tx, Step(t), Preserved(t), NoInstall(t)
  PROVE  Books(t)'
  <1>1. LockInv /\ SITypeOK /\ SameVersions /\ log' = log /\ Books(t)
    BY DEF HistInv, TsInv, LockInv, NoInstall, SameVersions
  <1>2. Swapped(t)' BY NothingSwapped DEF Swapped
  <1>3. Held(t)' /\ Unique(t)' BY NoInstallHeld, StepUnique
  <1>4. CASE Begin(t)
    <2>1. tx'[t].pc = "exec" /\ tx'[t].rwset = <<>> /\ tx'[t].rset = <<>>
      BY <1>1, <1>4, BeginEffect
    <2> QED BY <1>2, <1>3, <2>1 DEF Books, ItemInv, ReadInv, Overwrites
  <1>5. CASE Read(t)
    <2>1. tx[t].pc \notin Stamped BY <1>1, <1>5, ReadFields DEF ReadPhase, Stamped
    <2>2. \A k \in Key : \A j \in DOMAIN log[k] : log[k][j].by # t
      BY <2>1, SIAssumption DEF HistInv, LogInv, Entry
    <2>3. /\ \A i \in DOMAIN tx'[t].rwset : tx'[t].rwset[i].key \in Key
          /\ \A i \in DOMAIN tx'[t].rset : tx'[t].rset[i].key \in Key
      <3>1. SITypeOK' BY DEF Preserved
      <3>2. tx'[t].rwset \in Seq(Item) /\ tx'[t].rset \in Seq(Item)
        BY <3>1 DEF SITypeOK, TxState
      <3>3. ASSUME NEW q \in Seq(Item), NEW i \in DOMAIN q PROVE q[i].key \in Key
        <4>1. q[i] \in Item OBVIOUS
        <4> QED BY <4>1 DEF Item
      <3> QED BY <3>2, <3>3
    <2>4. Overwrites(t)' BY <1>1, <2>2, <2>3 DEF Overwrites, Follows
    <2> QED BY <1>2, <1>3, <1>5, <2>4, ReadItems, ReadReadInv DEF Books
  <1>6. CASE InEnd(t)
    <2>1. /\ tx'[t].rwset = tx[t].rwset /\ tx'[t].rset = tx[t].rset
          /\ tx'[t].pc \notin ReadPhase
      BY <1>6 DEF InEnd, SameData, Free
    <2>2. ReadInv(t)' BY <2>1 DEF ReadInv
    <2>3. ItemInv(t)' BY <1>1, <2>1 DEF Books, ItemInv, GoodItem, Logged
    <2>4. Overwrites(t)' BY <1>1, <2>1 DEF Books, Overwrites, Follows
    <2> QED BY <1>2, <1>3, <2>2, <2>3, <2>4 DEF Books
  <1> QED BY <1>1, <1>4, <1>5, <1>6, StepKinds

-----------------------------------------------------------------------------
(* Installs.                                                                  *)

\* The item is a write of t, on a record that t has locked and has read last.
Own(t, it) == \/ \E i \in LocalWrites(t) : it = tx[t].rwset[i]
              \/ \E i \in RemoteWrites(t) : it = tx[t].rset[i]
Target(t, it) ==
  /\ it \in Item /\ it.key \in Key /\ it.w /\ Own(t, it)
  /\ Working(t, it.key) /\ node[it.key].lock = t /\ it.seq = TopVer(it.key)
  /\ tx[t].pc \in Installing /\ tx'[t].pc = tx[t].pc

\* The work of t on other machines is not affected.
Elsewhere(t, k) ==
  \A h \in Key : h # k =>
    /\ Working(t, h) => Working(t, h)' /\ PartOf[h] # PartOf[k]
    /\ Working(t, h)' /\ PartOf[h] # PartOf[k] => Working(t, h)

\* Hiding and switching go on with the same item, publishing leaves it.
SwapsAny(t, it) == Swaps(t, it, it.seq) \/ Swaps(t, it, node[it.key].seq)
PublishesAny(t, it) == \E i, todo : Publishes(t, it, i, todo)
InstallAt(t, it) ==
  \/ (Hides(t, it) \/ SwapsAny(t, it)) /\ \A h \in Key : Working(t, h)' <=> Working(t, h)
  \/ PublishesAny(t, it) /\ ~Working(t, it.key)'

\* Every install is at a target, and elsewhere nothing changes.
LEMMA InstallItem ==
  ASSUME HistInv, NEW t \in Tx, Installs(t)
  PROVE  \E it : Target(t, it) /\ Elsewhere(t, it.key) /\ InstallAt(t, it)
  <1>1. LockInv /\ SITypeOK /\ Held(t) /\ Unique(t) /\ Control(t)
    BY DEF HistInv, TsInv, LockInv, Books
  <1>2. ASSUME NEW it, Hides(t, it) \/ SwapsAny(t, it)
        PROVE  \A h \in Key : Working(t, h)' <=> Working(t, h)
    <2>1. /\ tx'[t].rwset = tx[t].rwset /\ tx'[t].rset = tx[t].rset /\ tx'[t].pc = tx[t].pc
          /\ tx'[t].i = tx[t].i /\ tx'[t].todo = tx[t].todo
      BY <1>2 DEF Hides, SwapsAny, Swaps, EndTo, SameData
    <2> QED BY <2>1 DEF Working, LocalWrites, NextAt
  <1>3. CASE tx[t].pc = "commit"
    <2>1. tx[t].i \in LocalWrites(t) BY <1>3 DEF Installs
    <2> PICK it : it = tx[t].rwset[tx[t].i] OBVIOUS
    <2>2. it \in Item /\ it.key \in Key /\ it.w BY <1>1, <2>1, LocalItem DEF LocalWrites
    <2>3. Working(t, it.key) /\ Own(t, it) BY <1>3, <2>1 DEF Working, Own
    <2>4. tx[t].i \in LocalHeld(t) BY <1>1, <1>3, <2>1, Indices DEF LocalHeld
    <2>5. it.seq = TopVer(it.key) BY <1>1, <1>3, <2>4 DEF Held
    <2>6. tx'[t].pc = "commit"
      BY <1>3 DEF Installs, Hides, Swaps, Publishes, EndTo
    <2>7. Target(t, it)
      BY <1>1, <1>3, <2>2, <2>3, <2>5, <2>6, WorkingHolds DEF Target, Installing
    <2>8. LocalWrites(t)' = LocalWrites(t) /\ tx'[t].rwset = tx[t].rwset
      BY <1>3 DEF Installs, Hides, Swaps, Publishes, EndTo, SameData, LocalWrites
    <2>9. Elsewhere(t, it.key)
      <3>1. \A h \in Key : Working(t, h) => h = it.key BY <1>3 DEF Working
      <3>2. \A h \in Key : Working(t, h)' => PartOf[h] = Home[t]
        BY <1>1, <2>6, <2>8 DEF Working, Control, IsLocal, LocalWrites
      <3>3. PartOf[it.key] = Home[t] BY <1>1, <2>1 DEF Control, IsLocal, LocalWrites
      <3> QED BY <3>1, <3>2, <3>3 DEF Elsewhere
    <2>10. ASSUME Publishes(t, it, tx[t].i + 1, tx[t].todo) PROVE ~Working(t, it.key)'
      <3>1. tx'[t].i = tx[t].i + 1 BY <2>10 DEF Publishes, EndTo
      <3>2. \A j \in LocalWrites(t) : tx[t].rwset[j].key = it.key => j = tx[t].i
        BY <1>1, <1>3, <2>1 DEF Unique, Stamped
      <3>3. tx[t].i + 1 # tx[t].i BY <1>1, Indices
      <3> QED BY <2>6, <2>8, <3>1, <3>2, <3>3 DEF Working
    <2>11. Hides(t, it) \/ Swaps(t, it, it.seq) \/ Publishes(t, it, tx[t].i + 1, tx[t].todo)
      BY <1>3 DEF Installs
    <2>12. InstallAt(t, it)
      BY <1>2, <2>10, <2>11 DEF InstallAt, SwapsAny, PublishesAny
    <2> QED BY <2>7, <2>9, <2>12
  <1>4. CASE tx[t].pc = "commit_remote"
    <2>1. PICK i \in tx[t].todo, it \in Item :
            /\ NextAt(t, i) /\ it = tx[t].rset[i]
            /\ Hides(t, it) \/ Swaps(t, it, node[it.key].seq)
               \/ Publishes(t, it, tx[t].i, tx[t].todo \ {i})
      BY <1>4 DEF Installs
    <2>2. i \in RemoteWrites(t) /\ it.key \in Key /\ it.w
      BY <1>1, <2>1, NextAtItem DEF RemoteWrites
    <2>3. Working(t, it.key) /\ Own(t, it) BY <1>4, <2>1, <2>2 DEF Working, Own
    <2>4. i \in RemoteHeld(t) BY <1>4, <2>2 DEF RemoteHeld
    <2>5. it.seq = TopVer(it.key) BY <1>1, <2>1, <2>4 DEF Held
    <2>6. tx'[t].pc = "commit_remote" /\ tx'[t].rset = tx[t].rset
          /\ (tx'[t].todo = tx[t].todo \/ tx'[t].todo = tx[t].todo \ {i})
      BY <1>4, <2>1 DEF Hides, Swaps, Publishes, EndTo, SameData
    <2>7. Target(t, it)
      BY <1>1, <1>4, <2>1, <2>2, <2>3, <2>5, <2>6, WorkingHolds DEF Target, Installing
    <2>8. Elsewhere(t, it.key)
      <3>1. ASSUME NEW h \in Key, h # it.key, Working(t, h)
            PROVE  Working(t, h)' /\ PartOf[h] # PartOf[it.key]
        <4>1. PartOf[h] # PartOf[it.key] BY <1>1, <2>2, <2>3, <3>1, WorkingOnce
        <4>2. PICK j \in tx[t].todo : NextAt(t, j) /\ h = tx[t].rset[j].key
          BY <1>4, <3>1 DEF Working
        <4>3. j # i BY <2>1, <3>1, <4>2
        <4> QED BY <2>6, <4>1, <4>2, <4>3 DEF Working, NextAt
      <3>2. ASSUME NEW h \in Key, Working(t, h)', PartOf[h] # PartOf[it.key]
            PROVE  Working(t, h)
        <4>1. PICK j \in tx'[t].todo : NextAt(t, j)' /\ h = tx[t].rset[j].key
          BY <2>6, <3>2 DEF Working
        <4>2. j \in tx[t].todo BY <2>6
        <4>3. NextAt(t, j) BY <2>1, <2>6, <3>2, <4>1, <4>2 DEF NextAt
        <4> QED BY <1>4, <4>1, <4>2, <4>3 DEF Working
      <3> QED BY <3>1, <3>2 DEF Elsewhere
    <2>9. ASSUME Publishes(t, it, tx[t].i, tx[t].todo \ {i}) PROVE ~Working(t, it.key)'
      <3>1. tx'[t].todo = tx[t].todo \ {i} BY <2>9 DEF Publishes, EndTo
      <3>2. \A j \in tx[t].todo : tx[t].rset[j].key = it.key => j = i
        BY <1>1, <1>4, <2>1, <2>2 DEF Unique, Stamped, Control
      <3> QED BY <2>6, <3>1, <3>2 DEF Working
    <2>10. InstallAt(t, it)
      BY <1>2, <2>1, <2>9 DEF InstallAt, SwapsAny, PublishesAny
    <2> QED BY <2>7, <2>8, <2>10
  <1> QED BY <1>3, <1>4 DEF Installs

\* What an install leaves alone.
LEMMA InstallFields ==
  ASSUME NEW t \in Tx, NEW it, Target(t, it), InstallAt(t, it)
  PROVE  /\ Alone(t) /\ SameData(t) /\ SameClocks /\ tx'[t].commit_ts = tx[t].commit_ts
         /\ \A h \in Key : h # it.key => node'[h] = node[h] /\ log'[h] = log[h]
         /\ \A p : p # PartOf[it.key] => (p \in tx'[t].swapped <=> p \in tx[t].swapped)
         /\ \/ log' = log /\ \A h \in Key : Working(t, h)' <=> Working(t, h)
            \/ PublishesAny(t, it) /\ PartOf[it.key] \notin tx'[t].swapped
  <1>1. CASE Hides(t, it) /\ \A h \in Key : Working(t, h)' <=> Working(t, h)
    BY <1>1 DEF Hides, EndTo, NodeTo
  <1>2. ASSUME NEW ver, Swaps(t, it, ver), \A h \in Key : Working(t, h)' <=> Working(t, h)
        PROVE  /\ Alone(t) /\ SameData(t) /\ SameClocks /\ tx'[t].commit_ts = tx[t].commit_ts
               /\ \A h \in Key : h # it.key => node'[h] = node[h] /\ log'[h] = log[h]
               /\ \A p : p # PartOf[it.key] => (p \in tx'[t].swapped <=> p \in tx[t].swapped)
               /\ log' = log /\ \A h \in Key : Working(t, h)' <=> Working(t, h)
    BY <1>2 DEF Swaps, EndTo, NodeTo
  <1>3. ASSUME NEW i, NEW todo, Publishes(t, it, i, todo)
        PROVE  /\ Alone(t) /\ SameData(t) /\ SameClocks /\ tx'[t].commit_ts = tx[t].commit_ts
               /\ \A h \in Key : h # it.key => node'[h] = node[h] /\ log'[h] = log[h]
               /\ \A p : p # PartOf[it.key] => (p \in tx'[t].swapped <=> p \in tx[t].swapped)
               /\ PartOf[it.key] \notin tx'[t].swapped
    BY <1>3 DEF Publishes, EndTo, NodeTo
  <1> QED BY <1>1, <1>2, <1>3 DEF InstallAt, SwapsAny, PublishesAny

\* The other records are as before.
LEMMA InstallOtherNode ==
  ASSUME HistInv, NEW t \in Tx, NEW it, Target(t, it), Elsewhere(t, it.key),
         InstallAt(t, it), NEW h \in Key, h # it.key
  PROVE  NodeInv(h)'
  <1>1. /\ node'[h] = node[h] /\ log'[h] = log[h] /\ NodeInv(h)
        /\ \A u \in Tx : u # t => tx'[u] = tx[u]
        /\ \A p : p # PartOf[it.key] => (p \in tx'[t].swapped <=> p \in tx[t].swapped)
    BY InstallFields DEF HistInv, Alone
  <1>2. TopVer(h)' = TopVer(h) /\ \A m : Chain(h, m)' <=> Chain(h, m)
    BY <1>1 DEF TopVer, Chain
  <1>3. \A u \in Tx : u # t => (Working(u, h)' <=> Working(u, h))
    BY <1>1, OtherViews
  <1>4. CASE node[h].seq # Busy
    <2>1. Settled(h) BY <1>1, <1>4 DEF NodeInv
    <2>2. ASSUME Working(t, h)' PROVE PartOf[h] \notin tx'[t].swapped
      <3>1. CASE PartOf[h] = PartOf[it.key]
        BY <2>2, <3>1, InstallFields DEF Elsewhere
      <3>2. CASE PartOf[h] # PartOf[it.key]
        BY <1>1, <2>1, <2>2, <3>2 DEF Elsewhere, Settled
      <3> QED BY <3>1, <3>2
    <2>3. \A u \in Tx : Working(u, h)' => PartOf[h] \notin tx'[u].swapped
      BY <1>1, <1>3, <2>1, <2>2 DEF Settled
    <2>4. Chain(h, Len(log[h]) - 1)' BY <1>1, <1>2, <2>1 DEF Settled
    <2>5. Settled(h)' BY <1>1, <1>2, <2>1, <2>3, <2>4 DEF Settled
    <2> QED BY <1>1, <1>4, <2>5 DEF NodeInv
  <1>5. CASE node[h].seq = Busy
    <2>1. PICK u \in Tx : Changing(h, u) BY <1>1, <1>5 DEF NodeInv
    <2>2. Working(u, h)' BY <1>3, <2>1 DEF Changing, Elsewhere
    <2>3. PartOf[h] \in tx'[u].swapped <=> PartOf[h] \in tx[u].swapped
      BY <1>1, <2>1 DEF Changing, Elsewhere
    <2>4. /\ Chain(h, Len(log[h])) => Chain(h, Len(log[h]))'
          /\ Chain(h, Len(log[h]) - 1) => Chain(h, Len(log[h]) - 1)'
      BY <1>1, <1>2
    <2>5. Changing(h, u)' BY <1>1, <2>1, <2>2, <2>3, <2>4 DEF Changing
    <2> QED BY <1>1, <1>5, <2>5 DEF NodeInv
  <1> QED BY <1>4, <1>5

\* The record of the item, before the step.
LEMMA TargetNode ==
  ASSUME HistInv, NEW t \in Tx, NEW it, Target(t, it)
  PROVE  /\ PartOf[it.key] \in tx[t].swapped =>
              /\ node[it.key].seq = Busy /\ node[it.key].value \in {Null, t}
              /\ Chain(it.key, Len(log[it.key]))
         /\ PartOf[it.key] \notin tx[t].swapped =>
              /\ Chain(it.key, Len(log[it.key]) - 1)
              /\ node[it.key].value # Null =>
                   /\ node[it.key].seq = TopVer(it.key) /\ Len(log[it.key]) > 0
                   /\ node[it.key].value = log[it.key][Len(log[it.key])].by
         /\ node[it.key].seq # Busy => node[it.key].seq = TopVer(it.key)
  <1> DEFINE k == it.key
  <1>1. /\ k \in Key /\ Working(t, k) /\ node[k].lock = t /\ NodeInv(k)
    BY DEF Target, HistInv
  <1>2. CASE node[k].seq = Busy
    <2>1. Changing(k, t) BY <1>1, <1>2 DEF NodeInv, Changing
    <2> QED BY <1>2, <2>1 DEF Changing
  <1>3. CASE node[k].seq # Busy
    <2>1. Settled(k) BY <1>1, <1>3 DEF NodeInv
    <2> QED BY <1>1, <1>3, <2>1 DEF Settled
  <1> QED BY <1>2, <1>3

\* The value switch links the version it replaces, or starts over.
LEMMA SwapChain ==
  ASSUME HistInv, NEW t \in Tx, NEW it, Target(t, it), SwapsAny(t, it)
  PROVE  /\ Chain(it.key, Len(log[it.key]))' /\ node'[it.key].seq = Busy
         /\ node'[it.key].lock = t /\ node'[it.key].value \in {Null, t}
         /\ PartOf[it.key] \in tx'[t].swapped
         /\ node[it.key].value # Null => Len(node'[it.key].old) = Len(node[it.key].old) + 1
         /\ node[it.key].value = Null => node'[it.key].old = <<>> /\ node[it.key].seq = Busy
         /\ it.kind # "del" => node'[it.key].value = t
  <1> DEFINE k == it.key
             n == Len(log[k])
             v == node[k].value
  <1>1. /\ k \in Key /\ node[k].lock = t /\ it.seq = TopVer(k) /\ log[k] \in Seq(Version)
        /\ node[k].old \in Seq(Version)
    BY TopVersion DEF Target, HistInv, TsInv, LockInv, SITypeOK, MemNode
  <1>2. PICK ver : Swaps(t, it, ver) /\ (ver = it.seq \/ ver = node[k].seq)
    BY DEF SwapsAny
  <1>3. /\ log' = log /\ node'[k].seq = Busy /\ node'[k].lock = t
        /\ node'[k].value \in {Null, t} /\ PartOf[k] \in tx'[t].swapped
        /\ PartOf[k] \notin tx[t].swapped
        /\ node'[k].old = IF v = Null THEN <<>> ELSE <<[ver |-> ver, by |-> v]>> \o node[k].old
        /\ it.kind # "del" => node'[k].value = t
        /\ v = Null => node[k].seq = Busy
    BY <1>1, <1>2 DEF Swaps, NodeTo, EndTo
  <1>4. CASE v = Null BY <1>3, <1>4 DEF Chain
  <1>5. CASE v # Null
    <2>1. /\ node[k].seq = TopVer(k) /\ n > 0 /\ v = log[k][n].by /\ Chain(k, n - 1)
      BY <1>3, <1>5, TargetNode
    <2>2. n \in Nat /\ log[k][n].ver = ver /\ log[k][n] \in Version
      BY <1>1, <1>2, <2>1, TopVersion
    <2>3. log[k][n] = [ver |-> ver, by |-> v] BY <2>1, <2>2 DEF Version
    <2> DEFINE e == log[k][n]
    <2>4. node'[k].old = <<e>> \o node[k].old BY <1>3, <1>5, <2>3
    <2>5. e \in Version BY <2>2
    <2> HIDE DEF e
    <2>6. /\ Len(node'[k].old) = Len(node[k].old) + 1
          /\ node'[k].old[1] = e
          /\ \A j \in DOMAIN node'[k].old : j # 1 => j - 1 \in DOMAIN node[k].old /\ j \in Int
                /\ node'[k].old[j] = node[k].old[j - 1]
      BY <1>1, <2>4, <2>5
    <2>7. ASSUME NEW j \in DOMAIN node'[k].old
          PROVE  j <= n /\ node'[k].old[j] = log[k][n + 1 - j]
      <3>1. CASE j = 1
        <4>1. n + 1 - 1 = n BY <2>2
        <4> QED BY <2>1, <2>2, <2>6, <3>1, <4>1 DEF e
      <3>2. CASE j # 1
        <4>1. /\ j - 1 <= n - 1 /\ j \in Int
              /\ node'[k].old[j] = log[k][(n - 1) + 1 - (j - 1)]
          BY <2>1, <2>6, <3>2 DEF Chain
        <4>2. (n - 1) + 1 - (j - 1) = n + 1 - j BY <2>2, <4>1
        <4> QED BY <2>2, <4>1, <4>2
      <3> QED BY <3>1, <3>2
    <2> QED BY <1>3, <2>6, <2>7 DEF Chain
  <1> QED BY <1>4, <1>5

\* The history of k grows by one version, e.
Extended(k, e) ==
  /\ Len(log[k]) \in Nat /\ Len(log'[k]) = Len(log[k]) + 1 /\ log'[k] # <<>>
  /\ DOMAIN log'[k] = 1..(Len(log[k]) + 1) /\ DOMAIN log[k] = 1..Len(log[k])
  /\ \A j \in 1..Len(log[k]) : log'[k][j] = log[k][j]
  /\ log'[k][Len(log[k]) + 1] = e

\* A published version is the newest one, and the others stay where they are.
LEMMA PublishLog ==
  ASSUME HistInv, NEW t \in Tx, NEW it, Target(t, it), PublishesAny(t, it)
  PROVE  /\ PartOf[it.key] \in tx[t].swapped /\ node'[it.key].lock = NoTx
         /\ node'[it.key].seq = tx[t].commit_ts /\ tx[t].commit_ts \notin {Busy, NoVer}
         /\ node'[it.key].value = node[it.key].value /\ node'[it.key].old = node[it.key].old
         /\ Extended(it.key, [ver |-> tx[t].commit_ts, by |-> t])
         /\ \A h \in Key : h # it.key => log'[h] = log[h]
  <1> DEFINE k == it.key
             e == [ver |-> tx[t].commit_ts, by |-> t]
  <1>1. PICK i, todo : Publishes(t, it, i, todo) BY DEF PublishesAny
  <1>2. /\ PartOf[k] \in tx[t].swapped /\ node'[k].lock = NoTx
        /\ node'[k].seq = tx[t].commit_ts /\ node'[k].value = node[k].value
        /\ node'[k].old = node[k].old /\ log'[k] = Append(log[k], e)
        /\ \A h \in Key : h # k => log'[h] = log[h]
    BY <1>1 DEF Publishes, NodeTo
  <1>3. TsInv /\ tx[t].pc \in Stamped BY DEF HistInv, Target, Installing, Stamped
  <1>4. tx[t].commit_ts \notin {Busy, NoVer} BY <1>3, StampValue
  <1>5. k \in Key /\ log[k] \in Seq(Version) BY TopVersion DEF Target
  <1> HIDE DEF e
  <1>7. Extended(k, e) BY <1>2, <1>5 DEF Extended
  <1> QED BY <1>2, <1>4, <1>7 DEF e

\* The record of the item, after the step.
LEMMA InstallNode ==
  ASSUME HistInv, NEW t \in Tx, NEW it, Target(t, it), InstallAt(t, it)
  PROVE  NodeInv(it.key)'
  <1> PICK k : k = it.key OBVIOUS
  <1>1. k \in Key /\ Working(t, k) /\ node[k].lock = t BY DEF Target
  <1>2. CASE Hides(t, it) /\ \A h \in Key : Working(t, h)' <=> Working(t, h)
    <2>1. /\ PartOf[k] \notin tx[t].swapped /\ tx'[t].swapped = tx[t].swapped /\ log' = log
          /\ node'[k].seq = Busy /\ node'[k].lock = t /\ node'[k].value = Null
          /\ node'[k].old = node[k].old
      BY <1>1, <1>2 DEF Hides, NodeTo, EndTo
    <2>2. Chain(k, Len(log[k]) - 1) BY <2>1, TargetNode
    <2>3. Chain(k, Len(log[k]) - 1)' BY <2>1, <2>2 DEF Chain
    <2>4. Changing(k, t)' BY <1>1, <1>2, <2>1, <2>3 DEF Changing
    <2> QED BY <2>1, <2>4 DEF NodeInv
  <1>3. CASE SwapsAny(t, it) /\ \A h \in Key : Working(t, h)' <=> Working(t, h)
    <2>1. /\ Chain(k, Len(log[k]))' /\ node'[k].seq = Busy /\ node'[k].lock = t
          /\ node'[k].value \in {Null, t} /\ PartOf[k] \in tx'[t].swapped
      <3>1. /\ node'[k].seq = Busy /\ node'[k].lock = t
            /\ node'[k].value \in {Null, t} /\ PartOf[k] \in tx'[t].swapped
        BY <1>3, SwapChain
      <3>2. Chain(it.key, Len(log[it.key]))' BY <1>3, SwapChain
      <3> QED BY <3>1, <3>2 DEF Chain
    <2>2. Changing(k, t)' BY <1>1, <1>3, <2>1 DEF Changing
    <2> QED BY <2>1, <2>2 DEF NodeInv
  <1>4. CASE PublishesAny(t, it) /\ ~Working(t, it.key)'
    <2> DEFINE n == Len(log[k])
    <2>1. /\ PartOf[k] \in tx[t].swapped /\ node'[k].lock = NoTx
          /\ node'[k].seq = tx[t].commit_ts /\ tx[t].commit_ts # Busy
          /\ node'[k].value = node[k].value /\ node'[k].old = node[k].old
          /\ n \in Nat /\ Len(log'[k]) = n + 1 /\ log'[k] # <<>>
          /\ \A j \in 1..n : log'[k][j] = log[k][j]
          /\ log'[k][n + 1].ver = tx[t].commit_ts /\ log'[k][n + 1].by = t
      <3>1. /\ PartOf[k] \in tx[t].swapped /\ node'[k].lock = NoTx
            /\ node'[k].seq = tx[t].commit_ts /\ tx[t].commit_ts # Busy
            /\ node'[k].value = node[k].value /\ node'[k].old = node[k].old
            /\ Extended(k, [ver |-> tx[t].commit_ts, by |-> t])
        BY <1>4, PublishLog
      <3> QED BY <3>1 DEF Extended
    <2>2. node[k].value \in {Null, t} /\ Chain(k, n) BY <2>1, TargetNode
    <2>3. TopVer(k)' = tx[t].commit_ts BY <2>1 DEF TopVer
    <2>4. \A u \in Tx : ~Working(u, k)'
      <3>1. LockInv BY DEF HistInv, TsInv
      <3>2. ASSUME NEW u \in Tx, u # t PROVE ~Working(u, k)'
        <4>1. tx'[u] = tx[u] BY <3>2, InstallFields DEF Alone
        <4> QED BY <1>1, <3>1, <3>2, <4>1, OtherViews, WorkingHolds
      <3> QED BY <1>4, <3>2
    <2>5. Chain(k, Len(log[k]) - 1)'
      <3>1. Len(log'[k]) - 1 = n BY <2>1
      <3>2. ASSUME NEW j \in DOMAIN node[k].old
            PROVE  j <= n /\ node[k].old[j] = log'[k][n + 1 - j]
        <4>1. j \in Nat /\ 1 <= j
          <5>1. node[k].old \in Seq(Version)
            BY <1>1 DEF HistInv, TsInv, LockInv, SITypeOK, MemNode
          <5> QED BY <5>1
        <4>2. j <= n /\ node[k].old[j] = log[k][n + 1 - j] BY <2>2 DEF Chain
        <4>3. n + 1 - j \in 1..n BY <2>1, <4>1, <4>2
        <4> QED BY <2>1, <4>2, <4>3
      <3> QED BY <2>1, <3>1, <3>2 DEF Chain
    <2>6. Settled(k)' BY <2>1, <2>2, <2>3, <2>4, <2>5 DEF Settled
    <2> QED BY <2>1, <2>6 DEF NodeInv
  <1> QED BY <1>2, <1>3, <1>4 DEF InstallAt

\* The histories: t has not written the record before, and gives up the lock.
LEMMA InstallLog ==
  ASSUME HistInv, NEW t \in Tx, NEW it, Target(t, it), InstallAt(t, it), NEW h \in Key,
         Preserved(t)
  PROVE  LogInv(h)'
  <1>1. LogInv(h) /\ t # NoTx BY SIAssumption DEF HistInv
  <1>2. ASSUME NEW e, Entry(h, e) PROVE Entry(h, e)'
    <2>1. ASSUME e.by \in Tx, tx[e.by].pc \in Stamped, e.ver = tx[e.by].commit_ts,
                 node[h].lock # e.by
          PROVE  /\ tx'[e.by].pc \in Stamped /\ e.ver = tx'[e.by].commit_ts
                 /\ node'[h].lock # e.by
      <3>1. tx'[e.by].pc = tx[e.by].pc /\ tx'[e.by].commit_ts = tx[e.by].commit_ts
        BY <2>1, InstallFields DEF Target, Alone
      <3>2. \/ node'[h].lock \in {node[h].lock, NoTx}
            \/ node'[h].lock = t /\ node[h].lock = NoTx
        BY DEF Preserved, LockStep
      <3>3. h # it.key => node'[h] = node[h] BY InstallFields
      <3>4. e.by # NoTx BY <2>1, SIAssumption
      <3> QED BY <1>1, <2>1, <3>1, <3>2, <3>3, <3>4 DEF Target
    <2> QED BY <1>2, <2>1 DEF Entry
  <1>3. CASE log'[h] = log[h] BY <1>1, <1>2, <1>3 DEF LogInv
  <1>4. CASE PublishesAny(t, it) /\ h = it.key
    <2> DEFINE n == Len(log[h])
    <2>1. /\ n \in Nat /\ DOMAIN log'[h] = 1..(n + 1) /\ DOMAIN log[h] = 1..n
          /\ \A j \in 1..n : log'[h][j] = log[h][j]
          /\ log'[h][n + 1] = [ver |-> tx[t].commit_ts, by |-> t] /\ log'[h][n + 1].by = t
          /\ node'[h].lock = NoTx
      BY <1>4, PublishLog DEF Extended
    <2>2. \A j \in 1..n : log[h][j].by # t
      BY <1>1, <1>4, <2>1, SIAssumption DEF Target, LogInv, Entry
    <2>3. \A i \in 1..(n + 1) : i \in 1..n \/ i = n + 1 BY <2>1
    <2>4. \A i, j \in DOMAIN log'[h] : log'[h][i].by = log'[h][j].by => i = j
      BY <1>1, <2>1, <2>2, <2>3 DEF LogInv
    <2>5. tx'[t].pc \in Stamped /\ tx'[t].commit_ts = tx[t].commit_ts
      BY InstallFields DEF Target, Stamped, Installing
    <2>6. ASSUME NEW j \in DOMAIN log'[h] PROVE Entry(h, log[h][j])'
      <3>1. CASE j = n + 1 BY <1>1, <2>1, <2>5, <3>1 DEF Entry
      <3>2. CASE j \in 1..n
        <4>1. PICK e : e = log[h][j] OBVIOUS
        <4>2. Entry(h, e) /\ log'[h][j] = e BY <1>1, <2>1, <3>2, <4>1 DEF LogInv
        <4>3. Entry(h, e)' BY <1>2, <4>2
        <4> QED BY <4>2, <4>3 DEF Entry
      <3> QED BY <2>1, <2>3, <3>1, <3>2
    <2> QED BY <2>4, <2>6 DEF LogInv
  <1>5. log'[h] = log[h] \/ (PublishesAny(t, it) /\ h = it.key)
    BY InstallFields
  <1> QED BY <1>3, <1>4, <1>5

\* The timestamp of t is not yet in the history of the record.
LEMMA FreshStamp ==
  ASSUME HistInv, NEW t \in Tx, NEW it, Target(t, it), NEW j \in DOMAIN log[it.key]
  PROVE  log[it.key][j].ver # tx[t].commit_ts /\ log[it.key][j].by # t
  <1> DEFINE e == log[it.key][j]
  <1>1. Entry(it.key, e) /\ TsInv BY DEF HistInv, LogInv, Target
  <1>2. tx[t].pc \in Stamped /\ node[it.key].lock = t BY DEF Target, Installing, Stamped
  <1>3. tx[t].commit_ts \notin {NoVer, First} BY <1>1, <1>2, StampValue
  <1>4. CASE e = [ver |-> First, by |-> Loaded] BY <1>3, <1>4, SIAssumption
  <1>5. ASSUME e.by \in Tx, e.ver = tx[e.by].commit_ts, node[it.key].lock # e.by
        PROVE  e.ver # tx[t].commit_ts /\ e.by # t
    BY <1>1, <1>2, <1>3, <1>5 DEF TsInv, Stamp
  <1> QED BY <1>1, <1>4, <1>5 DEF Entry

\* Histories only grow, by versions of t.
LEMMA LogGrows ==
  ASSUME HistInv, NEW t \in Tx, NEW it, Target(t, it), InstallAt(t, it), NEW h \in Key
  PROVE  /\ DOMAIN log[h] \subseteq DOMAIN log'[h]
         /\ \A j \in DOMAIN log[h] : log'[h][j] = log[h][j]
         /\ \A j \in DOMAIN log'[h] : j \notin DOMAIN log[h] =>
              /\ h = it.key /\ j = Len(log[h]) + 1 /\ PublishesAny(t, it)
              /\ log'[h][j].by = t /\ log'[h][j].ver = tx[t].commit_ts
         /\ \A s, v : Logged(h, s, v) => Logged(h, s, v)'
  <1>1. CASE log'[h] = log[h] BY <1>1 DEF Logged
  <1>2. CASE PublishesAny(t, it) /\ h = it.key
    <2>1. Extended(h, [ver |-> tx[t].commit_ts, by |-> t]) BY <1>2, PublishLog
    <2>2. DOMAIN log[h] \subseteq DOMAIN log'[h] BY <2>1 DEF Extended
    <2>3. \A j \in DOMAIN log[h] : log'[h][j] = log[h][j] BY <2>1 DEF Extended
    <2>4. \A j \in DOMAIN log'[h] : j \notin DOMAIN log[h] => j = Len(log[h]) + 1
      BY <2>1 DEF Extended
    <2>5. /\ log'[h][Len(log[h]) + 1].by = t
          /\ log'[h][Len(log[h]) + 1].ver = tx[t].commit_ts
      BY <2>1 DEF Extended
    <2>6. \A s, v : Logged(h, s, v) => Logged(h, s, v)' BY <2>2, <2>3 DEF Logged
    <2> QED BY <1>2, <2>2, <2>3, <2>4, <2>5, <2>6
  <1> QED BY <1>1, <1>2, InstallFields

\* A good item stays good, and one that follows its version still does.
LEMMA GoodItemKept ==
  ASSUME HistInv, NEW t \in Tx, NEW it, Target(t, it), InstallAt(t, it),
         NEW x, x.key \in Key, GoodItem(x)
  PROVE  GoodItem(x)'
BY LogGrows DEF GoodItem

\* Installs of another transaction or record keep the order on a record.
LEMMA FollowsKept ==
  ASSUME HistInv, NEW t \in Tx, NEW it, Target(t, it), InstallAt(t, it),
         NEW x, x.key \in Key, NEW u \in Tx, Follows(u, x), u # t \/ x.key # it.key
  PROVE  Follows(u, x)'
  <1> SUFFICES ASSUME x.w, x.by # Null, NEW j \in DOMAIN log'[x.key], log'[x.key][j].by = u
               PROVE  j > 1 /\ log'[x.key][j - 1].by = x.by
    BY DEF Follows
  <1>1. j \in DOMAIN log[x.key] BY LogGrows
  <1>2. log[x.key][j].by = u BY <1>1, LogGrows
  <1>3. j > 1 /\ log[x.key][j - 1].by = x.by BY <1>1, <1>2 DEF Follows
  <1>4. j - 1 \in DOMAIN log[x.key] BY <1>1, <1>3, TopVersion
  <1> QED BY <1>3, <1>4, LogGrows

\* The other transactions: they hold no version of the record, and none of them
\* takes what is installed for what it has read.
LEMMA InstallOthers ==
  ASSUME HistInv, NEW t \in Tx, NEW it, Target(t, it), InstallAt(t, it), NEW u \in Tx, u # t
  PROVE  Books(u)'
  <1>1. /\ tx'[u] = tx[u] /\ Books(u) /\ LockInv /\ SITypeOK /\ Locks(u) /\ TsInv
        /\ vec' = vec
    BY InstallFields DEF Alone, HistInv, TsInv, LockInv, SameClocks
  <1>2. /\ \A i \in DOMAIN tx[u].rwset : tx[u].rwset[i].key \in Key
        /\ \A i \in DOMAIN tx[u].rset : tx[u].rset[i].key \in Key
    BY <1>1, LocalItem, RemoteItem
  <1>3. Swapped(u)' BY <1>1, OtherViews DEF Books, Swapped
  <1>4. Unique(u)' BY <1>1, OtherViews DEF Books, Unique
  <1>5. Held(u)'
    <2>1. Held(u) BY <1>1 DEF Books
    <2>2. LocalHeld(u)' = LocalHeld(u) /\ RemoteHeld(u)' = RemoteHeld(u)
      BY <1>1, OtherViews
    <2>3. \A h \in Key : node[h].lock = u => TopVer(h)' = TopVer(h)
      BY InstallFields DEF Target, TopVer
    <2>4. \A i \in LocalHeld(u) : tx[u].rwset[i].key \in Key /\ node[tx[u].rwset[i].key].lock = u
      BY <1>1, HeldKeys DEF Locks
    <2>5. \A i \in RemoteHeld(u) : tx[u].rset[i].key \in Key /\ node[tx[u].rset[i].key].lock = u
      BY <1>1, HeldKeys DEF Locks
    <2> QED BY <1>1, <2>1, <2>2, <2>3, <2>4, <2>5 DEF Held
  <1>6. ItemInv(u)'
    <2>1. ItemInv(u) BY <1>1 DEF Books
    <2>2. \A i \in DOMAIN tx[u].rwset : GoodItem(tx[u].rwset[i])'
      <3> TAKE i \in DOMAIN tx[u].rwset
      <3> PICK x : x = tx[u].rwset[i] OBVIOUS
      <3>1. GoodItem(x)' BY <1>2, <2>1, GoodItemKept DEF ItemInv
      <3> QED BY <1>1, <3>1 DEF GoodItem, Logged
    <2>3. \A i \in DOMAIN tx[u].rset : GoodItem(tx[u].rset[i])'
      <3> TAKE i \in DOMAIN tx[u].rset
      <3> PICK x : x = tx[u].rset[i] OBVIOUS
      <3>1. GoodItem(x)' BY <1>2, <2>1, GoodItemKept DEF ItemInv
      <3> QED BY <1>1, <3>1 DEF GoodItem, Logged
    <2> QED BY <1>1, <2>2, <2>3 DEF ItemInv
  <1>7. Overwrites(u)'
    <2>1. Overwrites(u) BY <1>1 DEF Books
    <2>2. \A i \in DOMAIN tx[u].rwset : Follows(u, tx[u].rwset[i])'
      <3> TAKE i \in DOMAIN tx[u].rwset
      <3> PICK x : x = tx[u].rwset[i] OBVIOUS
      <3>1. Follows(u, x)' BY <1>2, <2>1, FollowsKept DEF Overwrites
      <3> QED BY <1>1, <3>1 DEF Follows
    <2>3. \A i \in DOMAIN tx[u].rset : Follows(u, tx[u].rset[i])'
      <3> TAKE i \in DOMAIN tx[u].rset
      <3> PICK x : x = tx[u].rset[i] OBVIOUS
      <3>1. Follows(u, x)' BY <1>2, <2>1, FollowsKept DEF Overwrites
      <3> QED BY <1>1, <3>1 DEF Follows
    <2> QED BY <1>1, <2>2, <2>3 DEF Overwrites
  <1>8. ReadInv(u)'
    <2>1. ReadInv(u) BY <1>1 DEF Books
    <2> SUFFICES ASSUME tx[u].pc \in ReadPhase \ {"exec"} PROVE ReadInv(u)'
      BY <1>1 DEF ReadInv
    <2>2. PICK c : c = CurKey(u) OBVIOUS
    <2>3. c \in Key
      <3>1. tx[u].prog # <<>> BY <1>1 DEF LockInv, Control
      <3> QED BY <1>1, <2>2, <3>1, Current
    <2>4. CurKey(u)' = c /\ CurOp(u)' = CurOp(u) BY <1>1, <2>2, OtherViews
    <2>5. \A s : Sees(u, s)' <=> Sees(u, s) BY <1>1 DEF Sees
    <2>6. tx[u].seq \in {Busy, NoVer} \/ \E j \in DOMAIN log[c] : log[c][j].ver = tx[u].seq
      BY <2>1, <2>2 DEF ReadInv
    <2>7. tx[u].seq \in {Busy, NoVer} \/ \E j \in DOMAIN log'[c] : log'[c][j].ver = tx[u].seq
      BY <2>3, <2>6, LogGrows
    <2>8. tx[u].pc \in {"old", "ochk"} => tx[u].seq # Busy
      BY <1>1, <2>1, SeesConstants DEF ReadInv, ReadPhase
    <2>9. CASE c # it.key
      <3>1. node'[c] = node[c] /\ log'[c] = log[c] BY <2>3, <2>9, InstallFields
      <3> QED BY <1>1, <2>1, <2>2, <2>4, <2>5, <2>7, <3>1 DEF ReadInv, Logged
    <2>10. CASE c = it.key
      <3>1. node'[c].seq = Busy \/ (node'[c].seq = tx[t].commit_ts /\ tx[t].commit_ts # NoVer)
        BY <2>10, SwapChain, PublishLog DEF InstallAt, Hides, NodeTo
      <3>2. tx[u].seq # Busy => node'[c].seq # tx[u].seq
        BY <2>6, <2>10, <3>1, FreshStamp
      <3> QED BY <1>1, <2>1, <2>2, <2>4, <2>5, <2>7, <2>8, <3>2 DEF ReadInv
    <2> QED BY <2>9, <2>10
  <1> QED BY <1>3, <1>4, <1>5, <1>6, <1>7, <1>8 DEF Books

\* The item that is written is the only one of its record among t's writes, and
\* was read from the version it replaces.
LEMMA TargetFollows ==
  ASSUME HistInv, NEW t \in Tx, NEW it, Target(t, it), InstallAt(t, it),
         NEW x, Own(t, x), x.key = it.key
  PROVE  Follows(t, x)'
  <1>1. x = it
    <2>1. Control(t) /\ Unique(t) /\ tx[t].pc \in Stamped
      BY DEF HistInv, TsInv, LockInv, Books, Target, Installing, Stamped
    <2>2. ASSUME NEW y, Own(t, y), IsLocal(t, y.key)
          PROVE  \E i \in LocalWrites(t) : y = tx[t].rwset[i]
      BY <2>1, <2>2 DEF Own, Control, RemoteWrites
    <2>3. ASSUME NEW y, Own(t, y), ~IsLocal(t, y.key)
          PROVE  \E i \in RemoteWrites(t) : y = tx[t].rset[i]
      BY <2>1, <2>3 DEF Own, Control, LocalWrites
    <2>4. Own(t, it) BY DEF Target
    <2>5. CASE IsLocal(t, it.key) BY <2>1, <2>2, <2>4, <2>5 DEF Unique
    <2>6. CASE ~IsLocal(t, it.key) BY <2>1, <2>3, <2>4, <2>6 DEF Unique
    <2> QED BY <2>5, <2>6
  <1> DEFINE k == it.key
             n == Len(log[k])
  <1> SUFFICES ASSUME it.by # Null, NEW j \in DOMAIN log'[k], log'[k][j].by = t
               PROVE  j > 1 /\ log'[k][j - 1].by = it.by
    BY <1>1 DEF Follows
  <1>2. k \in Key /\ it.seq = TopVer(k) BY DEF Target
  <1>3. j = n + 1
    <2>1. j \notin DOMAIN log[k] BY <1>2, FreshStamp, LogGrows
    <2> QED BY <1>2, <2>1, LogGrows
  <1>4. GoodItem(it)
    BY DEF HistInv, Books, ItemInv, Target, Own, LocalWrites, RemoteWrites
  <1>5. PICK m \in DOMAIN log[k] : log[k][m].ver = it.seq /\ log[k][m].by = it.by
    BY <1>2, <1>4, TopVersion DEF GoodItem, Logged
  <1>6. n > 0 BY <1>2, <1>5, TopVersion
  <1>7. n \in DOMAIN log[k] /\ log[k][n].ver = it.seq /\ n \in Nat BY <1>2, <1>6, TopVersion
  <1>8. m = n BY <1>2, <1>5, <1>7, VersionsDiffer
  <1>9. log'[k][n] = log[k][n] BY <1>2, <1>7, LogGrows
  <1>10. n + 1 > 1 /\ n + 1 - 1 = n BY <1>6, <1>7
  <1> QED BY <1>3, <1>5, <1>8, <1>9, <1>10

\* The books of the transaction that installs.
LEMMA InstallOwn ==
  ASSUME HistInv, NEW t \in Tx, Step(t), Preserved(t), NEW it, Target(t, it),
         Elsewhere(t, it.key), InstallAt(t, it)
  PROVE  Books(t)'
  <1>1. /\ Books(t) /\ LockInv /\ SITypeOK /\ HeldStep(t)
        /\ tx'[t].rwset = tx[t].rwset /\ tx'[t].rset = tx[t].rset
    BY InstallFields, HeldSteps DEF HistInv, TsInv, LockInv, SameData
  <1>2. /\ \A i \in DOMAIN tx[t].rwset : tx[t].rwset[i].key \in Key
        /\ \A i \in DOMAIN tx[t].rset : tx[t].rset[i].key \in Key
    BY <1>1, LocalItem, RemoteItem
  <1>3. Swapped(t)'
    <2> SUFFICES ASSUME NEW p \in tx'[t].swapped
                 PROVE  \E h \in Key : Working(t, h)' /\ PartOf[h] = p
      BY DEF Swapped
    <2>1. CASE p = PartOf[it.key] BY <2>1, InstallFields DEF Target
    <2>2. CASE p # PartOf[it.key]
      <3>1. p \in tx[t].swapped BY <2>2, InstallFields
      <3>2. PICK h \in Key : Working(t, h) /\ PartOf[h] = p
        BY <1>1, <3>1 DEF Books, Swapped
      <3> QED BY <2>2, <3>2 DEF Elsewhere
    <2> QED BY <2>1, <2>2
  <1>4. Unique(t)' BY StepUnique
  <1>5. ReadInv(t)' BY DEF Target, ReadInv, ReadPhase, Installing
  <1>6. Held(t)'
    <2>1. LocalWrites(t)' = LocalWrites(t) /\ RemoteWrites(t)' = RemoteWrites(t)
      BY <1>1 DEF LocalWrites, RemoteWrites
    <2>2. LocalHeld(t)' \subseteq LocalWrites(t) /\ RemoteHeld(t)' \subseteq RemoteWrites(t)
      BY <2>1 DEF LocalHeld, RemoteHeld
    <2>3. ASSUME NEW h \in Key, node'[h].lock = t PROVE TopVer(h)' = TopVer(h)
      <3>1. t # NoTx BY SIAssumption
      <3>2. log'[h] = log[h]
        <4>1. CASE h # it.key BY <4>1, InstallFields
        <4>2. CASE h = it.key
          <5>1. ~PublishesAny(t, it) BY <2>3, <3>1, <4>2, PublishLog
          <5> QED BY <5>1, InstallFields
        <4> QED BY <4>1, <4>2
      <3> QED BY <3>2 DEF TopVer
    <2>4. Held(t) /\ Locks(t)' BY <1>1 DEF Books, Preserved
    <2>5. ASSUME NEW x, x.key \in Key, Checked(x) PROVE x.seq = TopVer(x.key)
      BY <2>5, SIAssumption, FreeIsSettled DEF Checked, Settled
    <2>6. ASSUME tx'[t].pc \in {"lock_all", "commit"}, NEW i \in LocalHeld(t)'
          PROVE  tx'[t].rwset[i].seq = TopVer(tx[t].rwset[i].key)'
      <3>1. tx[t].rwset[i].seq = TopVer(tx[t].rwset[i].key)
        <4>1. i \in DOMAIN tx[t].rwset BY <2>2, <2>6 DEF LocalWrites
        <4> QED BY <1>1, <1>2, <2>4, <2>5, <2>6, <4>1 DEF HeldStep, Held
      <3>2. node'[tx[t].rwset[i].key].lock = t BY <1>1, <2>4, <2>6 DEF Locks
      <3>3. PICK h \in Key : h = tx[t].rwset[i].key BY <1>2, <2>2, <2>6 DEF LocalWrites
      <3>4. TopVer(h)' = TopVer(h) BY <2>3, <3>2, <3>3
      <3> QED BY <1>1, <3>1, <3>3, <3>4 DEF TopVer
    <2>7. ASSUME NEW i \in RemoteHeld(t)'
          PROVE  tx'[t].rset[i].seq = TopVer(tx[t].rset[i].key)'
      <3>1. tx[t].rset[i].seq = TopVer(tx[t].rset[i].key)
        <4>1. i \in DOMAIN tx[t].rset BY <2>2, <2>7 DEF RemoteWrites
        <4> QED BY <1>1, <1>2, <2>4, <2>5, <2>7, <4>1 DEF HeldStep, Held
      <3>2. node'[tx[t].rset[i].key].lock = t BY <1>1, <2>4, <2>7 DEF Locks
      <3>3. PICK h \in Key : h = tx[t].rset[i].key BY <1>2, <2>2, <2>7 DEF RemoteWrites
      <3>4. TopVer(h)' = TopVer(h) BY <2>3, <3>2, <3>3
      <3> QED BY <1>1, <3>1, <3>3, <3>4 DEF TopVer
    <2> QED BY <2>6, <2>7 DEF Held
  <1>7. ItemInv(t)'
    <2>1. ItemInv(t) BY <1>1 DEF Books
    <2>2. \A i \in DOMAIN tx[t].rwset : GoodItem(tx[t].rwset[i])'
      <3> TAKE i \in DOMAIN tx[t].rwset
      <3> PICK x : x = tx[t].rwset[i] OBVIOUS
      <3>1. GoodItem(x)' BY <1>2, <2>1, GoodItemKept DEF ItemInv
      <3> QED BY <1>1, <3>1 DEF GoodItem, Logged
    <2>3. \A i \in DOMAIN tx[t].rset : GoodItem(tx[t].rset[i])'
      <3> TAKE i \in DOMAIN tx[t].rset
      <3> PICK x : x = tx[t].rset[i] OBVIOUS
      <3>1. GoodItem(x)' BY <1>2, <2>1, GoodItemKept DEF ItemInv
      <3> QED BY <1>1, <3>1 DEF GoodItem, Logged
    <2> QED BY <1>1, <2>2, <2>3 DEF ItemInv
  <1>8. Overwrites(t)'
    <2>1. Overwrites(t) BY <1>1 DEF Books
    <2>2. ASSUME NEW x, x.key \in Key, x.w => Own(t, x), Follows(t, x) PROVE Follows(t, x)'
      <3>1. CASE x.w /\ x.key = it.key BY <2>2, <3>1, TargetFollows
      <3>2. CASE x.key # it.key BY <2>2, <3>2, FollowsKept
      <3>3. CASE ~x.w BY <3>3 DEF Follows
      <3> QED BY <3>1, <3>2, <3>3
    <2>3. \A i \in DOMAIN tx[t].rwset : Follows(t, tx[t].rwset[i])'
      <3> TAKE i \in DOMAIN tx[t].rwset
      <3> PICK x : x = tx[t].rwset[i] OBVIOUS
      <3>1. Follows(t, x)' BY <1>2, <2>1, <2>2 DEF Overwrites, Own, LocalWrites
      <3> QED BY <1>1, <3>1 DEF Follows
    <2>4. \A i \in DOMAIN tx[t].rset : Follows(t, tx[t].rset[i])'
      <3> TAKE i \in DOMAIN tx[t].rset
      <3> PICK x : x = tx[t].rset[i] OBVIOUS
      <3>1. Follows(t, x)' BY <1>2, <2>1, <2>2 DEF Overwrites, Own, RemoteWrites
      <3> QED BY <1>1, <3>1 DEF Follows
    <2> QED BY <1>1, <2>3, <2>4 DEF Overwrites
  <1> QED BY <1>3, <1>4, <1>5, <1>6, <1>7, <1>8 DEF Books

-----------------------------------------------------------------------------
(* The invariant, and no lost update.                                         *)

\* Initially the loaded versions are settled.
LEMMA InitHistInv == ASSUME SIInit PROVE HistInv
  <1>1. TsInv /\ LockInv /\ SITypeOK BY InitTsInv DEF TsInv, LockInv
  <1>2. /\ \A t \in Tx : /\ tx[t].pc = "idle" /\ tx[t].rwset = <<>> /\ tx[t].rset = <<>>
                         /\ tx[t].swapped = {}
        /\ \A k \in Key : /\ node[k].lock = NoTx /\ node[k].old = <<>>
                          /\ node[k].seq = IF k \in Absent THEN NoVer ELSE First
                          /\ node[k].value = IF k \in Absent THEN Null ELSE Loaded
                          /\ log[k] = IF k \in Absent THEN <<>>
                                      ELSE <<[ver |-> First, by |-> Loaded]>>
    BY DEF SIInit
  <1>3. \A t \in Tx : Books(t)
    BY <1>2 DEF Books, Swapped, Held, Unique, ItemInv, ReadInv, Overwrites, ReadPhase,
                Stamped, RemoteHeld
  <1>4. ASSUME NEW k \in Key PROVE NodeInv(k) /\ LogInv(k)
    <2>1. \A t \in Tx : ~Working(t, k) BY <1>2 DEF Working
    <2>2. NoVer # Busy /\ First # Busy BY DEF NoVer, Busy, First
    <2>3. CASE k \in Absent
      BY <1>2, <2>1, <2>2, <2>3 DEF NodeInv, LogInv, Settled, Chain, TopVer
    <2>4. CASE k \notin Absent
      <3> DEFINE e == [ver |-> First, by |-> Loaded]
      <3>1. log[k] = <<e>> BY <1>2, <2>4
      <3>2. e.ver = First /\ e.by = Loaded OBVIOUS
      <3>3. Entry(k, e) BY DEF Entry
      <3> HIDE DEF e
      <3>4. Len(log[k]) = 1 /\ log[k] # <<>> /\ log[k][1] = e /\ DOMAIN log[k] = {1}
        BY <3>1
      <3>5. Settled(k) BY <1>2, <2>1, <2>4, <3>2, <3>4 DEF Settled, TopVer, Chain
      <3>6. LogInv(k) BY <3>3, <3>4 DEF LogInv
      <3> QED BY <1>2, <2>2, <2>4, <3>5, <3>6 DEF NodeInv
    <2> QED BY <2>3, <2>4
  <1> QED BY <1>1, <1>3, <1>4 DEF HistInv

\* A step keeps the books, the nodes and the histories.
LEMMA StepHistInv ==
  ASSUME HistInv, NEW t \in Tx, Step(t)
  PROVE  (\A u \in Tx : Books(u)') /\ (\A k \in Key : NodeInv(k)' /\ LogInv(k)')
  <1>1. LockInv /\ Preserved(t) BY StepPreserves DEF HistInv, TsInv
  <1>2. CASE NoInstall(t)
    BY <1>1, <1>2, NoInstallOwn, NoInstallOthers, NoInstallNode, NoInstallLog
  <1>3. CASE Installs(t)
    <2>1. PICK it : Target(t, it) /\ Elsewhere(t, it.key) /\ InstallAt(t, it)
      BY <1>3, InstallItem
    <2>2. \A u \in Tx : Books(u)' BY <1>1, <2>1, InstallOwn, InstallOthers
    <2>3. ASSUME NEW k \in Key PROVE NodeInv(k)'
      <3>1. CASE k # it.key BY <2>1, <3>1, InstallOtherNode
      <3>2. CASE k = it.key
        <4>1. NodeInv(it.key)' BY <2>1, InstallNode
        <4> QED BY <3>2, <4>1
      <3> QED BY <3>1, <3>2
    <2>4. \A k \in Key : LogInv(k)' BY <1>1, <2>1, InstallLog
    <2> QED BY <2>2, <2>3, <2>4
  <1> QED BY <1>1, <1>2, <1>3, StepKinds

\* The invariant is inductive.
LEMMA NextHistInv == ASSUME HistInv, [SINext]_sivars PROVE HistInv'
  <1>1. TsInv' BY NextTsInv DEF HistInv
  <1>2. ASSUME UNCHANGED sivars
        PROVE  (\A u \in Tx : Books(u)') /\ (\A k \in Key : NodeInv(k)' /\ LogInv(k)')
    <2>1. tx' = tx /\ node' = node /\ log' = log /\ vec' = vec BY <1>2 DEF sivars
    <2>2. ASSUME NEW u \in Tx PROVE Books(u)'
      <3>1. Books(u) BY DEF HistInv
      <3>2. Swapped(u)' /\ Held(u)' /\ Unique(u)'
        <4>1. LocalHeld(u)' = LocalHeld(u) /\ RemoteHeld(u)' = RemoteHeld(u)
          BY <2>1, OtherViews
        <4>2. Swapped(u)' BY <2>1, <3>1, OtherViews DEF Books, Swapped
        <4>3. Held(u)' BY <2>1, <3>1, <4>1 DEF Books, Held, TopVer
        <4>4. Unique(u)' BY <2>1, <3>1, OtherViews DEF Books, Unique
        <4> QED BY <4>2, <4>3, <4>4
      <3>3. ItemInv(u)' BY <2>1, <3>1 DEF Books, ItemInv, GoodItem, Logged
      <3>4. ReadInv(u)' BY <2>1, <3>1 DEF Books, ReadInv, Logged, Sees, CurKey, CurOp
      <3>5. Overwrites(u)' BY <2>1, <3>1 DEF Books, Overwrites, Follows
      <3> QED BY <3>2, <3>3, <3>4, <3>5 DEF Books
    <2>3. ASSUME NEW k \in Key PROVE NodeInv(k)'
      <3>1. NodeInv(k) BY DEF HistInv
      <3>2. \A u \in Tx : Working(u, k)' <=> Working(u, k) BY <2>1, OtherViews
      <3>3. TopVer(k)' = TopVer(k) BY <2>1 DEF TopVer
      <3>4. Settled(k) => Settled(k)' BY <2>1, <3>2, <3>3 DEF Settled, Chain
      <3>5. \A u \in Tx : Changing(k, u) => Changing(k, u)'
        BY <2>1, <3>2 DEF Changing, Chain
      <3> QED BY <2>1, <3>1, <3>4, <3>5 DEF NodeInv
    <2>4. ASSUME NEW k \in Key PROVE LogInv(k)'
      BY <2>1 DEF HistInv, LogInv, Entry
    <2> QED BY <2>2, <2>3, <2>4
  <1>3. (\A u \in Tx : Books(u)') /\ (\A k \in Key : NodeInv(k)' /\ LogInv(k)')
    BY <1>2, StepHistInv DEF SINext, Terminated
  <1> QED BY <1>1, <1>3 DEF HistInv

\* In every reachable state the node of a record shows the last version of its
\* history with the versions before it behind, or its lock holder is changing it;
\* what a transaction has read are versions, and what it has compared under a lock
\* are the newest ones.
THEOREM HistoryInvariance == SISpec => []HistInv
  <1>1. SIInit => HistInv BY InitHistInv
  <1>2. HistInv /\ [SINext]_sivars => HistInv' BY NextHistInv
  <1> QED BY <1>1, <1>2, PTL DEF SISpec

\* The position of a version in its history.
LEMMA Position ==
  ASSUME HistInv, NEW k \in Key, NEW j \in DOMAIN log[k], NEW w, log[k][j].by = w
  PROVE  Pos(k, w) = j
  <1>1. Pos(k, w) \in DOMAIN log[k] /\ log[k][Pos(k, w)].by = w BY DEF Pos
  <1> QED BY <1>1 DEF HistInv, LogInv

\* No update is lost: the version that CommitLocalWrite or commit_rpc_handler2
\* replaces is the one that the transaction read, because LockAllSet and
\* lock_rpc_handler compare versions under the lock.
THEOREM NoUpdateLost == SISpec => []NoLostUpdate
  <1>1. ASSUME HistInv PROVE NoLostUpdate
    <2> SUFFICES ASSUME NEW t \in Tx, NEW it \in Range(tx[t].rwset) \cup Range(tx[t].rset),
                        it.kind \in {"upd", "del"}, it.by # Null, Pos(it.key, t) > 0
                 PROVE  log[it.key][Pos(it.key, t) - 1].by = it.by
      BY DEF NoLostUpdate
    <2>1. SITypeOK /\ ItemInv(t) /\ Overwrites(t)
      BY <1>1 DEF HistInv, TsInv, LockInv, Books
    <2>2. it.key \in Key /\ GoodItem(it) /\ Follows(t, it)
      BY <2>1, LocalItem, RemoteItem DEF Range, ItemInv, Overwrites
    <2>3. Pos(it.key, t) \in DOMAIN log[it.key] /\ log[it.key][Pos(it.key, t)].by = t
      BY DEF Pos
    <2> QED BY <2>2, <2>3 DEF GoodItem, Follows
  <1> QED BY <1>1, HistoryInvariance, PTL

-----------------------------------------------------------------------------
(* Snapshots.                                                                 *)

\* A read step works off the program.
LEMMA ReadProgram ==
  ASSUME LockInv, NEW t \in Tx, Read(t)
  PROVE  tx'[t].prog = tx[t].prog \/ tx'[t].prog = Tail(tx[t].prog)
  <1>1. SITypeOK /\ tx[t].prog # <<>> BY ReadFields DEF LockInv
  <1>2. ASSUME NEW s, NEW v, Gets(t, s, v) PROVE tx'[t].prog = Tail(tx[t].prog)
    BY <1>2 DEF Gets
  <1>3. ASSUME NEW c, Walks(t, c) PROVE tx'[t].prog = Tail(tx[t].prog)
    BY <1>2, <1>3 DEF Walks
  <1>4. CASE ReadSeq(t) BY <1>1, <1>2, <1>4, ReadSeqEffect
  <1>5. CASE ReadValue(t) BY <1>1, <1>5, ReadValueEffect
  <1>6. CASE ReadCheck(t) BY <1>1, <1>2, <1>6, ReadCheckEffect
  <1>7. CASE ReadOld(t) BY <1>1, <1>3, <1>7, ReadOldEffect
  <1>8. CASE RoOldCheck(t) BY <1>1, <1>3, <1>8, RoOldCheckEffect
  <1>9. CASE Insert(t) BY <1>1, <1>2, <1>9, InsertEffect
  <1>10. CASE Delete(t) BY <1>1, <1>2, <1>10, DeleteEffect DEF Marks
  <1> QED BY <1>4, <1>5, <1>6, <1>7, <1>8, <1>9, <1>10 DEF Read

\* What a read step does to the sets: nothing, a new item of the current
\* operation, or a deletion of its record.
Adds(t) ==
  \/ tx'[t].rwset = tx[t].rwset /\ tx'[t].rset = tx[t].rset
  \/ \E it : /\ it.key = CurKey(t) /\ it.kind = CurOp(t).kind
             /\ \/ tx'[t].rwset = Append(tx[t].rwset, it) /\ tx'[t].rset = tx[t].rset
                \/ tx'[t].rset = Append(tx[t].rset, it) /\ tx'[t].rwset = tx[t].rwset
  \/ \E j \in DOMAIN tx[t].rwset : CurOp(t).kind = "del" /\ Marks(t, j)

\* Every step of get(), get_ro(), insert() and delete_() is such a step.
LEMMA ReadAdds ==
  ASSUME LockInv, NEW t \in Tx, Read(t) PROVE Adds(t)
  <1>1. SITypeOK /\ tx[t].prog # <<>> BY ReadFields DEF LockInv
  <1>2. ASSUME NEW s, NEW v, Gets(t, s, v) PROVE Adds(t)
    <2> DEFINE it == GotItem(t, s, v)
    <2>1. it.key = CurKey(t) /\ it.kind = CurOp(t).kind BY DEF GotItem
    <2> HIDE DEF it
    <2>2. \/ tx'[t].rwset = tx[t].rwset /\ tx'[t].rset = tx[t].rset
          \/ tx'[t].rwset = Append(tx[t].rwset, it) /\ tx'[t].rset = tx[t].rset
          \/ tx'[t].rset = Append(tx[t].rset, it) /\ tx'[t].rwset = tx[t].rwset
      BY <1>2 DEF Gets, it
    <2> QED BY <2>1, <2>2 DEF Adds
  <1>3. ASSUME NEW c, Walks(t, c) PROVE Adds(t) BY <1>2, <1>3 DEF Walks
  <1>4. CASE Loads(t) BY <1>4 DEF Loads, Adds
  <1>5. CASE ReadSeq(t) BY <1>1, <1>2, <1>4, <1>5, ReadSeqEffect
  <1>6. CASE ReadValue(t) BY <1>1, <1>4, <1>6, ReadValueEffect
  <1>7. CASE ReadCheck(t) BY <1>1, <1>2, <1>4, <1>7, ReadCheckEffect
  <1>8. CASE ReadOld(t) BY <1>1, <1>3, <1>4, <1>8, ReadOldEffect
  <1>9. CASE RoOldCheck(t) BY <1>1, <1>3, <1>4, <1>9, RoOldCheckEffect
  <1>10. CASE Insert(t) BY <1>1, <1>2, <1>10, InsertEffect
  <1>11. CASE Delete(t)
    <2>1. CurOp(t).kind = "del" BY <1>11 DEF Delete
    <2> QED BY <1>1, <1>2, <1>11, <2>1, DeleteEffect DEF Adds
  <1> QED BY <1>5, <1>6, <1>7, <1>8, <1>9, <1>10, <1>11 DEF Read

\* No step brings an operation or an item that deletes a record of Kept.
LEMMA StepNotDeleted ==
  ASSUME LockInv, NEW t \in Tx, Step(t), NotDeleted(t) PROVE NotDeleted(t)'
  <1>1. SITypeOK BY DEF LockInv
  <1>2. CASE InEnd(t) BY <1>2 DEF InEnd, SameData, NotDeleted
  <1>3. CASE Begin(t)
    <2>1. tx'[t].prog \in Programs[t] /\ tx'[t].rwset = <<>> /\ tx'[t].rset = <<>>
      BY <1>1, <1>3, BeginEffect
    <2>2. \A i \in DOMAIN tx'[t].prog :
            tx'[t].prog[i].kind = "del" => tx'[t].prog[i].key \notin Kept
      BY <2>1 DEF Kept
    <2> QED BY <2>1, <2>2 DEF NotDeleted
  <1>4. CASE Read(t)
    <2>1. tx[t].prog # <<>> /\ tx[t].prog \in Seq(Op) /\ Adds(t)
          /\ tx[t].rwset \in Seq(Item) /\ tx[t].rset \in Seq(Item)
      BY <1>1, <1>4, ReadFields, ReadAdds, Fields DEF TxState
    <2>2. /\ 1 \in DOMAIN tx[t].prog /\ Head(tx[t].prog) = tx[t].prog[1]
          /\ \A i \in DOMAIN Tail(tx[t].prog) :
               i + 1 \in DOMAIN tx[t].prog /\ Tail(tx[t].prog)[i] = tx[t].prog[i + 1]
      BY <2>1
    <2>3. CurOp(t).kind = "del" => CurKey(t) \notin Kept
      BY <2>2 DEF NotDeleted, CurOp, CurKey
    <2>4. \A i \in DOMAIN tx'[t].prog :
            tx'[t].prog[i].kind = "del" => tx'[t].prog[i].key \notin Kept
      BY <1>4, <2>2, ReadProgram DEF NotDeleted
    <2>5. CASE tx'[t].rwset = tx[t].rwset /\ tx'[t].rset = tx[t].rset
      BY <2>4, <2>5 DEF NotDeleted
    <2>6. ASSUME NEW it, it.key = CurKey(t), it.kind = CurOp(t).kind,
                 \/ tx'[t].rwset = Append(tx[t].rwset, it) /\ tx'[t].rset = tx[t].rset
                 \/ tx'[t].rset = Append(tx[t].rset, it) /\ tx'[t].rwset = tx[t].rwset
          PROVE  NotDeleted(t)'
      <3>1. ASSUME tx'[t].rwset = Append(tx[t].rwset, it), tx'[t].rset = tx[t].rset
            PROVE  NotDeleted(t)'
        BY <2>1, <2>3, <2>4, <2>6, <3>1, Appended DEF NotDeleted
      <3>2. ASSUME tx'[t].rset = Append(tx[t].rset, it), tx'[t].rwset = tx[t].rwset
            PROVE  NotDeleted(t)'
        BY <2>1, <2>3, <2>4, <2>6, <3>2, Appended DEF NotDeleted
      <3> QED BY <2>6, <3>1, <3>2
    <2>7. ASSUME NEW j \in DOMAIN tx[t].rwset, CurOp(t).kind = "del", Marks(t, j)
          PROVE  NotDeleted(t)'
      <3> DEFINE it == [tx[t].rwset[j] EXCEPT !.kind = "del", !.w = TRUE]
      <3>1. tx[t].rwset[j] \in Item BY <1>1, LocalItem
      <3>2. it.key = CurKey(t) BY <2>7, <3>1 DEF Item, Marks
      <3>3. tx'[t].rwset = [tx[t].rwset EXCEPT ![j] = it] /\ tx'[t].rset = tx[t].rset
        BY <2>7 DEF Marks
      <3> HIDE DEF it
      <3>4. \A i \in DOMAIN tx'[t].rwset : i \in DOMAIN tx[t].rwset
              /\ (tx'[t].rwset[i] = it \/ tx'[t].rwset[i] = tx[t].rwset[i])
        BY <2>1, <3>3
      <3>5. it.key \notin Kept BY <2>3, <2>7, <3>2
      <3>6. \A i \in DOMAIN tx'[t].rwset :
              tx'[t].rwset[i].kind = "del" => tx'[t].rwset[i].key \notin Kept
        BY <3>4, <3>5 DEF NotDeleted
      <3> QED BY <2>4, <3>3, <3>6 DEF NotDeleted
    <2> QED BY <2>1, <2>5, <2>6, <2>7 DEF Adds
  <1> QED BY <1>2, <1>3, <1>4, StepKinds

\* A node that is whole stays so when nothing is installed on it.
LEMMA WholeKept ==
  ASSUME HistInv, NEW t \in Tx, NEW k \in Key, Whole(k), Preserved(t),
         node'[k].seq = node[k].seq, node'[k].value = node[k].value,
         node'[k].old = node[k].old, log'[k] = log[k],
         Working(t, k) => /\ node'[k].lock = node[k].lock
                          /\ PartOf[k] \in tx'[t].swapped <=> PartOf[k] \in tx[t].swapped
  PROVE  Whole(k)'
  <1>1. CASE node[k].seq # Busy BY <1>1 DEF Whole
  <1>2. CASE node[k].seq = Busy
    <2>1. PICK u \in Tx : Changing(k, u) BY <1>2 DEF HistInv, NodeInv
    <2>2. node[k].lock = u /\ Working(u, k) /\ u # NoTx BY <2>1, SIAssumption DEF Changing
    <2>3. node'[k].lock = u
      BY <2>2 DEF Preserved, LockStep
    <2>4. PartOf[k] \in tx'[u].swapped <=> PartOf[k] \in tx[u].swapped
      BY <2>2 DEF Preserved, Alone
    <2>5. /\ PartOf[k] \in tx[u].swapped => Len(node[k].old) = Len(log[k]) /\ node[k].value = u
          /\ PartOf[k] \notin tx[u].swapped => Len(log[k]) = 0 /\ node[k].old = <<>>
      BY <1>2, <2>2 DEF Whole
    <2> QED BY <1>2, <2>3, <2>4, <2>5 DEF Whole
  <1> QED BY <1>1, <1>2

\* An install that is no delete keeps the node whole.
LEMMA InstallWhole ==
  ASSUME HistInv, NEW t \in Tx, NEW it, Target(t, it), InstallAt(t, it),
         it.kind # "del", Whole(it.key)
  PROVE  Whole(it.key)'
  <1> PICK k : k = it.key OBVIOUS
  <1>1. /\ k \in Key /\ node[k].lock = t /\ t # Null /\ Len(log[k]) \in Nat
        /\ node[k].old \in Seq(Version)
    BY SIAssumption, TopVersion DEF Target, HistInv, TsInv, LockInv, SITypeOK, MemNode
  <1>2. CASE Hides(t, it)
    <2>1. /\ PartOf[k] \notin tx[t].swapped /\ tx'[t].swapped = tx[t].swapped /\ log' = log
          /\ node'[k].seq = Busy /\ node'[k].lock = t /\ node'[k].old = node[k].old
          /\ node[k].value = Null /\ node[k].seq # Busy
      BY <1>1, <1>2 DEF Hides, NodeTo, EndTo
    <2>2. Len(log[k]) = 0 /\ node[k].old = <<>> BY <1>1, <2>1 DEF Whole
    <2> QED BY <2>1, <2>2 DEF Whole
  <1>3. CASE SwapsAny(t, it)
    <2>1. /\ node'[k].seq = Busy /\ node'[k].lock = t /\ node'[k].value = t
          /\ PartOf[k] \in tx'[t].swapped
          /\ node[k].value # Null => Len(node'[k].old) = Len(node[k].old) + 1
          /\ node[k].value = Null => node'[k].old = <<>> /\ node[k].seq = Busy
      BY <1>3, SwapChain
    <2>2. log' = log /\ PartOf[k] \notin tx[t].swapped BY <1>3 DEF SwapsAny, Swaps
    <2>3. Len(node'[k].old) = Len(log[k])
      <3>1. CASE node[k].value = Null
        <4>1. Len(log[k]) = 0 BY <1>1, <2>1, <2>2, <3>1 DEF Whole
        <4> QED BY <2>1, <3>1, <4>1
      <3>2. CASE node[k].value # Null
        <4>1. node[k].seq = TopVer(k) /\ Len(log[k]) > 0 BY <2>2, <3>2, TargetNode
        <4>2. node[k].seq # Busy BY <1>1, <4>1, TopVersion
        <4> QED BY <1>1, <2>1, <3>2, <4>1, <4>2 DEF Whole
      <3> QED BY <3>1, <3>2
    <2> QED BY <2>1, <2>2, <2>3 DEF Whole
  <1>4. CASE PublishesAny(t, it)
    <2>1. /\ PartOf[k] \in tx[t].swapped /\ node'[k].seq # Busy
          /\ node'[k].value = node[k].value /\ node'[k].old = node[k].old
      BY <1>4, PublishLog
    <2>2. Len(log'[k]) = Len(log[k]) + 1 BY <1>4, PublishLog DEF Extended
    <2>3. node[k].seq = Busy BY <2>1, TargetNode
    <2>4. Len(node[k].old) = Len(log[k]) /\ node[k].value = t BY <1>1, <2>1, <2>3 DEF Whole
    <2> QED BY <1>1, <2>1, <2>2, <2>4 DEF Whole
  <1> QED BY <1>2, <1>3, <1>4 DEF InstallAt

\* Records of Kept keep their whole history through every step.
LEMMA StepWhole ==
  ASSUME SnapshotInv, NEW t \in Tx, Step(t), NEW k \in Kept PROVE Whole(k)'
  <1>1. HistInv /\ LockInv /\ Preserved(t) /\ k \in Key /\ Whole(k) /\ NotDeleted(t)
    BY StepPreserves DEF SnapshotInv, HistInv, TsInv, Kept
  <1>2. CASE NoInstall(t)
    <2>1. SameVersions /\ ~Working(t, k) BY <1>1, <1>2 DEF NoInstall
    <2> QED BY <1>1, <2>1, WholeKept DEF SameVersions
  <1>3. CASE Installs(t)
    <2>1. PICK it : Target(t, it) /\ Elsewhere(t, it.key) /\ InstallAt(t, it)
      BY <1>1, <1>3, InstallItem
    <2>2. CASE k = it.key
      <3>1. it.kind # "del"
        BY <1>1, <2>1, <2>2 DEF Target, Own, LocalWrites, RemoteWrites, NotDeleted
      <3>2. Whole(it.key)' BY <1>1, <2>1, <2>2, <3>1, InstallWhole
      <3> QED BY <2>2, <3>2
    <2>3. CASE k # it.key
      <3>1. node'[k] = node[k] /\ log'[k] = log[k] BY <1>1, <2>1, <2>3, InstallFields
      <3>2. Working(t, k) => (PartOf[k] \in tx'[t].swapped <=> PartOf[k] \in tx[t].swapped)
        BY <1>1, <2>1, <2>3, InstallFields DEF Elsewhere
      <3> QED BY <1>1, <3>1, <3>2, WholeKept
    <2> QED BY <2>2, <2>3
  <1> QED BY <1>1, <1>2, <1>3, StepKinds

\* A good read stays good: a version published later carries an open timestamp,
\* which no start vector covers.
LEMMA GoodReadKept ==
  ASSUME HistInv, NEW t \in Tx, Step(t), NEW u \in Tx, vec'[u] = vec[u],
         NEW r, r.key \in Key, GoodRead(u, r)
  PROVE  GoodRead(u, r)'
  <1>1. \A s : Sees(u, s)' <=> Sees(u, s) BY DEF Sees
  <1>2. TsInv /\ LockInv BY DEF HistInv, TsInv
  <1>3. CASE NoInstall(t)
    <2>1. log' = log BY <1>3 DEF NoInstall, SameVersions
    <2> QED BY <1>1, <2>1 DEF GoodRead, Logged
  <1>4. CASE Installs(t)
    <2>1. PICK it : Target(t, it) /\ InstallAt(t, it) BY <1>4, InstallItem
    <2> DEFINE k == r.key
    <2>2. /\ DOMAIN log[k] \subseteq DOMAIN log'[k]
          /\ \A j \in DOMAIN log[k] : log'[k][j] = log[k][j]
          /\ \A j \in DOMAIN log'[k] : j \notin DOMAIN log[k] => log'[k][j].ver = tx[t].commit_ts
          /\ \A s, v : Logged(k, s, v) => Logged(k, s, v)'
      BY <2>1, LogGrows
    <2>3. ~Sees(u, tx[t].commit_ts)
      <3>1. tx[t].pc \in Installing /\ Stamp(t) /\ Clocks /\ Home[t] \in Part
        BY <1>2, <2>1, SIAssumption DEF Target, TsInv
      <3>2. PICK c \in open[Home[t]] : tx[t].commit_ts = <<Home[t], c>> BY <3>1 DEF Stamp
      <3>3. vec[u][Home[t]] < c BY <3>1 DEF Clocks
      <3>4. vec[u][Home[t]] \in Nat /\ c \in Nat BY <1>2, <3>1 DEF LockInv, SITypeOK
      <3> QED BY <3>2, <3>3, <3>4 DEF Sees
    <2>4. (r.by = Null \/ (Sees(u, r.ver) /\ Logged(r.key, r.ver, r.by)))'
      BY <1>1, <2>2 DEF GoodRead
    <2>5. ASSUME r.key \in Kept, NEW j \in DOMAIN log'[k], Sees(u, log'[k][j].ver)
          PROVE  \E i \in DOMAIN log'[k] : i >= j /\ log'[k][i].by = r.by
      <3>1. j \in DOMAIN log[k] BY <2>2, <2>3, <2>5
      <3>2. \E i \in DOMAIN log[k] : i >= j /\ log[k][i].by = r.by
        BY <2>2, <2>5, <3>1 DEF GoodRead
      <3> QED BY <2>2, <3>2
    <2> QED BY <1>1, <2>4, <2>5 DEF GoodRead
  <1> QED BY <1>2, <1>3, <1>4, StepKinds

\* The walk over the old versions of a node that is whole: what it skips is not
\* covered, and the version it starts from is not either.
LEMMA WalkFinal ==
  ASSUME HistInv, NEW t \in Tx, NEW k \in Key, node[k].seq # Busy,
         ~Sees(t, node[k].seq), tx[t].pc # "idle"
  PROVE  /\ (\A m \in DOMAIN node[k].old : ~Sees(t, node[k].old[m].ver)) =>
              GoodRead(t, [key |-> k, ver |-> Busy, by |-> Null]) \/ (k \in Kept /\ ~Whole(k))
         /\ \A m \in DOMAIN node[k].old :
              /\ Sees(t, node[k].old[m].ver)
              /\ \A h \in 1..(m - 1) : ~Sees(t, node[k].old[h].ver)
              => \/ GoodRead(t, [key |-> k, ver |-> node[k].old[m].ver, by |-> node[k].old[m].by])
                 \/ (k \in Kept /\ ~Whole(k))
  <1> DEFINE n == Len(log[k])
             old == node[k].old
  <1>1. /\ Settled(k) /\ TsInv /\ n \in Nat /\ DOMAIN log[k] = 1..n /\ old \in Seq(Version)
    BY TopVersion DEF HistInv, NodeInv, TsInv, LockInv, SITypeOK, MemNode
  <1>2. n > 0 /\ node[k].seq = log[k][n].ver /\ Chain(k, n - 1)
    BY <1>1, SeesConstants, TopVersion DEF Settled
  <1>3. DOMAIN old = 1..Len(old) /\ Len(old) \in Nat BY <1>1
  <1>4. ASSUME k \in Kept => Whole(k), k \in Kept, NEW j \in DOMAIN log[k], j # n
        PROVE  n - j \in DOMAIN old /\ old[n - j] = log[k][j]
    <2>1. Len(old) + 1 = n BY <1>2, <1>4 DEF Whole
    <2>2. j \in Nat /\ 1 <= j /\ j < n BY <1>1, <1>4
    <2>3. n - j \in 1..Len(old) /\ (n - 1) + 1 - (n - j) = j
      <3>1. ASSUME NEW a \in Nat, NEW b \in Nat, NEW i \in Nat, 1 <= i, i < a, b + 1 = a
            PROVE  a - i \in 1..b /\ (a - 1) + 1 - (a - i) = i
        BY <3>1
      <3> QED BY <1>1, <1>3, <2>1, <2>2, <3>1
    <2>4. n - j \in DOMAIN old BY <1>3, <2>3
    <2> QED BY <1>2, <2>3, <2>4 DEF Chain
  <1>5. ASSUME \A m \in DOMAIN old : ~Sees(t, old[m].ver), k \in Kept => Whole(k)
        PROVE  GoodRead(t, [key |-> k, ver |-> Busy, by |-> Null])
    <2>1. k \in Kept => \A j \in DOMAIN log[k] : ~Sees(t, log[k][j].ver)
      BY <1>2, <1>4, <1>5
    <2> QED BY <2>1 DEF GoodRead
  <1>6. ASSUME NEW m \in DOMAIN old, Sees(t, old[m].ver),
               \A h \in 1..(m - 1) : ~Sees(t, old[h].ver), k \in Kept => Whole(k)
        PROVE  GoodRead(t, [key |-> k, ver |-> old[m].ver, by |-> old[m].by])
    <2>1. Logged(k, old[m].ver, old[m].by) BY NodeShows
    <2>2. m \in Nat /\ 1 <= m /\ m <= n - 1 /\ old[m] = log[k][n - 1 + 1 - m]
      BY <1>2, <1>3 DEF Chain
    <2>3. n - 1 + 1 - m = n - m /\ n - m \in DOMAIN log[k] BY <1>1, <2>2
    <2>4. ASSUME k \in Kept, NEW j \in DOMAIN log[k], Sees(t, log[k][j].ver)
          PROVE  n - m >= j /\ log[k][n - m].by = old[m].by
      <3>1. j # n BY <1>2, <2>4
      <3>2. n - j \in DOMAIN old /\ old[n - j] = log[k][j] BY <1>4, <1>6, <2>4, <3>1
      <3>3. n - j \notin 1..(m - 1) BY <1>6, <2>4, <3>2
      <3> QED BY <1>1, <1>3, <2>2, <2>3, <3>2, <3>3
    <2>5. k \in Kept => \A j \in DOMAIN log[k] : Sees(t, log[k][j].ver) =>
            \E i \in DOMAIN log[k] : i >= j /\ log[k][i].by = old[m].by
      BY <2>3, <2>4
    <2> DEFINE r == [key |-> k, ver |-> old[m].ver, by |-> old[m].by]
    <2>6. r.key = k /\ r.ver = old[m].ver /\ r.by = old[m].by OBVIOUS
    <2> HIDE DEF r
    <2>7. GoodRead(t, r) BY <1>6, <2>1, <2>5, <2>6 DEF GoodRead
    <2> QED BY <2>7 DEF r
  <1> QED BY <1>5, <1>6

\* What get_ro() returns.
LEMMA NewRead ==
  ASSUME SnapshotInv, NEW t \in Tx, Read(t), NEW r \in tx'[t].snap
  PROVE  r \in tx[t].snap \/ GoodRead(t, r)
  <1>1. HistInv /\ TsInv /\ LockInv /\ SITypeOK /\ ReadInv(t)
    BY DEF SnapshotInv, HistInv, TsInv, LockInv, Books
  <1>2. tx[t].pc \in ReadPhase /\ tx[t].prog # <<>> /\ tx[t].pc # "idle"
    BY <1>1, ReadFields DEF ReadPhase
  <1>3. PICK k \in Key : k = CurKey(t) BY <1>1, <1>2, Current
  <1>4. k \in Kept => Whole(k) BY DEF SnapshotInv
  <1>5. ASSUME NEW s, NEW v, Gets(t, s, v),
               CurOp(t).kind = "ro" => GoodRead(t, [key |-> k, ver |-> s, by |-> v])
        PROVE  r \in tx[t].snap \/ GoodRead(t, r)
    BY <1>3, <1>5 DEF Gets, GotRead
  <1>6. CASE Loads(t) BY <1>6 DEF Loads
  <1>7. CASE ReadSeq(t)
    <2>1. CASE node[k].seq = NoVer /\ Gets(t, Busy, Null)
      <3>1. node[k].seq # Busy BY <2>1 DEF NoVer, Busy
      <3>2. Settled(k) BY <1>1, <3>1 DEF HistInv, NodeInv
      <3>3. DOMAIN log[k] = {} BY <1>1, <2>1, <3>2, TopVersion DEF Settled
      <3>4. GoodRead(t, [key |-> k, ver |-> Busy, by |-> Null]) BY <3>3 DEF GoodRead
      <3> QED BY <1>5, <2>1, <3>4
    <2> QED BY <1>1, <1>3, <1>6, <1>7, <2>1, ReadSeqEffect
  <1>8. CASE ReadValue(t) BY <1>1, <1>2, <1>6, <1>8, ReadValueEffect
  <1>9. CASE ReadCheck(t)
    <2>1. tx[t].pc = "chk" BY <1>9 DEF ReadCheck
    <2>2. ASSUME tx[t].seq # Busy, node[k].seq = tx[t].seq, NEW s,
                 s = IF tx[t].val = Null THEN NoVer ELSE tx[t].seq, Gets(t, s, tx[t].val),
                 CurOp(t).kind = "ro"
          PROVE  GoodRead(t, [key |-> k, ver |-> s, by |-> tx[t].val])
      <3>1. /\ tx[t].val # Null /\ Sees(t, tx[t].seq) /\ Logged(k, tx[t].seq, tx[t].val)
            /\ s = tx[t].seq
        BY <1>1, <1>3, <2>1, <2>2 DEF ReadInv, ReadPhase
      <3>2. PICK m \in DOMAIN log[k] : log[k][m].ver = s /\ log[k][m].by = tx[t].val
        BY <3>1 DEF Logged
      <3>3. TopVer(k) = s BY <1>1, <2>2, <3>1 DEF HistInv, NodeInv, Settled
      <3>4. /\ Len(log[k]) \in DOMAIN log[k] /\ log[k][Len(log[k])].ver = s
            /\ DOMAIN log[k] = 1..Len(log[k]) /\ Len(log[k]) \in Nat
        BY <1>1, <3>2, <3>3, TopVersion
      <3>5. m = Len(log[k]) BY <1>1, <3>2, <3>4, VersionsDiffer
      <3>6. \A j \in DOMAIN log[k] : m >= j BY <3>4, <3>5
      <3> QED BY <3>1, <3>2, <3>6 DEF GoodRead
    <2> PICK s : s = IF tx[t].val = Null THEN NoVer ELSE tx[t].seq OBVIOUS
    <2>3. CASE tx[t].seq # Busy /\ node[k].seq = tx[t].seq /\ Gets(t, s, tx[t].val)
      BY <1>5, <2>2, <2>3
    <2> QED BY <1>1, <1>2, <1>3, <1>6, <1>9, <2>3, ReadCheckEffect
  <1>10. ASSUME NEW s, NEW v, Gets(t, s, v), CurOp(t).kind # "ro"
         PROVE  r \in tx[t].snap \/ GoodRead(t, r)
    BY <1>5, <1>10
  <1>11. CASE ReadOld(t)
    <2>1. CASE CurOp(t).kind # "ro" /\ Walks(t, node[CurKey(t)].old)
      BY <1>10, <2>1 DEF Walks
    <2> QED BY <1>1, <1>2, <1>6, <1>11, <2>1, ReadOldEffect
  <1>12. CASE RoOldCheck(t)
    <2>1. tx[t].pc = "ochk" BY <1>12 DEF RoOldCheck
    <2>2. CASE node[k].seq = tx[t].seq /\ Walks(t, tx[t].chain)
      <3>1. tx[t].chain = node[k].old /\ ~Sees(t, node[k].seq)
        BY <1>1, <1>3, <2>1, <2>2 DEF ReadInv, ReadPhase
      <3>2. node[k].seq # Busy BY <1>1, <1>2, <3>1, SeesConstants
      <3>3. CASE /\ \A j \in DOMAIN node[k].old : ~Sees(t, node[k].old[j].ver)
                 /\ Gets(t, Busy, Null)
        <4>1. GoodRead(t, [key |-> k, ver |-> Busy, by |-> Null])
          BY <1>1, <1>2, <1>4, <3>1, <3>2, <3>3, WalkFinal
        <4> QED BY <1>5, <3>3, <4>1
      <3>4. ASSUME NEW j \in DOMAIN node[k].old, Sees(t, node[k].old[j].ver),
                   \A h \in 1..(j - 1) : ~Sees(t, node[k].old[h].ver),
                   Gets(t, node[k].old[j].ver, node[k].old[j].by)
            PROVE  r \in tx[t].snap \/ GoodRead(t, r)
        <4>1. GoodRead(t, [key |-> k, ver |-> node[k].old[j].ver, by |-> node[k].old[j].by])
          BY <1>1, <1>2, <1>4, <3>1, <3>2, <3>4, WalkFinal
        <4> QED BY <1>5, <3>4, <4>1
      <3>5. Walks(t, node[k].old) BY <2>2, <3>1
      <3> QED BY <3>3, <3>4, <3>5 DEF Walks
    <2> QED BY <1>1, <1>2, <1>3, <1>6, <1>12, <2>2, RoOldCheckEffect
  <1>13. CASE Insert(t)
    <2>1. CurOp(t).kind # "ro" BY <1>13 DEF Insert
    <2> QED BY <1>1, <1>10, <1>13, <2>1, InsertEffect
  <1>14. CASE Delete(t)
    <2>1. CurOp(t).kind # "ro" BY <1>14 DEF Delete
    <2>2. ASSUME NEW j, Marks(t, j) PROVE r \in tx[t].snap BY <2>2 DEF Marks
    <2> QED BY <1>1, <1>10, <1>14, <2>1, <2>2, DeleteEffect
  <1> QED BY <1>7, <1>8, <1>9, <1>11, <1>12, <1>13, <1>14 DEF Read

\* No step leaves a transaction idle.
LEMMA NotIdle ==
  ASSUME LockInv, NEW t \in Tx, Step(t) PROVE tx'[t].pc # "idle"
  <1>1. SITypeOK BY DEF LockInv
  <1>2. CASE Begin(t) BY <1>1, <1>2, BeginEffect
  <1>3. CASE Read(t) BY <1>3, ReadFields DEF ReadPhase
  <1>4. CASE InEnd(t) BY <1>4 DEF InEnd, Free
  <1> QED BY <1>2, <1>3, <1>4, StepKinds

\* Every step keeps what has been returned right.
LEMMA StepSnap ==
  ASSUME SnapshotInv, NEW t \in Tx, Step(t), NEW u \in Tx PROVE SnapInv(u)'
  <1>1. HistInv /\ TsInv /\ LockInv /\ SITypeOK /\ Preserved(t) /\ SnapInv(u)
    BY StepPreserves DEF SnapshotInv, HistInv, TsInv, LockInv
  <1>2. tx[u].snap \subseteq [key : Key, ver : Ver, by : Val]
        /\ tx'[u].snap \subseteq [key : Key, ver : Ver, by : Val]
    BY <1>1 DEF Preserved, SITypeOK, TxState
  <1>3. \A r \in tx[u].snap : r.key \in Key BY <1>2
  <1>4. CASE u # t
    <2>1. tx'[u] = tx[u] /\ vec'[u] = vec[u] BY <1>1, <1>4, Vectors DEF Preserved, Alone
    <2>2. \A r \in tx[u].snap : GoodRead(u, r)' BY <1>1, <1>3, <2>1, GoodReadKept DEF SnapInv
    <2> QED BY <1>1, <2>1, <2>2 DEF SnapInv
  <1>5. CASE u = t
    <2>1. tx'[t].pc # "idle" BY <1>1, NotIdle
    <2>2. CASE Begin(t)
      <3>1. tx'[t].snap = {} BY <1>1, <1>5, <2>2, BeginEffect DEF SnapInv
      <3> QED BY <1>5, <2>1, <3>1 DEF SnapInv
    <2>3. ASSUME vec' = vec, NEW r \in tx'[t].snap, GoodRead(t, r) PROVE GoodRead(t, r)'
      BY <1>1, <1>2, <1>5, <2>3, GoodReadKept
    <2>4. CASE Read(t)
      <3>1. vec' = vec BY <1>1, <2>4, ReadFields
      <3>2. \A r \in tx'[t].snap : GoodRead(t, r)
        BY <1>1, <1>5, <2>4, NewRead DEF SnapInv
      <3> QED BY <1>5, <2>1, <2>3, <3>1, <3>2 DEF SnapInv
    <2>5. CASE InEnd(t) /\ ~Begin(t)
      <3>1. tx'[t].snap = tx[t].snap BY <2>5 DEF InEnd, SameData
      <3>2. vec' = vec
        <4>1. KeepsClocks(t) \/ GetCommitTs(t) \/ CommitTs(t) BY <1>1, <2>5, StepKinds
        <4> QED BY <4>1 DEF KeepsClocks, SameClocks, GetCommitTs, CommitTs, TakeTs, EndTs
      <3>3. \A r \in tx'[t].snap : GoodRead(t, r) BY <1>1, <1>5, <3>1 DEF SnapInv
      <3> QED BY <1>5, <2>1, <2>3, <3>2, <3>3 DEF SnapInv
    <2> QED BY <1>1, <2>2, <2>4, <2>5, StepKinds
  <1> QED BY <1>4, <1>5

\* Initially nothing has been returned.
LEMMA InitSnapshotInv == ASSUME SIInit PROVE SnapshotInv
  <1>1. HistInv BY InitHistInv
  <1>2. /\ \A t \in Tx : /\ tx[t].prog = <<>> /\ tx[t].rwset = <<>> /\ tx[t].rset = <<>>
                         /\ tx[t].snap = {}
        /\ \A k \in Key : /\ node[k].old = <<>>
                          /\ node[k].seq = IF k \in Absent THEN NoVer ELSE First
                          /\ node[k].value = IF k \in Absent THEN Null ELSE Loaded
                          /\ log[k] = IF k \in Absent THEN <<>>
                                      ELSE <<[ver |-> First, by |-> Loaded]>>
    BY DEF SIInit
  <1>3. \A t \in Tx : NotDeleted(t) /\ SnapInv(t) BY <1>2 DEF NotDeleted, SnapInv
  <1>4. ASSUME NEW k \in Kept PROVE Whole(k)
    <2>1. k \in Key /\ NoVer # Busy /\ First # Busy /\ Loaded # Null
      BY SIAssumption DEF Kept, NoVer, Busy, First
    <2>2. CASE k \in Absent BY <1>2, <2>1, <2>2 DEF Whole
    <2>3. CASE k \notin Absent
      <3>1. Len(log[k]) = 1 /\ Len(node[k].old) = 0 BY <1>2, <2>1, <2>3
      <3> QED BY <1>2, <2>1, <2>3, <3>1 DEF Whole
    <2> QED BY <2>2, <2>3
  <1> QED BY <1>1, <1>3, <1>4 DEF SnapshotInv

\* The invariant is inductive.
LEMMA NextSnapshotInv == ASSUME SnapshotInv, [SINext]_sivars PROVE SnapshotInv'
  <1>1. HistInv /\ HistInv' /\ LockInv BY NextHistInv DEF SnapshotInv, HistInv, TsInv
  <1>2. ASSUME NEW t \in Tx, Step(t)
        PROVE  /\ \A u \in Tx : NotDeleted(u)' /\ SnapInv(u)'
               /\ \A k \in Kept : Whole(k)'
    <2>1. ASSUME NEW u \in Tx PROVE NotDeleted(u)'
      <3>1. NotDeleted(u) BY DEF SnapshotInv
      <3>2. CASE u # t
        <4>1. tx'[u] = tx[u] BY <1>1, <1>2, <3>2, StepPreserves DEF Preserved, Alone
        <4> QED BY <3>1, <4>1 DEF NotDeleted
      <3> QED BY <1>1, <1>2, <3>1, <3>2, StepNotDeleted
    <2> QED BY <1>2, <2>1, StepSnap, StepWhole
  <1>3. ASSUME UNCHANGED sivars
        PROVE  /\ \A u \in Tx : NotDeleted(u)' /\ SnapInv(u)'
               /\ \A k \in Kept : Whole(k)'
    <2>1. tx' = tx /\ node' = node /\ log' = log /\ vec' = vec BY <1>3 DEF sivars
    <2>2. \A u \in Tx : NotDeleted(u)' BY <2>1 DEF SnapshotInv, NotDeleted
    <2>3. \A u \in Tx : SnapInv(u)'
      BY <2>1 DEF SnapshotInv, SnapInv, GoodRead, Logged, Sees
    <2>4. \A k \in Kept : Whole(k)' BY <2>1 DEF SnapshotInv, Whole
    <2> QED BY <2>2, <2>3, <2>4
  <1>4. /\ \A u \in Tx : NotDeleted(u)' /\ SnapInv(u)'
        /\ \A k \in Kept : Whole(k)'
    BY <1>2, <1>3 DEF SINext, Terminated
  <1> QED BY <1>1, <1>4 DEF SnapshotInv

\* In every reachable state the node of a record that no program deletes holds
\* the whole history, and every snapshot read so far is final.
THEOREM SnapshotInvariance == SISpec => []SnapshotInv
  <1>1. SIInit => SnapshotInv BY InitSnapshotInv
  <1>2. SnapshotInv /\ [SINext]_sivars => SnapshotInv' BY NextSnapshotInv
  <1> QED BY <1>1, <1>2, PTL DEF SISpec

\* SnapshotFinal and NoFracturedRead, for the records that no program deletes.
KeptFinal ==
  \A t \in Tx : \A r \in tx[t].snap : r.key \in Kept => \A j \in DOMAIN log[r.key] :
    Sees(t, log[r.key][j].ver) => j <= Pos(r.key, r.by)
KeptWhole ==
  \A t \in Tx : \A r, q \in tx[t].snap : q.key \in Kept =>
    (r.by \in Tx => Pos(q.key, q.by) >= Pos(q.key, r.by))

\* Both follow from the invariant.
LEMMA KeptReads == ASSUME SnapshotInv PROVE KeptFinal /\ KeptWhole
  <1>1. HistInv BY DEF SnapshotInv
  <1>2. \A t \in Tx : \A r \in tx[t].snap : r.key \in Key /\ GoodRead(t, r)
    BY DEF SnapshotInv, SnapInv, HistInv, TsInv, LockInv, SITypeOK, TxState
  <1>3. ASSUME NEW t \in Tx, NEW r \in tx[t].snap, r.key \in Kept,
               NEW j \in DOMAIN log[r.key], Sees(t, log[r.key][j].ver)
        PROVE  j <= Pos(r.key, r.by)
    <2>1. PICK i \in DOMAIN log[r.key] : i >= j /\ log[r.key][i].by = r.by
      BY <1>2, <1>3 DEF GoodRead
    <2>2. Pos(r.key, r.by) = i BY <1>1, <1>2, <2>1, Position
    <2>3. i \in Nat /\ j \in Nat BY <1>1, <1>2, TopVersion
    <2> QED BY <2>1, <2>2, <2>3
  <1>4. ASSUME NEW t \in Tx, NEW r \in tx[t].snap, NEW q \in tx[t].snap, q.key \in Kept,
               r.by \in Tx
        PROVE  Pos(q.key, q.by) >= Pos(q.key, r.by)
    <2>1. \A w : Pos(q.key, w) \in Nat
      <3>1. DOMAIN log[q.key] \subseteq Nat BY <1>1, <1>2, TopVersion
      <3>2. \A w : Pos(q.key, w) = 0 \/ Pos(q.key, w) \in DOMAIN log[q.key] BY DEF Pos
      <3> QED BY <3>1, <3>2
    <2>2. CASE \A j \in DOMAIN log[q.key] : log[q.key][j].by # r.by
      <3>1. Pos(q.key, r.by) = 0 BY <2>2 DEF Pos
      <3> QED BY <2>1, <3>1
    <2>3. ASSUME NEW j \in DOMAIN log[q.key], log[q.key][j].by = r.by
          PROVE  Pos(q.key, q.by) >= Pos(q.key, r.by)
      <3>1. Pos(q.key, r.by) = j BY <1>1, <1>2, <2>3, Position
      <3>2. r.by # Null /\ r.by # Loaded BY <1>4, SIAssumption
      <3>3. PICK i \in DOMAIN log[r.key] : log[r.key][i].ver = r.ver /\ log[r.key][i].by = r.by
        BY <1>2, <3>2 DEF GoodRead, Logged
      <3>4. Entry(r.key, log[r.key][i]) /\ Entry(q.key, log[q.key][j])
        BY <1>1, <1>2 DEF HistInv, LogInv
      <3>5. log[q.key][j].ver = r.ver BY <2>3, <3>2, <3>3, <3>4 DEF Entry
      <3>6. Sees(t, r.ver) BY <1>2, <3>2 DEF GoodRead
      <3>7. j <= Pos(q.key, q.by) BY <1>3, <1>4, <3>5, <3>6
      <3>8. j \in Nat BY <2>1, <3>1
      <3> QED BY <2>1, <3>1, <3>7, <3>8
    <2> QED BY <2>2, <2>3
  <1> QED BY <1>3, <1>4 DEF KeptFinal, KeptWhole

\* get_ro() of a record that no program deletes returns the last version that the
\* start vector covers, and none is published afterwards; and a read-only
\* transaction that sees a write of another one sees its write of such a record.
THEOREM KeptSnapshots == SISpec => [](KeptFinal /\ KeptWhole)
  <1>1. SnapshotInv => KeptFinal /\ KeptWhole BY KeptReads
  <1> QED BY <1>1, SnapshotInvariance, PTL

\* Without deletes every snapshot read is final, for any number of machines,
\* records and transactions, although versions are published one by one and
\* timestamps end out of order.
THEOREM SnapshotsFinal == ASSUME Kept = Key PROVE SISpec => []SnapshotFinal
  <1>1. ASSUME SnapshotInv PROVE SnapshotFinal
    <2>1. KeptFinal BY <1>1, KeptReads
    <2>2. \A t \in Tx : \A r \in tx[t].snap : r.key \in Key
      BY <1>1 DEF SnapshotInv, HistInv, TsInv, LockInv, SITypeOK, TxState
    <2> QED BY <2>1, <2>2 DEF KeptFinal, SnapshotFinal
  <1> QED BY <1>1, SnapshotInvariance, PTL

\* Without deletes no read-only transaction sees a part of a transaction's writes.
THEOREM NotFractured == ASSUME Kept = Key PROVE SISpec => []NoFracturedRead
  <1>1. ASSUME SnapshotInv PROVE NoFracturedRead
    <2>1. KeptWhole BY <1>1, KeptReads
    <2>2. \A t \in Tx : \A r \in tx[t].snap : r.key \in Key
      BY <1>1 DEF SnapshotInv, HistInv, TsInv, LockInv, SITypeOK, TxState
    <2> QED BY <2>1, <2>2 DEF KeptWhole, NoFracturedRead
  <1> QED BY <1>1, SnapshotInvariance, PTL
====
