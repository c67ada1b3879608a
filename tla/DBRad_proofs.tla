---------------------------- MODULE DBRad_proofs ----------------------------
(***************************************************************************)
(* Proofs about DBRad, for any number of records, transactions, partitions *)
(* and any programs: the types, and who holds which lock when.             *)
(*                                                                         *)
(* LockInv is the inductive invariant.  Every action of a transaction t is *)
(* shown to be `Preserved(t)': the types, t's own part of LockInv and the  *)
(* rule LockStep(t) that a lock only goes from free to t or from t to free.*)
(* OthersUndisturbed turns LockStep(t) into everybody else's part.         *)
(***************************************************************************)
EXTENDS DBRad, TLAPS

\* The labels the actions assign are program counters.
LEMMA Phases ==
  /\ {"exec", "val", "chk"} \subseteq PC
  /\ {"lock_remote", "lock_all", "lock_chk", "commit", "commit_remote"} \subseteq PC
  /\ {"release_remote", "release_all"} \subseteq PC
  /\ {"ro_ts", "ro_lock", "ro_set", "ro_seq", "ro_lk", "ro_wait",
                 "ro_get", "ro_val", "ro_chk", "ro_old", "ro_ochk"} \subseteq PC
  /\ {"committed", "aborted", "ro_done"} \subseteq PC
BY DEF PC, ExecPhase, LockPhase, CommitPhase, ReleasePhase, RoPhase, Finished

\* Become(t, x) changes the state of t to x and of nobody else.
LEMMA Becomes ==
  ASSUME tx \in [Tx -> TxState], NEW t \in Tx, NEW x \in TxState, Become(t, x)
  PROVE  /\ tx' \in [Tx -> TxState] /\ tx'[t] = x
         /\ \A u \in Tx : u # t => tx'[u] = tx[u]
BY DEF Become

\* An unfinished program has a next operation on some record.
LEMMA CurKeyInKey ==
  ASSUME tx \in [Tx -> TxState], NEW t \in Tx, tx[t].prog # <<>>
  PROVE  /\ CurKey(t) \in Key /\ Head(tx[t].prog).kind \in Kind
         /\ Tail(tx[t].prog) \in Seq(Op)
  <1>1. tx[t].prog \in Seq(Op) BY DEF TxState
  <1>2. Head(tx[t].prog) \in Op BY <1>1
  <1> QED BY <1>1, <1>2 DEF CurKey, Op

\* AddItem (WriteSet::Add, RemoteSet::add) yields a transaction state.
LEMMA AddItemType ==
  ASSUME TypeOK, NEW t \in Tx, tx[t].prog # <<>>, NEW k \in Key, NEW s \in Nat,
         NEW v \in Val, NEW kd \in Kind
  PROVE  AddItem(t, k, s, v, kd) \in TxState
  <1> DEFINE it == [key |-> k, seq |-> s, by |-> v, kind |-> kd, w |-> kd # "get"]
  <1>1. it \in Item BY DEF Item
  <1>2. tx[t] \in TxState BY DEF TypeOK
  <1>3. Append(tx[t].rwset, it) \in Seq(Item) /\ Append(tx[t].rset, it) \in Seq(Item)
     BY <1>1, <1>2 DEF TxState
  <1>4. (IF it.kind = "ins" THEN tx[t].timestamp ELSE MAX(it.seq, tx[t].timestamp)) \in Nat
     BY <1>1, <1>2 DEF MAX, TxState, Item
  <1>5. Tail(tx[t].prog) \in Seq(Op) BY CurKeyInKey DEF TypeOK
  <1> HIDE DEF it
  <1>6. [tx[t] EXCEPT !.pc = "exec", !.prog = Tail(@),
                         !.rwset = Append(@, it),
                         !.timestamp = IF it.kind = "ins" THEN @ ELSE MAX(it.seq, @)]
          \in TxState
    BY <1>2, <1>3, <1>4, <1>5, Phases DEF TxState
  <1>7. [tx[t] EXCEPT !.pc = "exec", !.prog = Tail(@),
                         !.rset = Append(@, it)] \in TxState
    BY <1>2, <1>3, <1>4, <1>5, Phases DEF TxState
  <1> QED BY <1>6, <1>7 DEF AddItem, AddLocal, AddRemote, NewItem, it

\* The phases outside end().
Free == {Idle, "ro_done"} \cup ExecPhase \cup RoPhase

\* What a step of t may do to the locks.
LockStep(t) ==
  \A k \in Key :
    \/ node'[k].lock = node[k].lock
    \/ node[k].lock = NoTx /\ node'[k].lock = t /\ tx'[t] # tx[t]
    \/ node[k].lock = t /\ node'[k].lock = NoTx /\ tx'[t] # tx[t]

\* What is shown of every step of t.
Preserved(t) ==
  /\ TypeOK' /\ Control(t)' /\ Locks(t)' /\ LockStep(t)
  /\ \A u \in Tx : u # t => tx'[u] = tx[u]

\* Outside end() the bookkeeping says that t holds no lock.
LEMMA FreeHoldsNothing ==
  ASSUME NEW t \in Tx, tx[t].pc \in Free
  PROVE  LocalHeld(t) = {} /\ RemoteHeld(t) = {} /\ RemoteMayHold(t) = {}
BY DEF Free, Idle, ExecPhase, RoPhase, LocalHeld, RemoteHeld, RemoteMayHold

\* A step between two phases outside end() that changes no lock and keeps local
\* items in rwset and remote ones in the remote set preserves the invariant.
LEMMA Quiet ==
  ASSUME LockInv, NEW t \in Tx, NEW x \in TxState, Become(t, x),
         tx[t].pc \in Free, x.pc \in Free,
         x.todo = tx[t].todo, x.i = tx[t].i, x.current = 0,
         x.pc \in {"val", "chk"} \cup RoPhase => x.prog # <<>>,
         \A i \in DOMAIN x.rwset : IsLocal(t, x.rwset[i].key),
         \A i \in DOMAIN x.rset : ~IsLocal(t, x.rset[i].key),
         node' \in [Key -> MemNode], \A k \in Key : node'[k].lock = node[k].lock,
         log' = log
  PROVE  Preserved(t)
  <1>1. /\ tx' \in [Tx -> TxState] /\ tx'[t] = x
        /\ \A u \in Tx : u # t => tx'[u] = tx[u]
    BY Becomes DEF LockInv, TypeOK
  <1>2. TypeOK' BY <1>1 DEF LockInv, TypeOK
  <1>3. \A k \in Key : node[k].lock # t
    BY FreeHoldsNothing DEF LockInv, Locks
  <1>4. LocalHeld(t)' = {} /\ RemoteHeld(t)' = {} /\ RemoteMayHold(t)' = {}
    BY <1>1 DEF Free, Idle, ExecPhase, RoPhase, LocalHeld, RemoteHeld, RemoteMayHold
  <1>5. Locks(t)' BY <1>3, <1>4 DEF Locks
  <1>6. x.todo = {}
    BY DEF LockInv, Control, Free, Idle, ExecPhase, RoPhase, RpcPhase
  <1>7. Control(t)'
    <2>1. x.i > 0 BY DEF LockInv, Control
    <2>2. x.current <= Len(x.rwset) BY DEF TxState
    <2>3. x.pc \notin RpcPhase /\ x.pc # "lock_all" /\ x.pc # "lock_chk"
      BY DEF Free, Idle, ExecPhase, RoPhase, RpcPhase
    <2> QED BY <1>1, <1>6, <2>1, <2>2, <2>3 DEF Control, IsLocal
  <1> QED BY <1>1, <1>2, <1>5, <1>7 DEF Preserved, LockStep

\* _begin() and local_ro_begin() reset the sets and take no lock.
LEMMA BeginPreserves ==
  ASSUME LockInv, NEW t \in Tx, Begin(t) PROVE Preserved(t)
  <1>1. PICK p \in Programs[t], c \in Clocks :
       Become(t, [tx[t] EXCEPT !.pc = "exec", !.prog = p,
                               !.timestamp = c * Shift,
                               !.rwset = <<>>, !.rset = <<>>, !.current = 0])
    BY DEF Begin
  <1> DEFINE ts == c * Shift
  <1> DEFINE x == [tx[t] EXCEPT !.pc = "exec", !.prog = p, !.timestamp = ts,
                       !.rwset = <<>>, !.rset = <<>>, !.current = 0]
  <1>2. p \in Seq(Op) /\ ts \in Nat /\ <<>> \in Seq(Item)
     BY ConstantAssumption DEF ConstantAssumption
  <1>3. tx[t] \in TxState BY DEF LockInv, TypeOK
  <1> HIDE DEF ts
  <1>4. x \in TxState
     BY <1>2, <1>3, Phases DEF TxState
  <1>5. /\ x.pc = "exec" /\ x.todo = tx[t].todo /\ x.i = tx[t].i
        /\ x.current = 0 /\ x.rwset = <<>> /\ x.rset = <<>>
     BY <1>3 DEF TxState
  <1>6. Become(t, x) BY <1>1 DEF ts
  <1>7. tx[t].pc \in Free BY DEF Begin, Free
  <1> HIDE DEF x
  <1>8. node' \in [Key -> MemNode] /\ node' = node /\ log' = log
    BY DEF LockInv, TypeOK, Begin
  <1> QED BY <1>4, <1>5, <1>6, <1>7, <1>8, Quiet DEF Free, ExecPhase, RoPhase

\* What no step of get() or of a read-only transaction touches.
SameSets(x, y) ==
  /\ x.todo = y.todo /\ x.i = y.i /\ x.current = y.current
  /\ x.rwset = y.rwset /\ x.rset = y.rset

\* No lock changes.
SameLocks ==
  node' \in [Key -> MemNode] /\ \A k \in Key : node'[k].lock = node[k].lock

\* Quiet for a step of get() or get_ro() that leaves both sets alone.
LEMMA ReadStep ==
  ASSUME LockInv, NEW t \in Tx, NEW x \in TxState, Become(t, x),
         tx[t].pc \in ExecPhase \cup RoPhase, x.pc \in Free,
         SameSets(x, tx[t]), x.pc \in {"exec", "ro_done"} \/ x.prog # <<>>,
         SameLocks, log' = log
  PROVE  Preserved(t)
  <1>1. x.current = 0 BY DEF LockInv, Control, SameSets
  <1>2. /\ \A i \in DOMAIN x.rwset : IsLocal(t, x.rwset[i].key)
        /\ \A i \in DOMAIN x.rset : ~IsLocal(t, x.rset[i].key)
    BY DEF LockInv, Control, SameSets
  <1>3. x.pc \in {"val", "chk"} \cup RoPhase => x.prog # <<>>
    BY DEF RoPhase
  <1> QED BY <1>1, <1>2, <1>3, Quiet DEF SameSets, SameLocks, Free

\* In the middle of a read there is a record and a node to read from.
LEMMA Reading ==
  ASSUME LockInv, NEW t \in Tx,
         tx[t].prog # <<>> \/ tx[t].pc \in {"val", "chk"} \cup RoPhase
  PROVE  /\ tx[t] \in TxState /\ tx[t].prog # <<>> /\ CurKey(t) \in Key
         /\ node[CurKey(t)] \in MemNode
         /\ Head(tx[t].prog).kind \in Kind /\ Tail(tx[t].prog) \in Seq(Op)
  <1>1. tx[t].prog # <<>> BY DEF LockInv, Control
  <1>2. tx \in [Tx -> TxState] /\ node \in [Key -> MemNode] BY DEF LockInv, TypeOK
  <1> QED BY <1>1, <1>2, CurKeyInKey

\* A step that leaves the nodes alone changes no lock.
LEMMA NothingLocked ==
  ASSUME LockInv, UNCHANGED node PROVE SameLocks
BY DEF LockInv, TypeOK, SameLocks

\* get(), first access.
LEMMA ReadSeqPreserves ==
  ASSUME LockInv, NEW t \in Tx, ReadSeq(t) PROVE Preserved(t)
  <1> DEFINE x == [tx[t] EXCEPT !.pc = "val", !.seq = node[CurKey(t)].seq]
  <1>1. tx[t] \in TxState /\ tx[t].prog # <<>> /\ node[CurKey(t)] \in MemNode
    BY Reading DEF ReadSeq, RoPhase, AtRo
  <1>3. x \in TxState BY <1>1, Phases DEF TxState, MemNode
  <1>4. SameSets(x, tx[t]) /\ x.prog # <<>> /\ x.pc \in Free
    BY <1>1 DEF TxState, SameSets, Free, ExecPhase, RoPhase
  <1>5. Become(t, x) /\ tx[t].pc \in ExecPhase \cup RoPhase /\ UNCHANGED <<node, log>>
    BY DEF ReadSeq, AtRo, ExecPhase, RoPhase
  <1> HIDE DEF x
  <1> QED BY <1>3, <1>4, <1>5, NothingLocked, ReadStep

\* get(), second access.
LEMMA ReadValuePreserves ==
  ASSUME LockInv, NEW t \in Tx, ReadValue(t) PROVE Preserved(t)
  <1> DEFINE x == [tx[t] EXCEPT !.pc = "chk", !.val = node[CurKey(t)].value]
             y == [tx[t] EXCEPT !.pc = "exec", !.prog = Tail(@)]
  <1>1. /\ tx[t] \in TxState /\ tx[t].prog # <<>> /\ node[CurKey(t)] \in MemNode
        /\ Tail(tx[t].prog) \in Seq(Op)
    BY Reading DEF ReadValue
  <1>2. x \in TxState /\ y \in TxState BY <1>1, Phases DEF TxState, MemNode
  <1>3. /\ SameSets(x, tx[t]) /\ x.prog # <<>> /\ x.pc \in Free
        /\ SameSets(y, tx[t]) /\ y.pc = "exec" /\ "exec" \in Free
    BY <1>1 DEF TxState, SameSets, Free, ExecPhase
  <1>4. /\ Become(t, x) \/ Become(t, y)
        /\ tx[t].pc \in ExecPhase \cup RoPhase /\ UNCHANGED <<node, log>>
    BY DEF ReadValue, ExecPhase
  <1> HIDE DEF x, y
  <1> QED BY <1>2, <1>3, <1>4, NothingLocked, ReadStep

\* An item of a set after WriteSet::Add is the new one or an old one.
LEMMA AppendItems ==
  ASSUME NEW q \in Seq(Item), NEW it \in Item
  PROVE  \A i \in DOMAIN Append(q, it) :
           \/ Append(q, it)[i] = it
           \/ i \in DOMAIN q /\ Append(q, it)[i] = q[i]
OBVIOUS

\* Adding an item puts it into the set of its partition: local records into the
\* rwset, remote ones into the remote set.
LEMMA AddItemPreserves ==
  ASSUME LockInv, NEW t \in Tx, tx[t].prog # <<>>, tx[t].pc \in ExecPhase,
         NEW k \in Key, NEW s \in Nat, NEW v \in Val, NEW kd \in Kind,
         Become(t, AddItem(t, k, s, v, kd)), UNCHANGED <<node, log>>
  PROVE  Preserved(t)
  <1> DEFINE x == AddItem(t, k, s, v, kd)
             it == [key |-> k, seq |-> s, by |-> v, kind |-> kd, w |-> kd # "get"]
  <1>1. tx[t] \in TxState BY DEF LockInv, TypeOK
  <1>2. x \in TxState BY AddItemType DEF LockInv
  <1>3. /\ x.pc = "exec" /\ x.todo = tx[t].todo /\ x.i = tx[t].i
        /\ x.current = tx[t].current
        /\ \/ IsLocal(t, k) /\ x.rwset = Append(tx[t].rwset, it) /\ x.rset = tx[t].rset
           \/ ~IsLocal(t, k) /\ x.rwset = tx[t].rwset /\ x.rset = Append(tx[t].rset, it)
    BY <1>1 DEF AddItem, AddLocal, AddRemote, NewItem, TxState
  <1>4. /\ tx[t].rwset \in Seq(Item) /\ tx[t].rset \in Seq(Item)
        /\ tx[t].current = 0
        /\ \A i \in DOMAIN tx[t].rwset : IsLocal(t, tx[t].rwset[i].key)
        /\ \A i \in DOMAIN tx[t].rset : ~IsLocal(t, tx[t].rset[i].key)
    BY <1>1 DEF TxState, LockInv, Control
  <1>5. it \in Item /\ it.key = k BY DEF Item
  <1> HIDE DEF x, it
  <1>6. /\ \A i \in DOMAIN x.rwset : IsLocal(t, x.rwset[i].key)
        /\ \A i \in DOMAIN x.rset : ~IsLocal(t, x.rset[i].key)
    <2>1. CASE IsLocal(t, k) /\ x.rwset = Append(tx[t].rwset, it) /\ x.rset = tx[t].rset
      BY <1>4, <1>5, <2>1, AppendItems
    <2>2. CASE ~IsLocal(t, k) /\ x.rwset = tx[t].rwset /\ x.rset = Append(tx[t].rset, it)
      BY <1>4, <1>5, <2>2, AppendItems
    <2> QED BY <1>3, <2>1, <2>2
  <1>7. SameLocks BY NothingLocked
  <1> QED BY <1>2, <1>3, <1>4, <1>6, <1>7, Quiet
          DEF x, SameLocks, Free, ExecPhase, RoPhase

\* get(), third access.
LEMMA ReadCheckPreserves ==
  ASSUME LockInv, NEW t \in Tx, ReadCheck(t) PROVE Preserved(t)
  <1> DEFINE x == [tx[t] EXCEPT !.pc = "exec"]
  <1>1. /\ tx[t] \in TxState /\ tx[t].prog # <<>> /\ CurKey(t) \in Key
        /\ Head(tx[t].prog).kind \in Kind
    BY Reading DEF ReadCheck
  <1>2. UNCHANGED <<node, log>> /\ tx[t].pc \in ExecPhase
    BY DEF ReadCheck, ExecPhase
  <1>3. CASE Become(t, x)
    <2>1. x \in TxState /\ SameSets(x, tx[t]) /\ x.pc = "exec" /\ "exec" \in Free
      BY <1>1, Phases DEF TxState, SameSets, Free, ExecPhase
    <2> HIDE DEF x
    <2> QED BY <1>2, <1>3, <2>1, NothingLocked, ReadStep
  <1>4. CASE Become(t, AddItem(t, CurKey(t), tx[t].seq, tx[t].val, Head(tx[t].prog).kind))
    <2>1. tx[t].seq \in Nat /\ tx[t].val \in Val BY <1>1 DEF TxState
    <2> QED BY <1>1, <1>2, <1>4, <2>1, AddItemPreserves
  <1> QED BY <1>3, <1>4 DEF ReadCheck

\* insert() and delete_() of a record not read before.
LEMMA BlindWritePreserves ==
  ASSUME LockInv, NEW t \in Tx, BlindWrite(t) PROVE Preserved(t)
  <1>1. /\ tx[t].prog # <<>> /\ CurKey(t) \in Key
        /\ Head(tx[t].prog).kind \in Kind /\ node[CurKey(t)] \in MemNode
    BY Reading DEF BlindWrite
  <1>2. node[CurKey(t)].seq \in Nat /\ node[CurKey(t)].value \in Val
    BY <1>1 DEF MemNode
  <1>3. /\ UNCHANGED <<node, log>> /\ tx[t].pc \in ExecPhase
        /\ Become(t, AddItem(t, CurKey(t), node[CurKey(t)].seq,
                             node[CurKey(t)].value, Head(tx[t].prog).kind))
    BY DEF BlindWrite, ExecPhase
  <1> QED BY <1>1, <1>2, <1>3, AddItemPreserves

\* delete_() of a record the transaction has read.
LEMMA DeleteItemPreserves ==
  ASSUME LockInv, NEW t \in Tx, DeleteItem(t) PROVE Preserved(t)
  <1>1. PICK j \in Items(t, CurKey(t)) :
          Become(t, [tx[t] EXCEPT !.prog = Tail(@),
                       !.rwset[j] = [@ EXCEPT !.kind = "del", !.w = TRUE],
                       !.timestamp = MAX(@, tx[t].rwset[j].seq)])
    BY DEF DeleteItem
  <1> DEFINE it == [tx[t].rwset[j] EXCEPT !.kind = "del", !.w = TRUE]
             rw == [tx[t].rwset EXCEPT ![j] = it]
             ts == MAX(tx[t].timestamp, tx[t].rwset[j].seq)
             x == [tx[t] EXCEPT !.prog = Tail(@), !.rwset = rw, !.timestamp = ts]
  <1>2. /\ tx[t] \in TxState /\ tx[t].prog # <<>> /\ Tail(tx[t].prog) \in Seq(Op)
        /\ tx[t].rwset \in Seq(Item) /\ j \in DOMAIN tx[t].rwset
    BY Reading DEF DeleteItem, TxState, Items
  <1>3. tx[t].rwset[j] \in Item BY <1>2
  <1>4. it \in Item /\ it.key = tx[t].rwset[j].key BY <1>3 DEF Item, Kind
  <1>5. ts \in Nat BY <1>2, <1>3 DEF MAX, TxState, Item
  <1>6. Become(t, x) BY <1>1, <1>2 DEF TxState
  <1> HIDE DEF it, ts
  <1>7. /\ rw \in Seq(Item) /\ DOMAIN rw = DOMAIN tx[t].rwset
        /\ \A i \in DOMAIN rw : rw[i].key = tx[t].rwset[i].key
    BY <1>2, <1>4
  <1> HIDE DEF rw
  <1>8. /\ x \in TxState /\ x.pc = "exec" /\ x.todo = tx[t].todo /\ x.i = tx[t].i
        /\ x.current = tx[t].current /\ x.rwset = rw /\ x.rset = tx[t].rset
    BY <1>2, <1>5, <1>7 DEF TxState, DeleteItem
  <1> HIDE DEF x
  <1>9. /\ x.current = 0
        /\ \A i \in DOMAIN x.rwset : IsLocal(t, x.rwset[i].key)
        /\ \A i \in DOMAIN x.rset : ~IsLocal(t, x.rset[i].key)
    BY <1>7, <1>8 DEF LockInv, Control, DeleteItem, ExecPhase
  <1>10. SameLocks BY NothingLocked DEF DeleteItem
  <1> QED BY <1>6, <1>8, <1>9, <1>10, Quiet
          DEF DeleteItem, SameLocks, Free, ExecPhase, RoPhase

\* get_ro(): start of a snapshot read.
LEMMA RoStartPreserves ==
  ASSUME LockInv, NEW t \in Tx, RoStart(t) PROVE Preserved(t)
  <1> DEFINE x == [tx[t] EXCEPT !.pc = "ro_ts", !.base = Len(log[CurKey(t)])]
  <1>1. tx[t] \in TxState /\ tx[t].prog # <<>> /\ node[CurKey(t)] \in MemNode
    BY Reading DEF RoStart, RoPhase, AtRo
  <1>2. Len(log[CurKey(t)]) \in Nat
    BY Reading DEF LockInv, TypeOK, RoStart, RoPhase, AtRo
  <1>3. x \in TxState BY <1>1, <1>2, Phases DEF TxState, MemNode
  <1>4. SameSets(x, tx[t]) /\ x.prog # <<>> /\ x.pc \in Free
    BY <1>1 DEF TxState, SameSets, Free, ExecPhase, RoPhase
  <1>5. Become(t, x) /\ tx[t].pc \in ExecPhase \cup RoPhase /\ UNCHANGED <<node, log>>
    BY DEF RoStart, AtRo, ExecPhase, RoPhase
  <1> HIDE DEF x
  <1> QED BY <1>3, <1>4, <1>5, NothingLocked, ReadStep

\* get_ro(): the test of read_ts.
LEMMA RoReadTsPreserves ==
  ASSUME LockInv, NEW t \in Tx, RoReadTs(t) PROVE Preserved(t)
  <1> DEFINE x == [tx[t] EXCEPT !.pc =
               IF node[CurKey(t)].read_ts > tx[t].timestamp THEN "ro_get"
               ELSE IF RC THEN "ro_seq" ELSE "ro_lock"]
  <1>1. tx[t] \in TxState /\ tx[t].prog # <<>> /\ node[CurKey(t)] \in MemNode
    BY Reading DEF RoReadTs, RoPhase, AtRo
  <1>3. x \in TxState BY <1>1, Phases DEF TxState, MemNode
  <1>4. SameSets(x, tx[t]) /\ x.prog # <<>> /\ x.pc \in Free
    BY <1>1 DEF TxState, SameSets, Free, ExecPhase, RoPhase
  <1>5. Become(t, x) /\ tx[t].pc \in ExecPhase \cup RoPhase /\ UNCHANGED <<node, log>>
    BY DEF RoReadTs, AtRo, ExecPhase, RoPhase
  <1> HIDE DEF x
  <1> QED BY <1>3, <1>4, <1>5, NothingLocked, ReadStep

\* get_ro(): the store to read_ts.
LEMMA RoSetTsPreserves ==
  ASSUME LockInv, NEW t \in Tx, RoSetTs(t) PROVE Preserved(t)
  <1> DEFINE x == [tx[t] EXCEPT !.pc = "ro_seq", !.sbuf = {CurKey(t)}]
  <1>1. tx[t] \in TxState /\ tx[t].prog # <<>> /\ node[CurKey(t)] \in MemNode
    BY Reading DEF RoSetTs, RoPhase, AtRo
  <1>2. {CurKey(t)} \in SUBSET Key
    BY Reading DEF LockInv, TypeOK, RoSetTs, RoPhase, AtRo
  <1>3. x \in TxState BY <1>1, <1>2, Phases DEF TxState, MemNode
  <1>4. SameSets(x, tx[t]) /\ x.prog # <<>> /\ x.pc \in Free
    BY <1>1 DEF TxState, SameSets, Free, ExecPhase, RoPhase
  <1>5. Become(t, x) /\ tx[t].pc \in ExecPhase \cup RoPhase /\ UNCHANGED <<node, log>>
    BY DEF RoSetTs, AtRo, ExecPhase, RoPhase
  <1> HIDE DEF x
  <1> QED BY <1>3, <1>4, <1>5, NothingLocked, ReadStep

\* get_ro(): the load of seq before the lock test.
LEMMA RoReadSeqPreserves ==
  ASSUME LockInv, NEW t \in Tx, RoReadSeq(t) PROVE Preserved(t)
  <1> DEFINE x == [tx[t] EXCEPT !.pc = IF RC THEN "ro_get" ELSE "ro_lk",
                             !.seq = node[CurKey(t)].seq]
  <1>1. tx[t] \in TxState /\ tx[t].prog # <<>> /\ node[CurKey(t)] \in MemNode
    BY Reading DEF RoReadSeq, RoPhase, AtRo
  <1>3. x \in TxState BY <1>1, Phases DEF TxState, MemNode
  <1>4. SameSets(x, tx[t]) /\ x.prog # <<>> /\ x.pc \in Free
    BY <1>1 DEF TxState, SameSets, Free, ExecPhase, RoPhase
  <1>5. Become(t, x) /\ tx[t].pc \in ExecPhase \cup RoPhase /\ UNCHANGED <<node, log>>
    BY DEF RoReadSeq, AtRo, ExecPhase, RoPhase
  <1> HIDE DEF x
  <1> QED BY <1>3, <1>4, <1>5, NothingLocked, ReadStep

\* get_ro(): the lock test.
LEMMA RoTestLockPreserves ==
  ASSUME LockInv, NEW t \in Tx, RoTestLock(t) PROVE Preserved(t)
  <1> DEFINE x == [tx[t] EXCEPT !.pc =
               IF node[CurKey(t)].lock # NoTx /\ tx[t].seq < tx[t].timestamp
               THEN "ro_wait" ELSE "ro_get"]
  <1>1. tx[t] \in TxState /\ tx[t].prog # <<>> /\ node[CurKey(t)] \in MemNode
    BY Reading DEF RoTestLock, RoPhase, AtRo
  <1>3. x \in TxState BY <1>1, Phases DEF TxState, MemNode
  <1>4. SameSets(x, tx[t]) /\ x.prog # <<>> /\ x.pc \in Free
    BY <1>1 DEF TxState, SameSets, Free, ExecPhase, RoPhase
  <1>5. Become(t, x) /\ tx[t].pc \in ExecPhase \cup RoPhase /\ UNCHANGED <<node, log>>
    BY DEF RoTestLock, AtRo, ExecPhase, RoPhase
  <1> HIDE DEF x
  <1> QED BY <1>3, <1>4, <1>5, NothingLocked, ReadStep

\* get_ro(): the end of the wait for a writer.
LEMMA RoWaitPreserves ==
  ASSUME LockInv, NEW t \in Tx, RoWait(t) PROVE Preserved(t)
  <1> DEFINE x == [tx[t] EXCEPT !.pc = "ro_get"]
  <1>1. tx[t] \in TxState /\ tx[t].prog # <<>> /\ node[CurKey(t)] \in MemNode
    BY Reading DEF RoWait, RoPhase, AtRo
  <1>3. x \in TxState BY <1>1, Phases DEF TxState, MemNode
  <1>4. SameSets(x, tx[t]) /\ x.prog # <<>> /\ x.pc \in Free
    BY <1>1 DEF TxState, SameSets, Free, ExecPhase, RoPhase
  <1>5. Become(t, x) /\ tx[t].pc \in ExecPhase \cup RoPhase /\ UNCHANGED <<node, log>>
    BY DEF RoWait, AtRo, ExecPhase, RoPhase
  <1> HIDE DEF x
  <1> QED BY <1>3, <1>4, <1>5, NothingLocked, ReadStep

\* _get_helper: the load of seq.
LEMMA RoGetPreserves ==
  ASSUME LockInv, NEW t \in Tx, RoGet(t) PROVE Preserved(t)
  <1> DEFINE x == [tx[t] EXCEPT !.seq = node[CurKey(t)].seq,
               !.pc = IF RC \/ node[CurKey(t)].seq <= tx[t].timestamp
                      THEN "ro_val" ELSE "ro_old"]
  <1>1. tx[t] \in TxState /\ tx[t].prog # <<>> /\ node[CurKey(t)] \in MemNode
    BY Reading DEF RoGet, RoPhase, AtRo
  <1>3. x \in TxState BY <1>1, Phases DEF TxState, MemNode
  <1>4. SameSets(x, tx[t]) /\ x.prog # <<>> /\ x.pc \in Free
    BY <1>1 DEF TxState, SameSets, Free, ExecPhase, RoPhase
  <1>5. Become(t, x) /\ tx[t].pc \in ExecPhase \cup RoPhase /\ UNCHANGED <<node, log>>
    BY DEF RoGet, AtRo, ExecPhase, RoPhase
  <1> HIDE DEF x
  <1> QED BY <1>3, <1>4, <1>5, NothingLocked, ReadStep

\* _get_helper: the load of old_value.
LEMMA RoOldPreserves ==
  ASSUME LockInv, NEW t \in Tx, RoOld(t) PROVE Preserved(t)
  <1> DEFINE x == [tx[t] EXCEPT !.pc = "ro_ochk", !.chain = node[CurKey(t)].old]
  <1>1. tx[t] \in TxState /\ tx[t].prog # <<>> /\ node[CurKey(t)] \in MemNode
    BY Reading DEF RoOld, RoPhase, AtRo
  <1>3. x \in TxState BY <1>1, Phases DEF TxState, MemNode
  <1>4. SameSets(x, tx[t]) /\ x.prog # <<>> /\ x.pc \in Free
    BY <1>1 DEF TxState, SameSets, Free, ExecPhase, RoPhase
  <1>5. Become(t, x) /\ tx[t].pc \in ExecPhase \cup RoPhase /\ UNCHANGED <<node, log>>
    BY DEF RoOld, AtRo, ExecPhase, RoPhase
  <1> HIDE DEF x
  <1> QED BY <1>3, <1>4, <1>5, NothingLocked, ReadStep

\* get_ro() returns a version.
LEMMA RoReturnPreserves ==
  ASSUME LockInv, NEW t \in Tx, tx[t].pc \in RoPhase, NEW v \in Nat, NEW b \in Val,
         RoReturn(t, v, b), UNCHANGED <<node, log>>
  PROVE  Preserved(t)
  <1> DEFINE r == [key |-> CurKey(t), ver |-> v, by |-> b, base |-> tx[t].base]
             x == [tx[t] EXCEPT
                    !.pc = IF Len(tx[t].prog) = 1 THEN "ro_done" ELSE "exec",
                    !.prog = Tail(@), !.snap = @ \cup {r}]
  <1>1. /\ tx[t] \in TxState /\ CurKey(t) \in Key /\ Tail(tx[t].prog) \in Seq(Op)
    BY Reading
  <1>2. r \in Read BY <1>1 DEF Read, TxState
  <1>3. Become(t, x) BY DEF RoReturn
  <1> HIDE DEF r
  <1>4. tx[t].snap \cup {r} \in SUBSET Read BY <1>1, <1>2 DEF TxState
  <1>5. x \in TxState BY <1>1, <1>4, Phases DEF TxState
  <1>6. SameSets(x, tx[t]) /\ x.pc \in {"exec", "ro_done"} /\ x.pc \in Free
    BY <1>1 DEF TxState, SameSets, Free, ExecPhase
  <1> HIDE DEF x
  <1> QED BY <1>3, <1>5, <1>6, NothingLocked, ReadStep

\* _get_helper: the load of value.
LEMMA RoValuePreserves ==
  ASSUME LockInv, NEW t \in Tx, RoValue(t) PROVE Preserved(t)
  <1> DEFINE x == [tx[t] EXCEPT !.pc = "ro_chk", !.val = node[CurKey(t)].value]
  <1>1. tx[t] \in TxState /\ tx[t].prog # <<>> /\ node[CurKey(t)] \in MemNode
    BY Reading DEF RoValue, RoPhase, AtRo
  <1>2. tx[t].pc \in RoPhase /\ UNCHANGED <<node, log>>
    BY DEF RoValue, RoPhase, AtRo
  <1>3. CASE RoReturn(t, 1, Null) BY <1>2, <1>3, RoReturnPreserves DEF Val
  <1>4. CASE Become(t, x)
    <2>1. x \in TxState BY <1>1, Phases DEF TxState, MemNode
    <2>2. SameSets(x, tx[t]) /\ x.prog # <<>> /\ x.pc \in Free
      BY <1>1 DEF TxState, SameSets, Free, RoPhase
    <2> HIDE DEF x
    <2> QED BY <1>2, <1>4, <2>1, <2>2, NothingLocked, ReadStep
  <1> QED BY <1>3, <1>4 DEF RoValue

\* _get_helper: goto retry.
LEMMA RoRetryPreserves ==
  ASSUME LockInv, NEW t \in Tx, tx[t].pc \in RoPhase,
         Become(t, [tx[t] EXCEPT !.pc = "ro_get"]), UNCHANGED <<node, log>>
  PROVE  Preserved(t)
  <1> DEFINE x == [tx[t] EXCEPT !.pc = "ro_get"]
  <1>1. tx[t] \in TxState /\ tx[t].prog # <<>> BY Reading
  <1>2. x \in TxState BY <1>1, Phases DEF TxState
  <1>3. SameSets(x, tx[t]) /\ x.prog # <<>> /\ x.pc \in Free
    BY <1>1 DEF TxState, SameSets, Free, RoPhase
  <1>4. Become(t, x) OBVIOUS
  <1> HIDE DEF x
  <1> QED BY <1>2, <1>3, <1>4, NothingLocked, ReadStep

\* _get_helper: the second load of seq, newest version.
LEMMA RoCheckPreserves ==
  ASSUME LockInv, NEW t \in Tx, RoCheck(t) PROVE Preserved(t)
  <1>1. tx[t].pc \in RoPhase /\ UNCHANGED <<node, log>>
    BY DEF RoCheck, RoPhase, AtRo
  <1>2. tx[t].seq \in Nat /\ tx[t].val \in Val
    BY DEF LockInv, TypeOK, TxState
  <1>3. CASE RoReturn(t, tx[t].seq, tx[t].val)
    BY <1>1, <1>2, <1>3, RoReturnPreserves
  <1> QED BY <1>1, <1>3, RoRetryPreserves DEF RoCheck

\* _get_helper: the second load of seq and the walk over old versions.
LEMMA RoOldCheckPreserves ==
  ASSUME LockInv, NEW t \in Tx, RoOldCheck(t) PROVE Preserved(t)
  <1>1. tx[t].pc \in RoPhase /\ UNCHANGED <<node, log>>
    BY DEF RoOldCheck, RoPhase, AtRo
  <1>2. tx[t].chain \in Seq(Version) BY DEF LockInv, TypeOK, TxState
  <1>3. CASE RoReturn(t, 1, Null) BY <1>1, <1>3, RoReturnPreserves DEF Val
  <1>4. ASSUME NEW j \in Visible(t), RoReturn(t, tx[t].chain[j].ver, tx[t].chain[j].by)
        PROVE  Preserved(t)
    <2>1. tx[t].chain[j] \in Version BY <1>2 DEF Visible
    <2> QED BY <1>1, <1>4, <2>1, RoReturnPreserves DEF Version
  <1> QED BY <1>1, <1>3, <1>4, RoRetryPreserves DEF RoOldCheck

\* __lock_ts takes read_lock, which is not the lock of writers.
LEMMA RoLockTsPreserves ==
  ASSUME LockInv, NEW t \in Tx, RoLockTs(t) PROVE Preserved(t)
  <1> DEFINE x == [tx[t] EXCEPT !.pc = "ro_set"]
  <1>1. tx[t] \in TxState /\ tx[t].prog # <<>> /\ CurKey(t) \in Key
    BY Reading DEF RoLockTs, RoPhase, AtRo
  <1>2. x \in TxState BY <1>1, Phases DEF TxState
  <1>3. SameSets(x, tx[t]) /\ x.prog # <<>> /\ x.pc \in Free
    BY <1>1 DEF TxState, SameSets, Free, RoPhase
  <1>4. Become(t, x) /\ tx[t].pc \in RoPhase /\ log' = log
    BY DEF RoLockTs, AtRo, RoPhase
  <1>5. SameLocks
    <2>1. node \in [Key -> MemNode] BY DEF LockInv, TypeOK
    <2>2. node' = [node EXCEPT ![CurKey(t)] = [@ EXCEPT !.read_lock = t]]
      BY DEF RoLockTs
    <2>3. [node[CurKey(t)] EXCEPT !.read_lock = t] \in MemNode
      BY <1>1, <2>1 DEF MemNode
    <2>4. [node[CurKey(t)] EXCEPT !.read_lock = t].lock = node[CurKey(t)].lock
      BY <1>1, <2>1 DEF MemNode
    <2> QED BY <1>1, <2>1, <2>2, <2>3, <2>4 DEF SameLocks
  <1> HIDE DEF x
  <1> QED BY <1>2, <1>3, <1>4, <1>5, ReadStep

\* Every step of a read-only transaction preserves the invariant.
LEMMA GetRoPreserves ==
  ASSUME LockInv, NEW t \in Tx, GetRo(t) PROVE Preserved(t)
BY RoStartPreserves, RoReadTsPreserves, RoLockTsPreserves, RoSetTsPreserves,
   RoReadSeqPreserves, RoTestLockPreserves, RoWaitPreserves, RoGetPreserves,
   RoValuePreserves, RoCheckPreserves, RoOldPreserves, RoOldCheckPreserves
   DEF GetRo

\* Every step of the execution phase preserves the invariant.
LEMMA ExecutePreserves ==
  ASSUME LockInv, NEW t \in Tx, Execute(t) PROVE Preserved(t)
BY ReadSeqPreserves, ReadValuePreserves, ReadCheckPreserves,
   BlindWritePreserves, DeleteItemPreserves DEF Execute

\* The steps of end() leave both sets alone; what Control asks of the rest.
HoldStep(t, x) ==
  /\ x \in TxState /\ Become(t, x)
  /\ x.rwset = tx[t].rwset /\ x.rset = tx[t].rset
  /\ x.todo \subseteq RemoteWrites(t)
  /\ x.pc \notin RpcPhase => x.todo = {}
  /\ x.i > 0 /\ x.current <= Len(x.rwset)
  /\ x.pc \notin {Idle} \cup ExecPhase \cup RoPhase
  /\ x.pc = "lock_remote" => x.current = 0
  /\ x.pc = "lock_all" =>
       /\ x.current < x.i
       /\ \A j \in LocalWrites(t) : j < x.i => j <= x.current
  /\ x.pc = "lock_chk" => x.current = x.i /\ x.i \in LocalWrites(t)

\* A step of end() as HoldStep describes it keeps Control.
LEMMA HoldStepControl ==
  ASSUME LockInv, NEW t \in Tx, NEW x, HoldStep(t, x)
  PROVE  /\ tx' \in [Tx -> TxState] /\ tx'[t] = x
         /\ \A u \in Tx : u # t => tx'[u] = tx[u]
         /\ LocalWrites(t)' = LocalWrites(t) /\ RemoteWrites(t)' = RemoteWrites(t)
         /\ Control(t)'
  <1>1. /\ tx' \in [Tx -> TxState] /\ tx'[t] = x
        /\ \A u \in Tx : u # t => tx'[u] = tx[u]
    BY Becomes DEF LockInv, TypeOK, HoldStep
  <1>2. LocalWrites(t)' = LocalWrites(t) /\ RemoteWrites(t)' = RemoteWrites(t)
    BY <1>1 DEF HoldStep, LocalWrites, RemoteWrites
  <1>3. /\ \A i \in DOMAIN x.rwset : IsLocal(t, x.rwset[i].key)
        /\ \A i \in DOMAIN x.rset : ~IsLocal(t, x.rset[i].key)
    BY DEF LockInv, Control, HoldStep
  <1>4. Control(t)'
    BY <1>1, <1>2, <1>3 DEF Control, HoldStep, ExecPhase, IsLocal
  <1> QED BY <1>1, <1>2, <1>4

\* The items of both sets name records.
LEMMA ItemKeys ==
  ASSUME TypeOK, NEW t \in Tx
  PROVE  /\ \A i \in DOMAIN tx[t].rwset : tx[t].rwset[i].key \in Key
         /\ \A i \in DOMAIN tx[t].rset : tx[t].rset[i].key \in Key
  <1>1. tx[t].rwset \in Seq(Item) /\ tx[t].rset \in Seq(Item)
    BY DEF TypeOK, TxState
  <1>2. /\ \A i \in DOMAIN tx[t].rwset : tx[t].rwset[i] \in Item
        /\ \A i \in DOMAIN tx[t].rset : tx[t].rset[i] \in Item
    BY <1>1
  <1> QED BY <1>2 DEF Item

\* A step of end() that changes no lock preserves the invariant when it leaves
\* the held items as they are, promises no more and forgets none.
LEMMA SameHeld ==
  ASSUME LockInv, NEW t \in Tx, NEW x, HoldStep(t, x), SameLocks,
         log' \in [Key -> Seq(Version)],
         LocalHeld(t)' = LocalHeld(t), RemoteHeld(t)' \subseteq RemoteHeld(t),
         RemoteMayHold(t) \subseteq RemoteMayHold(t)'
  PROVE  Preserved(t)
  <1>1. /\ tx' \in [Tx -> TxState] /\ tx'[t] = x
        /\ \A u \in Tx : u # t => tx'[u] = tx[u]
        /\ Control(t)'
    BY HoldStepControl
  <1>2. TypeOK' BY <1>1 DEF SameLocks, TypeOK
  <1>3. x.rwset = tx[t].rwset /\ x.rset = tx[t].rset BY DEF HoldStep
  <1>4. \A k \in Key : node'[k].lock = node[k].lock BY DEF SameLocks
  <1>5. Locks(t) /\ tx[t] \in TxState BY DEF LockInv, TypeOK
  <1>6. /\ \A i \in LocalHeld(t) : tx[t].rwset[i].key \in Key
        /\ \A i \in RemoteHeld(t) : tx[t].rset[i].key \in Key
    BY ItemKeys DEF LockInv, LocalHeld, LocalWrites, RemoteHeld, RemoteWrites
  <1>7. Locks(t)'
    BY <1>1, <1>3, <1>4, <1>5, <1>6 DEF Locks
  <1> QED BY <1>1, <1>2, <1>4, <1>7 DEF Preserved, LockStep

\* lock_remote() sends the lock requests.
LEMMA EndPreserves ==
  ASSUME LockInv, NEW t \in Tx, End(t) PROVE Preserved(t)
  <1> DEFINE x == [tx[t] EXCEPT !.pc = "lock_remote", !.todo = RemoteWrites(t),
                                !.ok = TRUE]
  <1>1. tx[t] \in TxState /\ tx[t].pc = "exec" /\ Control(t)
    BY DEF LockInv, TypeOK, End
  <1>2. RemoteWrites(t) \subseteq Nat BY <1>1 DEF TxState, RemoteWrites
  <1>3. x \in TxState BY <1>1, <1>2, Phases DEF TxState
  <1>4. HoldStep(t, x)
    BY <1>1, <1>3 DEF HoldStep, End, TxState, Control, RpcPhase, Idle, ExecPhase, RoPhase
  <1>5. x.pc = "lock_remote" /\ x.todo = RemoteWrites(t) BY <1>1 DEF TxState
  <1> HIDE DEF x
  <1>6. tx'[t] = x /\ RemoteWrites(t)' = RemoteWrites(t) BY <1>4, HoldStepControl
  <1>7. LocalHeld(t)' = {} /\ RemoteHeld(t)' = {}
    BY <1>5, <1>6 DEF LocalHeld, RemoteHeld
  <1>8. LocalHeld(t) = {} /\ RemoteMayHold(t) = {}
    BY <1>1, FreeHoldsNothing DEF Free, ExecPhase
  <1> QED BY <1>4, <1>7, <1>8, SameHeld, NothingLocked DEF End, LockInv, TypeOK

\* The jump to ABORT keeps every lock on the books until it is released.
LEMMA AbortPreserves ==
  ASSUME LockInv, NEW t \in Tx, tx[t].pc \in LockPhase, Abort(t),
         UNCHANGED <<node, log>>
  PROVE  Preserved(t)
  <1> DEFINE x == [tx[t] EXCEPT !.pc = "release_remote", !.todo = RemoteWrites(t)]
  <1>1. tx[t] \in TxState /\ Control(t) BY DEF LockInv, TypeOK
  <1>2. RemoteWrites(t) \subseteq Nat BY <1>1 DEF TxState, RemoteWrites
  <1>3. x \in TxState BY <1>1, <1>2, Phases DEF TxState
  <1>4. HoldStep(t, x)
    BY <1>1, <1>3 DEF HoldStep, Abort, TxState, Control, RpcPhase, Idle, ExecPhase, RoPhase
  <1>5. /\ x.pc = "release_remote" /\ x.todo = RemoteWrites(t)
        /\ x.current = tx[t].current
    BY <1>1 DEF TxState
  <1> HIDE DEF x
  <1>6. /\ tx'[t] = x /\ RemoteWrites(t)' = RemoteWrites(t)
        /\ LocalWrites(t)' = LocalWrites(t)
    BY <1>4, HoldStepControl
  <1>7. RemoteHeld(t)' = {} /\ RemoteMayHold(t)' = RemoteWrites(t)
    BY <1>5, <1>6 DEF RemoteHeld, RemoteMayHold
  <1>8. LocalHeld(t)' = {i \in LocalWrites(t) : i <= tx[t].current}
    BY <1>5, <1>6 DEF LocalHeld
  <1>9. LocalHeld(t) = {i \in LocalWrites(t) : i <= tx[t].current}
    <2>1. CASE tx[t].pc = "lock_remote"
      <3>1. tx[t].current = 0 /\ \A i \in LocalWrites(t) : i \in Nat \ {0}
        BY SMTT(30), <1>1, <2>1 DEF Control, LocalWrites, TxState
      <3> QED BY <2>1, <3>1 DEF LocalHeld
    <2>2. CASE tx[t].pc \in {"lock_all", "lock_chk"} BY <2>2 DEF LocalHeld
    <2> QED BY <2>1, <2>2 DEF LockPhase
  <1>10. RemoteMayHold(t) \subseteq RemoteWrites(t) BY DEF RemoteMayHold
  <1> QED BY <1>4, <1>7, <1>8, <1>9, <1>10, SameHeld, NothingLocked DEF LockInv, TypeOK

\* _check_res(): on success all remote writes are locked.
LEMMA LockRepliesPreserves ==
  ASSUME LockInv, NEW t \in Tx, LockReplies(t) PROVE Preserved(t)
  <1> DEFINE x == [tx[t] EXCEPT !.pc = "lock_all", !.i = 1]
  <1>1. tx[t] \in TxState /\ Control(t) /\ UNCHANGED <<node, log>>
    BY DEF LockInv, TypeOK, LockReplies
  <1>2. CASE ~tx[t].ok /\ Abort(t)
    BY <1>1, <1>2, AbortPreserves DEF LockReplies, LockPhase
  <1>3. CASE tx[t].ok /\ Become(t, x)
    <2>1. x \in TxState BY <1>1, Phases DEF TxState
    <2>2. /\ tx[t].pc = "lock_remote" /\ tx[t].todo = {} /\ tx[t].current = 0
          /\ \A j \in LocalWrites(t) : j \in Nat \ {0}
      BY <1>1 DEF LockReplies, Control, LocalWrites, TxState
    <2>4. /\ x.pc = "lock_all" /\ x.current = 0 /\ x.i = 1 /\ x.todo = {}
          /\ x.rwset = tx[t].rwset /\ x.rset = tx[t].rset /\ Len(x.rwset) \in Nat
      BY <1>1, <2>2 DEF TxState
    <2> HIDE DEF x
    <2>3. HoldStep(t, x)
      BY <1>3, <2>1, <2>2, <2>4 DEF HoldStep, RpcPhase, Idle, ExecPhase, RoPhase
    <2>5. /\ tx'[t] = x /\ RemoteWrites(t)' = RemoteWrites(t)
          /\ LocalWrites(t)' = LocalWrites(t)
      BY <2>3, HoldStepControl
    <2>6. LocalHeld(t) = {} /\ LocalHeld(t)' = {}
      BY <2>2, <2>4, <2>5 DEF LocalHeld
    <2>7. /\ RemoteHeld(t) = RemoteWrites(t) /\ RemoteHeld(t)' = RemoteWrites(t)
          /\ RemoteMayHold(t) = RemoteWrites(t) /\ RemoteMayHold(t)' = RemoteWrites(t)
      BY <1>3, <2>2, <2>4, <2>5 DEF RemoteHeld, RemoteMayHold
    <2> QED BY <1>1, <2>3, <2>6, <2>7, SameHeld, NothingLocked DEF LockInv, TypeOK
  <1> QED BY <1>2, <1>3 DEF LockReplies

\* LockAllSet: the version check under the lock.
LEMMA LockCheckPreserves ==
  ASSUME LockInv, NEW t \in Tx, LockCheck(t) PROVE Preserved(t)
  <1> DEFINE it == tx[t].rwset[tx[t].i]
             ts == MAX(node[it.key].read_ts, tx[t].timestamp)
             x == [tx[t] EXCEPT !.pc = "lock_all", !.i = @ + 1, !.timestamp = ts]
  <1>1. /\ tx[t] \in TxState /\ Control(t) /\ UNCHANGED <<node, log>>
        /\ tx[t].pc = "lock_chk"
    BY DEF LockInv, TypeOK, LockCheck
  <1>2. CASE Abort(t) BY <1>1, <1>2, AbortPreserves DEF LockPhase
  <1>3. CASE Become(t, x)
    <2>1. tx[t].i \in LocalWrites(t) /\ tx[t].current = tx[t].i
      BY <1>1 DEF Control
    <2>2. it.key \in Key BY <2>1, ItemKeys DEF LockInv, LocalWrites
    <2>3. ts \in Nat BY <1>1, <2>2 DEF LockInv, TypeOK, MemNode, MAX, TxState
    <2> HIDE DEF ts, it
    <2>4. x \in TxState
      <3>1. tx[t].i + 1 \in Nat BY <1>1 DEF TxState
      <3> QED BY <1>1, <2>3, <3>1, Phases DEF TxState
    <2>5. /\ x.pc = "lock_all" /\ x.current = tx[t].i /\ x.i = tx[t].i + 1
          /\ x.todo = {} /\ x.rwset = tx[t].rwset /\ x.rset = tx[t].rset
          /\ x.i > 0 /\ x.current <= Len(x.rwset) /\ x.current < x.i
      BY <1>1, <2>1 DEF TxState, Control, RpcPhase
    <2>6. \A j \in LocalWrites(t) : j < x.i => j <= x.current
      BY <1>1, <2>5 DEF LocalWrites, TxState
    <2> HIDE DEF x
    <2>7. HoldStep(t, x)
      BY <1>3, <2>4, <2>5, <2>6 DEF HoldStep, RpcPhase, Idle, ExecPhase, RoPhase
    <2>8. /\ tx'[t] = x /\ RemoteWrites(t)' = RemoteWrites(t)
          /\ LocalWrites(t)' = LocalWrites(t)
      BY <2>7, HoldStepControl
    <2>9. /\ LocalHeld(t)' = LocalHeld(t) /\ RemoteHeld(t)' = RemoteHeld(t)
          /\ RemoteMayHold(t)' = RemoteMayHold(t)
      BY <1>1, <2>1, <2>5, <2>8 DEF LocalHeld, RemoteHeld, RemoteMayHold
    <2> QED BY <1>1, <2>7, <2>9, SameHeld, NothingLocked DEF LockInv, TypeOK
  <1> QED BY <1>2, <1>3 DEF LockCheck

\* After LockAllSet every local write is locked.
LEMMA CommitTsPreserves ==
  ASSUME LockInv, NEW t \in Tx, CommitTs(t) PROVE Preserved(t)
  <1>1. /\ tx[t] \in TxState /\ Control(t) /\ UNCHANGED <<node, log>>
        /\ tx[t].pc = "lock_all" /\ tx[t].i \notin DOMAIN tx[t].rwset
    BY DEF LockInv, TypeOK, CommitTs
  <1>2. PICK m \in {tx[t].timestamp + 1} \cup
                   {tx[t].rset[j].seq : j \in DOMAIN tx[t].rset} :
          Become(t, [tx[t] EXCEPT !.pc = "commit", !.i = 1, !.timestamp = m])
    BY DEF CommitTs
  <1> DEFINE x == [tx[t] EXCEPT !.pc = "commit", !.i = 1, !.timestamp = m]
  <1>3. m \in Nat
    <2>1. tx[t].rset \in Seq(Item) /\ tx[t].timestamp \in Nat BY <1>1 DEF TxState
    <2>2. \A j \in DOMAIN tx[t].rset : tx[t].rset[j] \in Item BY <2>1
    <2> QED BY <1>2, <2>1, <2>2 DEF Item
  <1>4. x \in TxState BY <1>1, <1>3, Phases DEF TxState
  <1>5. /\ x.pc = "commit" /\ x.i = 1 /\ x.current = tx[t].current
        /\ x.todo = {} /\ x.rwset = tx[t].rwset /\ x.rset = tx[t].rset
        /\ x.current <= Len(x.rwset)
    BY <1>1 DEF TxState, Control, RpcPhase
  <1>6. Become(t, x) BY <1>2
  <1> HIDE DEF x
  <1>7. HoldStep(t, x)
    BY <1>4, <1>5, <1>6 DEF HoldStep, RpcPhase, Idle, ExecPhase, RoPhase
  <1>8. /\ tx'[t] = x /\ RemoteWrites(t)' = RemoteWrites(t)
        /\ LocalWrites(t)' = LocalWrites(t)
    BY <1>7, HoldStepControl
  <1>9. \A j \in LocalWrites(t) : j >= 1 /\ j <= tx[t].current
    BY <1>1 DEF Control, LocalWrites, TxState
  <1>10. LocalHeld(t)' = LocalWrites(t) BY <1>5, <1>8, <1>9 DEF LocalHeld
  <1>11. LocalHeld(t) = LocalWrites(t) BY <1>1, <1>9 DEF LocalHeld
  <1>12. RemoteHeld(t)' = RemoteHeld(t) /\ RemoteMayHold(t)' = RemoteMayHold(t)
    BY <1>1, <1>5, <1>8 DEF RemoteHeld, RemoteMayHold
  <1> QED BY <1>1, <1>7, <1>10, <1>11, <1>12, SameHeld, NothingLocked DEF LockInv, TypeOK

\* A step of end() that takes a free lock for t or frees a lock of t is
\* Preserved once t's own books are right.
LEMMA LockChange ==
  ASSUME LockInv, NEW t \in Tx, NEW x, HoldStep(t, x), x # tx[t],
         NEW k \in Key, NEW v, node' = [node EXCEPT ![k].lock = v],
         \/ node[k].lock = NoTx /\ v = t
         \/ node[k].lock = t /\ v = NoTx,
         log' = log, Locks(t)'
  PROVE  Preserved(t)
  <1>1. /\ tx' \in [Tx -> TxState] /\ tx'[t] = x /\ Control(t)'
        /\ \A u \in Tx : u # t => tx'[u] = tx[u]
    BY HoldStepControl
  <1>2. node' \in [Key -> MemNode] BY DEF LockInv, TypeOK, MemNode
  <1>3. TypeOK' BY <1>1, <1>2 DEF LockInv, TypeOK
  <1>4. \A h \in Key : IF h = k THEN node'[h].lock = v ELSE node'[h].lock = node[h].lock
    BY DEF LockInv, TypeOK, MemNode
  <1> QED BY <1>1, <1>3, <1>4 DEF Preserved, LockStep

\* What assigning one node's lock does to the locks.
LEMMA LockValue ==
  ASSUME LockInv, NEW k \in Key, NEW v, node' = [node EXCEPT ![k].lock = v]
  PROVE  /\ node'[k].lock = v
         /\ \A h \in Key : h # k => node'[h].lock = node[h].lock
BY DEF LockInv, TypeOK, MemNode

\* LockAllSet: the lock just taken was free, so it is none of those t holds
\* already, and `current' now covers it.
LEMMA LockAllSetPreserves ==
  ASSUME LockInv, NEW t \in Tx, LockAllSet(t) PROVE Preserved(t)
  <1> DEFINE n == tx[t].i
             k == tx[t].rwset[n].key
             x == [tx[t] EXCEPT !.i = @ + 1]
             y == [tx[t] EXCEPT !.pc = "lock_chk", !.current = tx[t].i]
  <1>1. /\ tx[t] \in TxState /\ Control(t) /\ Locks(t) /\ log' = log
        /\ tx[t].pc = "lock_all" /\ n \in DOMAIN tx[t].rwset
    BY DEF LockInv, TypeOK, LockAllSet
  <1>2. /\ n \in Nat /\ n + 1 \in Nat /\ tx[t].current \in Nat
        /\ tx[t].todo = {} /\ n > 0 /\ n <= Len(tx[t].rwset)
        /\ tx[t].current < n /\ tx[t].current <= Len(tx[t].rwset)
        /\ \A j \in LocalWrites(t) : j \in Nat /\ (j < n => j <= tx[t].current)
    BY SMTT(30), <1>1 DEF TxState, Control, RpcPhase, LocalWrites
  <1>3. CASE ~tx[t].rwset[n].w /\ Become(t, x) /\ UNCHANGED node
    <2>1. x \in TxState BY <1>1, <1>2, Phases DEF TxState
    <2>2. /\ x.pc = "lock_all" /\ x.current = tx[t].current /\ x.i = n + 1
          /\ x.todo = {} /\ x.rwset = tx[t].rwset /\ x.rset = tx[t].rset
      BY <1>1, <1>2 DEF TxState
    <2>3. n \notin LocalWrites(t) BY <1>3 DEF LocalWrites
    <2>4. \A j \in LocalWrites(t) : j < x.i => j <= x.current
      BY <1>2, <2>2, <2>3
    <2> HIDE DEF x
    <2>5. HoldStep(t, x)
      BY <1>2, <1>3, <2>1, <2>2, <2>4 DEF HoldStep, RpcPhase, Idle, ExecPhase, RoPhase
    <2>6. /\ tx'[t] = x /\ RemoteWrites(t)' = RemoteWrites(t)
          /\ LocalWrites(t)' = LocalWrites(t)
      BY <2>5, HoldStepControl
    <2>7. /\ LocalHeld(t)' = LocalHeld(t) /\ RemoteHeld(t)' = RemoteHeld(t)
          /\ RemoteMayHold(t)' = RemoteMayHold(t)
      BY <1>1, <2>2, <2>6 DEF LocalHeld, RemoteHeld, RemoteMayHold
    <2> QED BY <1>1, <1>3, <2>5, <2>7, SameHeld, NothingLocked DEF LockInv, TypeOK
  <1>4. CASE Abort(t) /\ UNCHANGED node
    BY <1>1, <1>4, AbortPreserves DEF LockPhase
  <1>5. CASE /\ tx[t].rwset[n].w /\ node[k].lock = NoTx
             /\ node' = [node EXCEPT ![k].lock = t] /\ Become(t, y)
    <2>1. y \in TxState BY <1>1, <1>2, Phases DEF TxState
    <2>2. /\ y.pc = "lock_chk" /\ y.current = n /\ y.i = n /\ y # tx[t]
          /\ y.todo = {} /\ y.rwset = tx[t].rwset /\ y.rset = tx[t].rset
      BY <1>1, <1>2 DEF TxState
    <2>3. n \in LocalWrites(t) BY <1>1, <1>5 DEF LocalWrites
    <2> HIDE DEF y
    <2>4. HoldStep(t, y)
      BY <1>2, <1>5, <2>1, <2>2, <2>3 DEF HoldStep, RpcPhase, Idle, ExecPhase, RoPhase
    <2>5. /\ tx'[t] = y /\ RemoteWrites(t)' = RemoteWrites(t)
          /\ LocalWrites(t)' = LocalWrites(t)
      BY <2>4, HoldStepControl
    <2>6. /\ LocalHeld(t)' = {j \in LocalWrites(t) : j <= n}
          /\ LocalHeld(t) = {j \in LocalWrites(t) : j <= tx[t].current}
      BY <1>1, <2>2, <2>5 DEF LocalHeld
    <2>7. LocalHeld(t)' = LocalHeld(t) \cup {n}
      BY <1>2, <2>3, <2>6
    <2>8. RemoteHeld(t)' = RemoteHeld(t) /\ RemoteMayHold(t)' = RemoteMayHold(t)
      BY <1>1, <2>2, <2>5 DEF RemoteHeld, RemoteMayHold
    <2>9. /\ k \in Key
          /\ \A j \in LocalHeld(t) : tx[t].rwset[j].key \in Key
          /\ \A j \in RemoteHeld(t) : tx[t].rset[j].key \in Key
      BY <1>1, ItemKeys
         DEF LockInv, LocalHeld, LocalWrites, RemoteHeld, RemoteWrites
    <2>10. t # NoTx BY ConstantAssumption DEF ConstantAssumption
    <2>11. /\ node'[k].lock = t
           /\ \A h \in Key : h # k => node'[h].lock = node[h].lock
      BY <1>5, <2>9, LockValue
    <2>12. Locks(t)'
      <3>1. \A h \in Key : node'[h].lock = t =>
              \/ \E i \in LocalHeld(t)' : tx[t].rwset[i].key = h
              \/ \E i \in RemoteMayHold(t)' : tx[t].rset[i].key = h
        BY <1>1, <2>7, <2>8, <2>11 DEF Locks
      <3>a. /\ \A i \in LocalHeld(t) : node[tx[t].rwset[i].key].lock = t
            /\ \A i \in RemoteHeld(t) : node[tx[t].rset[i].key].lock = t
        BY <1>1 DEF Locks
      <3>2. /\ \A i \in LocalHeld(t) : tx[t].rwset[i].key # k
            /\ \A i \in RemoteHeld(t) : tx[t].rset[i].key # k
        BY <1>5, <2>10, <3>a
      <3>3. /\ \A i \in LocalHeld(t)' : node'[tx[t].rwset[i].key].lock = t
            /\ \A i \in RemoteHeld(t)' : node'[tx[t].rset[i].key].lock = t
        BY <1>1, <2>7, <2>8, <2>9, <2>11, <3>2 DEF Locks
      <3>4. /\ \A i, j \in LocalHeld(t)' :
                 tx[t].rwset[i].key = tx[t].rwset[j].key => i = j
            /\ \A i, j \in RemoteHeld(t)' :
                 tx[t].rset[i].key = tx[t].rset[j].key => i = j
        BY <1>1, <2>7, <2>8, <3>2 DEF Locks
      <3> QED BY <2>2, <2>5, <3>1, <3>3, <3>4 DEF Locks
    <2> HIDE DEF k
    <2> QED BY <1>1, <1>5, <2>2, <2>4, <2>9, <2>12, LockChange
  <1> QED BY <1>3, <1>4, <1>5 DEF LockAllSet

\* Freeing a lock that t holds preserves the invariant when exactly the items
\* on that record leave the books.
LEMMA GiveBack ==
  ASSUME LockInv, NEW t \in Tx, NEW x, HoldStep(t, x), x # tx[t],
         NEW k \in Key, node[k].lock = t,
         node' = [node EXCEPT ![k].lock = NoTx], log' = log,
         LocalHeld(t)' = {j \in LocalHeld(t) : tx[t].rwset[j].key # k},
         RemoteHeld(t)' \subseteq {j \in RemoteHeld(t) : tx[t].rset[j].key # k},
         \A j \in RemoteMayHold(t) : tx[t].rset[j].key # k => j \in RemoteMayHold(t)'
  PROVE  Preserved(t)
  <1>1. tx'[t] = x /\ x.rwset = tx[t].rwset /\ x.rset = tx[t].rset
    BY HoldStepControl DEF HoldStep
  <1>2. Locks(t) BY DEF LockInv
  <1>3. /\ \A j \in LocalHeld(t) : tx[t].rwset[j].key \in Key
        /\ \A j \in RemoteHeld(t) : tx[t].rset[j].key \in Key
    BY ItemKeys DEF LockInv, LocalHeld, LocalWrites, RemoteHeld, RemoteWrites
  <1>4. /\ node'[k].lock = NoTx /\ t # NoTx
        /\ \A h \in Key : h # k => node'[h].lock = node[h].lock
    BY LockValue, ConstantAssumption DEF ConstantAssumption
  <1>5. \A h \in Key : node'[h].lock = t =>
          \/ \E i \in LocalHeld(t)' : tx[t].rwset[i].key = h
          \/ \E i \in RemoteMayHold(t)' : tx[t].rset[i].key = h
    <2> SUFFICES ASSUME NEW h \in Key, node'[h].lock = t
                 PROVE  \/ \E i \in LocalHeld(t)' : tx[t].rwset[i].key = h
                        \/ \E i \in RemoteMayHold(t)' : tx[t].rset[i].key = h
      OBVIOUS
    <2>1. h # k /\ node[h].lock = t BY <1>4
    <2>2. CASE \E i \in LocalHeld(t) : tx[t].rwset[i].key = h BY <2>1, <2>2
    <2>3. CASE \E i \in RemoteMayHold(t) : tx[t].rset[i].key = h BY <2>1, <2>3
    <2> QED BY <1>2, <2>1, <2>2, <2>3 DEF Locks
  <1>6. /\ \A i \in LocalHeld(t)' : node'[tx[t].rwset[i].key].lock = t
        /\ \A i \in RemoteHeld(t)' : node'[tx[t].rset[i].key].lock = t
    BY <1>2, <1>3, <1>4 DEF Locks
  <1>7. /\ \A i, j \in LocalHeld(t)' :
             tx[t].rwset[i].key = tx[t].rwset[j].key => i = j
        /\ \A i, j \in RemoteHeld(t)' :
             tx[t].rset[i].key = tx[t].rset[j].key => i = j
    BY <1>2 DEF Locks
  <1>8. Locks(t)' BY <1>1, <1>5, <1>6, <1>7 DEF Locks
  <1> QED BY <1>8, LockChange

\* After release_remote() only local locks are left.
LEMMA ReleaseRepliesPreserves ==
  ASSUME LockInv, NEW t \in Tx, ReleaseReplies(t) PROVE Preserved(t)
  <1> DEFINE x == [tx[t] EXCEPT !.pc = "release_all", !.i = 1]
  <1>1. /\ tx[t] \in TxState /\ Control(t) /\ UNCHANGED <<node, log>>
        /\ tx[t].pc = "release_remote" /\ tx[t].todo = {} /\ Become(t, x)
    BY DEF LockInv, TypeOK, ReleaseReplies
  <1>2. x \in TxState BY <1>1, Phases DEF TxState
  <1>3. /\ x.pc = "release_all" /\ x.current = tx[t].current /\ x.i = 1
        /\ x.todo = {} /\ x.rwset = tx[t].rwset /\ x.rset = tx[t].rset
        /\ x.current <= Len(x.rwset)
    BY <1>1 DEF TxState, Control
  <1> HIDE DEF x
  <1>4. HoldStep(t, x)
    BY <1>1, <1>2, <1>3 DEF HoldStep, RpcPhase, Idle, ExecPhase, RoPhase
  <1>5. /\ tx'[t] = x /\ RemoteWrites(t)' = RemoteWrites(t)
        /\ LocalWrites(t)' = LocalWrites(t)
    BY <1>4, HoldStepControl
  <1>6. \A j \in LocalWrites(t) : 1 <= j BY <1>1 DEF LocalWrites, TxState
  <1>7. LocalHeld(t)' = LocalHeld(t) BY <1>1, <1>3, <1>5, <1>6 DEF LocalHeld
  <1>8. RemoteHeld(t)' = {} /\ RemoteMayHold(t) = {}
    BY <1>1, <1>3, <1>5 DEF RemoteHeld, RemoteMayHold
  <1> QED BY <1>1, <1>4, <1>7, <1>8, SameHeld, NothingLocked DEF LockInv, TypeOK

\* After CommitLocalWrite only remote locks are left.
LEMMA CommitRemotePreserves ==
  ASSUME LockInv, NEW t \in Tx, CommitRemote(t) PROVE Preserved(t)
  <1> DEFINE x == [tx[t] EXCEPT !.pc = "commit_remote", !.todo = RemoteWrites(t)]
  <1>1. /\ tx[t] \in TxState /\ Control(t) /\ UNCHANGED <<node, log>>
        /\ tx[t].pc = "commit" /\ tx[t].i \notin DOMAIN tx[t].rwset /\ Become(t, x)
    BY DEF LockInv, TypeOK, CommitRemote
  <1>2. RemoteWrites(t) \subseteq Nat BY <1>1 DEF TxState, RemoteWrites
  <1>3. x \in TxState BY <1>1, <1>2, Phases DEF TxState
  <1>4. /\ x.pc = "commit_remote" /\ x.current = tx[t].current /\ x.i = tx[t].i
        /\ x.todo = RemoteWrites(t) /\ x.rwset = tx[t].rwset /\ x.rset = tx[t].rset
        /\ x.current <= Len(x.rwset) /\ x.i > 0
    BY <1>1 DEF TxState, Control
  <1> HIDE DEF x
  <1>5. HoldStep(t, x)
    BY <1>1, <1>3, <1>4 DEF HoldStep, RpcPhase, Idle, ExecPhase, RoPhase
  <1>6. /\ tx'[t] = x /\ RemoteWrites(t)' = RemoteWrites(t)
        /\ LocalWrites(t)' = LocalWrites(t)
    BY <1>5, HoldStepControl
  <1>7. \A j \in LocalWrites(t) : j < tx[t].i
    BY <1>1 DEF LocalWrites, TxState, Control
  <1>8. LocalHeld(t)' = {} /\ LocalHeld(t) = {}
    <2>1. \A j \in LocalWrites(t) : j \in Nat BY <1>1 DEF LocalWrites, TxState
    <2>2. tx[t].i \in Nat BY <1>1 DEF TxState
    <2> QED BY <1>1, <1>4, <1>6, <1>7, <2>1, <2>2 DEF LocalHeld
  <1>9. /\ RemoteHeld(t)' = RemoteHeld(t)
        /\ RemoteMayHold(t)' = RemoteMayHold(t)
    BY <1>1, <1>4, <1>6 DEF RemoteHeld, RemoteMayHold
  <1> QED BY <1>1, <1>5, <1>8, <1>9, SameHeld, NothingLocked DEF LockInv, TypeOK

\* A committed transaction holds no lock.
LEMMA CommitRepliesPreserves ==
  ASSUME LockInv, NEW t \in Tx, CommitReplies(t) PROVE Preserved(t)
  <1> DEFINE x == [tx[t] EXCEPT !.pc = "committed"]
  <1>1. /\ tx[t] \in TxState /\ Control(t) /\ UNCHANGED <<node, log>>
        /\ tx[t].pc = "commit_remote" /\ tx[t].todo = {} /\ Become(t, x)
    BY DEF LockInv, TypeOK, CommitReplies
  <1>2. x \in TxState BY <1>1, Phases DEF TxState
  <1>3. /\ x.pc = "committed" /\ x.current = tx[t].current /\ x.i = tx[t].i
        /\ x.todo = {} /\ x.rwset = tx[t].rwset /\ x.rset = tx[t].rset
        /\ x.current <= Len(x.rwset) /\ x.i > 0
    BY <1>1 DEF TxState, Control
  <1> HIDE DEF x
  <1>4. HoldStep(t, x)
    BY <1>1, <1>2, <1>3 DEF HoldStep, RpcPhase, Idle, ExecPhase, RoPhase
  <1>5. tx'[t] = x BY <1>4, HoldStepControl
  <1>6. /\ LocalHeld(t)' = {} /\ LocalHeld(t) = {}
        /\ RemoteHeld(t)' = {} /\ RemoteMayHold(t) = {}
    BY <1>1, <1>3, <1>5 DEF LocalHeld, RemoteHeld, RemoteMayHold
  <1> QED BY <1>1, <1>4, <1>6, SameHeld, NothingLocked DEF LockInv, TypeOK

\* ReleaseAllSet: lock = 0 is written without a comparison, but only to locks
\* of t, and when the loop ends none is left.
LEMMA ReleaseAllSetPreserves ==
  ASSUME LockInv, NEW t \in Tx, ReleaseAllSet(t) PROVE Preserved(t)
  <1> DEFINE n == tx[t].i
             k == tx[t].rwset[n].key
             x == [tx[t] EXCEPT !.pc = "aborted"]
             y == [tx[t] EXCEPT !.i = @ + 1]
  <1>1. /\ tx[t] \in TxState /\ Control(t) /\ Locks(t) /\ log' = log
        /\ tx[t].pc = "release_all" /\ tx[t].todo = {}
    BY DEF LockInv, TypeOK, ReleaseAllSet, Control, RpcPhase
  <1>2. /\ n \in Nat /\ n + 1 \in Nat /\ n > 0 /\ tx[t].current \in Nat
        /\ tx[t].current <= Len(tx[t].rwset)
        /\ \A j \in LocalWrites(t) : j \in Nat
    BY SMTT(30), <1>1 DEF TxState, Control, LocalWrites
  <1>3. /\ LocalHeld(t) = {j \in LocalWrites(t) : n <= j /\ j <= tx[t].current}
        /\ RemoteHeld(t) = {} /\ RemoteMayHold(t) = {}
    BY <1>1 DEF LocalHeld, RemoteHeld, RemoteMayHold
  <1>4. CASE n > tx[t].current /\ Become(t, x) /\ UNCHANGED node
    <2>1. x \in TxState BY <1>1, Phases DEF TxState
    <2>2. /\ x.pc = "aborted" /\ x.current = tx[t].current /\ x.i = n
          /\ x.todo = {} /\ x.rwset = tx[t].rwset /\ x.rset = tx[t].rset
      BY <1>1 DEF TxState
    <2> HIDE DEF x
    <2>3. HoldStep(t, x)
      BY <1>2, <1>4, <2>1, <2>2 DEF HoldStep, RpcPhase, Idle, ExecPhase, RoPhase
    <2>4. tx'[t] = x BY <2>3, HoldStepControl
    <2>5. LocalHeld(t)' = {} /\ RemoteHeld(t)' = {}
      BY <2>2, <2>4 DEF LocalHeld, RemoteHeld
    <2>6. LocalHeld(t) = {} BY <1>2, <1>3, <1>4
    <2> QED BY <1>1, <1>3, <1>4, <2>3, <2>5, <2>6, SameHeld, NothingLocked DEF LockInv, TypeOK
  <1>5. CASE /\ n <= tx[t].current /\ Become(t, y)
             /\ node' = IF tx[t].rwset[n].w THEN [node EXCEPT ![k].lock = NoTx] ELSE node
    <2>1. y \in TxState BY <1>1, <1>2 DEF TxState
    <2>2. /\ y.pc = "release_all" /\ y.current = tx[t].current /\ y.i = n + 1
          /\ y.todo = {} /\ y.rwset = tx[t].rwset /\ y.rset = tx[t].rset
      BY <1>1 DEF TxState
    <2> HIDE DEF y
    <2>a. y # tx[t] BY <1>2, <2>2
    <2>b. y.pc \notin RpcPhase /\ y.pc \notin {Idle} \cup ExecPhase \cup RoPhase
      BY <2>2 DEF RpcPhase, Idle, ExecPhase, RoPhase
    <2>3. HoldStep(t, y) /\ y # tx[t]
      BY <1>2, <1>5, <2>1, <2>2, <2>a, <2>b DEF HoldStep
    <2>4. /\ tx'[t] = y /\ LocalWrites(t)' = LocalWrites(t)
      BY <2>3, HoldStepControl
    <2>5. LocalHeld(t)' = {j \in LocalWrites(t) : n + 1 <= j /\ j <= tx[t].current}
      BY <2>2, <2>4 DEF LocalHeld
    <2>6. LocalHeld(t)' = LocalHeld(t) \ {n} BY <1>2, <1>3, <2>5
    <2>7. RemoteHeld(t)' = {} BY <2>2, <2>4 DEF RemoteHeld
    <2>8. CASE ~tx[t].rwset[n].w
      <3>1. n \notin LocalHeld(t) BY <1>3, <2>8 DEF LocalWrites
      <3> QED BY <1>1, <1>3, <1>5, <2>3, <2>6, <2>7, <2>8, <3>1, SameHeld, NothingLocked
              DEF LockInv, TypeOK
    <2>9. CASE tx[t].rwset[n].w
      <3>1. n \in LocalHeld(t)
        <4>1. tx[t].rwset \in Seq(Item) BY <1>1 DEF TxState
        <4>a. n <= tx[t].current BY <1>5
        <4> HIDE DEF n
        <4>2. n \in 1..Len(tx[t].rwset) BY <1>2, <4>1, <4>a
        <4>3. n \in LocalWrites(t) BY <2>9, <4>1, <4>2 DEF LocalWrites
        <4> QED BY <1>2, <1>3, <4>3, <4>a
      <3>2. k \in Key /\ node[k].lock = t
        BY <1>1, <3>1, ItemKeys DEF LockInv, Locks, LocalHeld, LocalWrites
      <3>3. LocalHeld(t)' = {j \in LocalHeld(t) : tx[t].rwset[j].key # k}
        BY <1>1, <2>6, <3>1 DEF Locks
      <3>4. node' = [node EXCEPT ![k].lock = NoTx] BY <1>5, <2>9
      <3> HIDE DEF k
      <3> QED BY <1>1, <1>3, <2>3, <2>7, <3>2, <3>3, <3>4, GiveBack
    <2> QED BY <2>8, <2>9
  <1> QED BY <1>4, <1>5 DEF ReleaseAllSet

\* Progress inside an install touches nothing else.
LEMMA StageType ==
  ASSUME NEW x \in TxState, NEW p \in Part, NEW n \in 0..2,
         NEW y, y = [x EXCEPT !.stage[p] = n]
  PROVE  /\ y \in TxState /\ y.pc = x.pc /\ y.todo = x.todo /\ y.i = x.i
         /\ y.current = x.current /\ y.rwset = x.rwset /\ y.rset = x.rset
  <1>1. [x.stage EXCEPT ![p] = n] \in [Part -> 0..2] BY DEF TxState
  <1> QED BY <1>1 DEF TxState

\* The value switch changes no lock.
LEMMA SwapLocks ==
  ASSUME TypeOK, NEW t \in Tx, NEW it \in Item, NEW ver \in Nat, Swap(t, it, ver)
  PROVE  SameLocks /\ log' = log
  <1> DEFINE cur == node[it.key].value
             val == IF it.kind = "del" THEN Null ELSE t
             old == IF cur = Null THEN <<>>
                    ELSE <<[ver |-> ver, by |-> cur]>> \o node[it.key].old
             nd == [node[it.key] EXCEPT !.seq = 1, !.value = val, !.old = old]
  <1>1. it.key \in Key /\ node \in [Key -> MemNode] BY DEF Item, TypeOK
  <1>2. node[it.key] \in MemNode BY <1>1
  <1>3. val \in Val BY DEF Val
  <1>4. old \in Seq(Version)
    <2>1. [ver |-> ver, by |-> cur] \in Version BY <1>2 DEF Version, MemNode
    <2>2. node[it.key].old \in Seq(Version) BY <1>2 DEF MemNode
    <2> HIDE DEF cur
    <2> QED BY <2>1, <2>2
  <1>5. node' = [node EXCEPT ![it.key] = nd] /\ log' = log
    BY <1>1, <1>2 DEF Swap, MemNode
  <1> HIDE DEF val, old
  <1>6. nd \in MemNode /\ nd.lock = node[it.key].lock BY <1>2, <1>3, <1>4 DEF MemNode
  <1> HIDE DEF nd
  <1> QED BY <1>1, <1>5, <1>6 DEF SameLocks

\* The store of the commit timestamp changes no lock.
LEMMA PublishLocks ==
  ASSUME TypeOK, NEW t \in Tx, NEW it \in Item, Publish(t, it)
  PROVE  SameLocks /\ log' \in [Key -> Seq(Version)]
  <1> DEFINE v == [ver |-> tx[t].timestamp, by |-> node[it.key].value]
  <1>1. /\ it.key \in Key /\ node \in [Key -> MemNode]
        /\ log \in [Key -> Seq(Version)] /\ tx[t].timestamp \in Nat
    BY DEF Item, TypeOK, TxState
  <1>2. v \in Version BY <1>1 DEF Version, MemNode
  <1>3. SameLocks
    <2> DEFINE nd == [node[it.key] EXCEPT !.seq = tx[t].timestamp]
    <2>1. node' = [node EXCEPT ![it.key] = nd] BY DEF Publish
    <2>2. nd \in MemNode /\ nd.lock = node[it.key].lock BY <1>1 DEF MemNode
    <2> HIDE DEF nd
    <2> QED BY <1>1, <2>1, <2>2 DEF SameLocks
  <1>4. log' = [log EXCEPT ![it.key] = Append(@, v)] BY DEF Publish
  <1> HIDE DEF v
  <1> QED BY <1>1, <1>2, <1>3, <1>4

\* seq = 1 changes no lock, and leaves the progress of the install at 0.
LEMMA HideLocks ==
  ASSUME TypeOK, NEW t \in Tx, NEW it \in Item, Hide(t, it)
  PROVE  /\ SameLocks /\ log' = log
         /\ Become(t, [tx[t] EXCEPT !.stage[PartOf[it.key]] = 0])
  <1> DEFINE nd == [node[it.key] EXCEPT !.seq = 1]
             p == PartOf[it.key]
  <1>1. it.key \in Key /\ node \in [Key -> MemNode] BY DEF Item, TypeOK
  <1>2. node' = [node EXCEPT ![it.key] = nd] BY DEF Hide
  <1>3. nd \in MemNode /\ nd.lock = node[it.key].lock BY <1>1 DEF MemNode
  <1>4. /\ tx \in [Tx -> TxState] /\ tx[t] \in TxState /\ p \in Part
        /\ tx' = tx /\ log' = log /\ tx[t].stage[p] = 0
    BY <1>1, ConstantAssumption DEF ConstantAssumption, TypeOK, Hide
  <1> HIDE DEF nd, p
  <1>5. SameLocks BY <1>1, <1>2, <1>3 DEF SameLocks
  <1>6. [tx[t].stage EXCEPT ![p] = 0] = tx[t].stage BY <1>4 DEF TxState
  <1>7. [tx[t] EXCEPT !.stage[p] = 0] = tx[t] BY <1>4, <1>6 DEF TxState
  <1> QED BY <1>4, <1>5, <1>7 DEF Become, p

\* The first three steps of an install preserve the invariant.
LEMMA InstallStep ==
  ASSUME LockInv, NEW t \in Tx, tx[t].pc \in CommitPhase, NEW it \in Item,
         NEW ver \in Nat, Hide(t, it) \/ Swap(t, it, ver) \/ Publish(t, it)
  PROVE  Preserved(t)
  <1>1. tx[t] \in TxState /\ Control(t) BY DEF LockInv, TypeOK
  <1>2. PartOf[it.key] \in Part
    BY ConstantAssumption DEF ConstantAssumption, Item
  <1>3. SameLocks /\ log' \in [Key -> Seq(Version)]
    BY HideLocks, SwapLocks, PublishLocks DEF LockInv, TypeOK
  <1>4. PICK n \in 0..2 : Become(t, [tx[t] EXCEPT !.stage[PartOf[it.key]] = n])
    <2>1. CASE Hide(t, it)
      <3>1. Become(t, [tx[t] EXCEPT !.stage[PartOf[it.key]] = 0]) BY <2>1, HideLocks DEF LockInv
      <3> QED BY <3>1
    <2>2. CASE Swap(t, it, ver) \/ Publish(t, it) BY <2>2 DEF Swap, Publish
    <2> QED BY <2>1, <2>2
  <1> DEFINE x == [tx[t] EXCEPT !.stage[PartOf[it.key]] = n]
  <1>5. Become(t, x) BY <1>4
  <1>a. x = [tx[t] EXCEPT !.stage[PartOf[it.key]] = n] OBVIOUS
  <1> HIDE DEF x
  <1>6. /\ x \in TxState /\ x.pc = tx[t].pc /\ x.todo = tx[t].todo /\ x.i = tx[t].i
        /\ x.current = tx[t].current /\ x.rwset = tx[t].rwset /\ x.rset = tx[t].rset
    BY <1>1, <1>2, <1>a, StageType
  <1>7. HoldStep(t, x)
    BY <1>1, <1>5, <1>6
       DEF HoldStep, Control, CommitPhase, RpcPhase, Idle, ExecPhase, RoPhase
  <1>8. /\ tx'[t] = x /\ RemoteWrites(t)' = RemoteWrites(t)
        /\ LocalWrites(t)' = LocalWrites(t)
    BY <1>7, HoldStepControl
  <1>9. /\ LocalHeld(t)' = LocalHeld(t) /\ RemoteHeld(t)' = RemoteHeld(t)
        /\ RemoteMayHold(t)' = RemoteMayHold(t)
    BY <1>6, <1>8 DEF LocalHeld, RemoteHeld, RemoteMayHold, CommitPhase
  <1> QED BY <1>3, <1>7, <1>9, SameHeld

\* CommitLocalWrite: the lock freed after an install is one of t, and the local
\* items still to be installed are still locked.
LEMMA CommitLocalWritePreserves ==
  ASSUME LockInv, NEW t \in Tx, CommitLocalWrite(t) PROVE Preserved(t)
  <1> DEFINE n == tx[t].i
             it == tx[t].rwset[n]
             y == [tx[t] EXCEPT !.i = @ + 1]
             x == [y EXCEPT !.stage[PartOf[it.key]] = 0]
  <1>1. /\ tx[t] \in TxState /\ Control(t) /\ Locks(t)
        /\ tx[t].pc = "commit" /\ n \in DOMAIN tx[t].rwset /\ tx[t].todo = {}
    BY DEF LockInv, TypeOK, CommitLocalWrite, Control, RpcPhase
  <1>2. /\ n \in Nat /\ n + 1 \in Nat /\ n > 0 /\ tx[t].current <= Len(tx[t].rwset)
        /\ \A j \in LocalWrites(t) : j \in Nat
    BY SMTT(30), <1>1 DEF TxState, Control, LocalWrites
  <1>3. it \in Item
    <2>1. tx[t].rwset \in Seq(Item) BY <1>1 DEF TxState
    <2> QED BY <1>1, <2>1
  <1>4. LocalHeld(t) = {j \in LocalWrites(t) : n <= j} BY <1>1 DEF LocalHeld
  <1>5. /\ y \in TxState /\ y.pc = "commit" /\ y.current = tx[t].current
        /\ y.i = n + 1 /\ y.todo = {} /\ y.rwset = tx[t].rwset /\ y.rset = tx[t].rset
    BY <1>1, <1>2 DEF TxState
  <1>6. ASSUME NEW z \in {x, y}, Become(t, z)
        PROVE  /\ HoldStep(t, z) /\ z # tx[t]
               /\ LocalHeld(t)' = LocalHeld(t) \ {n}
               /\ RemoteHeld(t)' = RemoteHeld(t)
               /\ RemoteMayHold(t)' = RemoteMayHold(t)
    <2>1. PartOf[it.key] \in Part
      BY <1>3, ConstantAssumption DEF ConstantAssumption, Item
    <2> HIDE DEF y, it
    <2>a. /\ x \in TxState /\ x.pc = y.pc /\ x.todo = y.todo /\ x.i = y.i
          /\ x.current = y.current /\ x.rwset = y.rwset /\ x.rset = y.rset
      <3>1. 0 \in 0..2 OBVIOUS
      <3> HIDE DEF x
      <3>2. ASSUME NEW p \in Part, NEW m \in 0..2, x = [y EXCEPT !.stage[p] = m]
            PROVE  /\ x \in TxState /\ x.pc = y.pc /\ x.todo = y.todo /\ x.i = y.i
                   /\ x.current = y.current /\ x.rwset = y.rwset /\ x.rset = y.rset
        BY <1>5, <2>1, <3>2, StageType
      <3> QED BY <1>5, <2>1, <3>1, <3>2 DEF x
    <2> HIDE DEF x
    <2>2. /\ z \in TxState /\ z.pc = "commit" /\ z.current = tx[t].current
          /\ z.i = n + 1 /\ z.todo = {} /\ z.rwset = tx[t].rwset /\ z.rset = tx[t].rset
      BY <1>5, <1>6, <2>a
    <2>3. HoldStep(t, z) /\ z # tx[t]
      BY <1>2, <1>6, <2>2 DEF HoldStep, RpcPhase, Idle, ExecPhase, RoPhase
    <2>4. /\ tx'[t] = z /\ RemoteWrites(t)' = RemoteWrites(t)
          /\ LocalWrites(t)' = LocalWrites(t)
      BY <2>3, HoldStepControl
    <2>5. LocalHeld(t)' = {j \in LocalWrites(t) : n + 1 <= j}
      BY <2>2, <2>4 DEF LocalHeld
    <2>6. LocalHeld(t)' = LocalHeld(t) \ {n} BY <1>2, <1>4, <2>5
    <2>7. RemoteHeld(t)' = RemoteHeld(t) /\ RemoteMayHold(t)' = RemoteMayHold(t)
      BY <1>1, <2>2, <2>4 DEF RemoteHeld, RemoteMayHold
    <2> QED BY <2>3, <2>6, <2>7
  <1>7. CASE ~it.w /\ Become(t, y) /\ UNCHANGED <<node, log>>
    <2>1. n \notin LocalHeld(t) BY <1>4, <1>7 DEF LocalWrites
    <2> HIDE DEF x, y
    <2> QED BY <1>6, <1>7, <2>1, SameHeld, NothingLocked DEF LockInv, TypeOK
  <1>8. CASE Hide(t, it) \/ Swap(t, it, it.seq) \/ Publish(t, it)
    <2>1. it.seq \in Nat BY <1>3 DEF Item
    <2> HIDE DEF it
    <2> QED BY <1>1, <1>3, <1>8, <2>1, InstallStep DEF CommitPhase
  <1>9. CASE it.w /\ Unlock(t, it, y)
    <2>1. /\ Become(t, x) /\ log' = log
          /\ node' = [node EXCEPT ![it.key].lock = NoTx]
      BY <1>9 DEF Unlock
    <2>2. n \in LocalHeld(t) BY <1>1, <1>2, <1>4, <1>9 DEF LocalWrites
    <2>3. it.key \in Key /\ node[it.key].lock = t BY <1>1, <1>3, <2>2 DEF Item, Locks
    <2>4. LocalHeld(t) \ {n} = {j \in LocalHeld(t) : tx[t].rwset[j].key # it.key}
      BY <1>1, <2>2 DEF Locks
    <2>5. /\ HoldStep(t, x) /\ x # tx[t] /\ LocalHeld(t)' = LocalHeld(t) \ {n}
          /\ RemoteHeld(t)' = RemoteHeld(t) /\ RemoteMayHold(t)' = RemoteMayHold(t)
      <3> HIDE DEF x
      <3> QED BY <1>6, <2>1
    <2>6. \A j \in RemoteHeld(t) : tx[t].rset[j].key # it.key
      <3>1. IsLocal(t, it.key) BY <1>1 DEF Control
      <3>2. \A j \in RemoteHeld(t) : ~IsLocal(t, tx[t].rset[j].key)
        BY <1>1 DEF Control, RemoteHeld, RemoteWrites
      <3> QED BY <3>1, <3>2
    <2> HIDE DEF it, x, y
    <2> QED BY <2>1, <2>3, <2>4, <2>5, <2>6, GiveBack
  <1> HIDE DEF it, y, x
  <1> QED BY <1>7, <1>8, <1>9 DEF CommitLocalWrite, it, y

\* The item a server works on is a remote write of the sender.
LEMMA NextAtItem ==
  ASSUME LockInv, NEW t \in Tx, NEW i \in tx[t].todo
  PROVE  /\ i \in RemoteWrites(t) /\ i \in DOMAIN tx[t].rset
         /\ tx[t].rset[i] \in Item /\ tx[t].rset[i].key \in Key
         /\ ~IsLocal(t, tx[t].rset[i].key)
  <1>1. i \in RemoteWrites(t) BY DEF LockInv, Control
  <1>2. i \in DOMAIN tx[t].rset BY <1>1 DEF RemoteWrites
  <1>3. tx[t].rset \in Seq(Item) BY DEF LockInv, TypeOK, TxState
  <1>4. tx[t].rset[i] \in Item BY <1>2, <1>3
  <1>5. ~IsLocal(t, tx[t].rset[i].key) BY <1>2 DEF LockInv, Control
  <1> QED BY <1>1, <1>2, <1>4, <1>5 DEF Item

\* commit_rpc_handler2: as CommitLocalWrite, for the items of one server.
LEMMA CommitRpcHandlerPreserves ==
  ASSUME LockInv, NEW t \in Tx, NEW i \in tx[t].todo, CommitRpcHandler(t, i)
  PROVE  Preserved(t)
  <1> DEFINE it == tx[t].rset[i]
             y == [tx[t] EXCEPT !.todo = @ \ {i}]
             x == [y EXCEPT !.stage[PartOf[it.key]] = 0]
  <1>1. /\ tx[t] \in TxState /\ Control(t) /\ Locks(t) /\ tx[t].pc = "commit_remote"
    BY DEF LockInv, TypeOK, CommitRpcHandler
  <1>2. /\ i \in RemoteWrites(t) /\ i \in DOMAIN tx[t].rset
        /\ it \in Item /\ it.key \in Key
    BY NextAtItem
  <1>3. CASE Hide(t, it) \/ Swap(t, it, node[it.key].seq) \/ Publish(t, it)
    <2>1. node[it.key].seq \in Nat BY <1>2 DEF LockInv, TypeOK, MemNode
    <2> HIDE DEF it
    <2> QED BY <1>1, <1>2, <1>3, <2>1, InstallStep DEF CommitPhase
  <1>4. CASE Unlock(t, it, y)
    <2>1. /\ Become(t, x) /\ log' = log
          /\ node' = [node EXCEPT ![it.key].lock = NoTx]
      BY <1>4 DEF Unlock
    <2>2. PartOf[it.key] \in Part
      BY <1>2, ConstantAssumption DEF ConstantAssumption
    <2>3. /\ y \in TxState /\ y.pc = "commit_remote" /\ y.current = tx[t].current
          /\ y.i = tx[t].i /\ y.todo = tx[t].todo \ {i}
          /\ y.rwset = tx[t].rwset /\ y.rset = tx[t].rset
      BY <1>1 DEF TxState
    <2>4. /\ RemoteHeld(t) = {j \in RemoteWrites(t) : j \in tx[t].todo}
          /\ RemoteMayHold(t) = {j \in RemoteWrites(t) : j \in tx[t].todo}
          /\ LocalHeld(t) = {}
      BY <1>1 DEF RemoteHeld, RemoteMayHold, LocalHeld
    <2>5. node[it.key].lock = t BY <1>1, <1>2, <2>4 DEF Locks
    <2>6. {j \in RemoteHeld(t) : tx[t].rset[j].key # it.key} = RemoteHeld(t) \ {i}
      BY <1>1, <1>2, <2>4 DEF Locks
    <2> HIDE DEF y, it
    <2>7. /\ x \in TxState /\ x.pc = y.pc /\ x.todo = y.todo /\ x.i = y.i
          /\ x.current = y.current /\ x.rwset = y.rwset /\ x.rset = y.rset
      <3>1. 0 \in 0..2 OBVIOUS
      <3> HIDE DEF x
      <3>2. ASSUME NEW p \in Part, NEW m \in 0..2, x = [y EXCEPT !.stage[p] = m]
            PROVE  /\ x \in TxState /\ x.pc = y.pc /\ x.todo = y.todo /\ x.i = y.i
                   /\ x.current = y.current /\ x.rwset = y.rwset /\ x.rset = y.rset
        BY <2>2, <2>3, <3>2, StageType
      <3> QED BY <2>2, <2>3, <3>1, <3>2 DEF x
    <2> HIDE DEF x
    <2>8. HoldStep(t, x) /\ x # tx[t]
      BY <1>1, <2>1, <2>3, <2>7
         DEF HoldStep, Control, RpcPhase, Idle, ExecPhase, RoPhase
    <2>9. tx'[t] = x /\ RemoteWrites(t)' = RemoteWrites(t)
      BY <2>8, HoldStepControl
    <2>10. /\ RemoteHeld(t)' = RemoteHeld(t) \ {i}
           /\ RemoteMayHold(t)' = RemoteMayHold(t) \ {i}
           /\ LocalHeld(t)' = {}
      BY <2>3, <2>4, <2>7, <2>9 DEF RemoteHeld, RemoteMayHold, LocalHeld
    <2>11. \A j \in RemoteMayHold(t) :
             tx[t].rset[j].key # it.key => j \in RemoteMayHold(t)'
      BY <2>10 DEF it
    <2>12. LocalHeld(t)' = {j \in LocalHeld(t) : tx[t].rwset[j].key # it.key}
      BY <2>4, <2>10
    <2> QED BY <1>2, <2>1, <2>5, <2>6, <2>8, <2>10, <2>11, <2>12, GiveBack
  <1> HIDE DEF it, y
  <1> QED BY <1>3, <1>4 DEF CommitRpcHandler, it, y

\* release_rpc_handler: the compare-and-swap frees nothing that others hold, and
\* what it leaves alone t did not hold.
LEMMA ReleaseRpcHandlerPreserves ==
  ASSUME LockInv, NEW t \in Tx, NEW i \in tx[t].todo, ReleaseRpcHandler(t, i)
  PROVE  Preserved(t)
  <1> DEFINE k == tx[t].rset[i].key
             x == [tx[t] EXCEPT !.todo = @ \ {i}]
  <1>1. /\ tx[t] \in TxState /\ Control(t) /\ Locks(t) /\ tx[t].pc = "release_remote"
        /\ log' = log /\ Become(t, x)
    BY DEF LockInv, TypeOK, ReleaseRpcHandler
  <1>2. i \in RemoteWrites(t) /\ k \in Key /\ ~IsLocal(t, k) BY NextAtItem
  <1>3. /\ x \in TxState /\ x.pc = "release_remote" /\ x.current = tx[t].current
        /\ x.i = tx[t].i /\ x.todo = tx[t].todo \ {i}
        /\ x.rwset = tx[t].rwset /\ x.rset = tx[t].rset
    BY <1>1 DEF TxState
  <1> HIDE DEF x
  <1>4. HoldStep(t, x) /\ x # tx[t]
    BY <1>1, <1>3 DEF HoldStep, Control, RpcPhase, Idle, ExecPhase, RoPhase
  <1>5. /\ tx'[t] = x /\ RemoteWrites(t)' = RemoteWrites(t)
        /\ LocalWrites(t)' = LocalWrites(t)
    BY <1>4, HoldStepControl
  <1>6. /\ RemoteHeld(t) = {} /\ RemoteHeld(t)' = {}
        /\ RemoteMayHold(t)' = RemoteMayHold(t) \ {i}
        /\ LocalHeld(t)' = LocalHeld(t)
    BY <1>1, <1>3, <1>5 DEF RemoteHeld, RemoteMayHold, LocalHeld
  <1>7. \A j \in LocalHeld(t) : tx[t].rwset[j].key # k
    <2>1. \A j \in LocalHeld(t) : IsLocal(t, tx[t].rwset[j].key)
      BY <1>1 DEF Control, LocalHeld, LocalWrites
    <2> QED BY <1>2, <2>1
  <1>8. CASE node[k].lock = t
    <2>1. node' = [node EXCEPT ![k].lock = NoTx] BY <1>8 DEF ReleaseRpcHandler
    <2>2. /\ LocalHeld(t)' = {j \in LocalHeld(t) : tx[t].rwset[j].key # k}
          /\ \A j \in RemoteMayHold(t) :
               tx[t].rset[j].key # k => j \in RemoteMayHold(t)'
      BY <1>6, <1>7
    <2> HIDE DEF k
    <2> QED BY <1>1, <1>2, <1>4, <1>6, <1>8, <2>1, <2>2, GiveBack
  <1>9. CASE node[k].lock # t
    <2>1. UNCHANGED node BY <1>9 DEF ReleaseRpcHandler
    <2>2. Locks(t)'
      <3>1. \A h \in Key : node[h].lock = t => h # k BY <1>9
      <3>2. \A h \in Key : node[h].lock = t =>
              \/ \E j \in LocalHeld(t)' : tx[t].rwset[j].key = h
              \/ \E j \in RemoteMayHold(t)' : tx[t].rset[j].key = h
        BY <1>1, <1>6, <3>1 DEF Locks
      <3> HIDE DEF k
      <3> QED BY <1>1, <1>3, <1>5, <1>6, <2>1, <3>2 DEF Locks
    <2>3. /\ tx' \in [Tx -> TxState] /\ Control(t)'
          /\ \A u \in Tx : u # t => tx'[u] = tx[u]
      BY <1>4, HoldStepControl
    <2>4. TypeOK' BY <1>1, <2>1, <2>3 DEF LockInv, TypeOK
    <2> QED BY <2>1, <2>2, <2>3, <2>4 DEF Preserved, LockStep
  <1> QED BY <1>8, <1>9

\* lock_rpc_handler: a failure in the middle of a request leaves locks behind,
\* all of them on items the release request will name.
LEMMA LockRpcHandlerPreserves ==
  ASSUME LockInv, NEW t \in Tx, NEW i \in tx[t].todo, LockRpcHandler(t, i)
  PROVE  Preserved(t)
  <1> DEFINE it == tx[t].rset[i]
             k == it.key
             mine == {j \in tx[t].todo : PartOf[tx[t].rset[j].key] = PartOf[it.key]}
             x == [tx[t] EXCEPT !.todo = @ \ mine, !.ok = FALSE]
             y == [tx[t] EXCEPT !.todo = @ \ {i}]
  <1>1. /\ tx[t] \in TxState /\ Control(t) /\ Locks(t) /\ tx[t].pc = "lock_remote"
        /\ log' = log
    BY DEF LockInv, TypeOK, LockRpcHandler
  <1>2. i \in RemoteWrites(t) /\ k \in Key BY NextAtItem
  <1>3. /\ LocalHeld(t) = {} /\ RemoteMayHold(t) = RemoteWrites(t)
        /\ RemoteHeld(t) = {j \in RemoteWrites(t) : tx[t].ok /\ j \notin tx[t].todo}
    BY <1>1 DEF LocalHeld, RemoteMayHold, RemoteHeld
  <1> HIDE DEF mine
  <1>4. /\ x \in TxState /\ x.pc = "lock_remote" /\ x.current = tx[t].current
        /\ x.i = tx[t].i /\ x.todo = tx[t].todo \ mine /\ x.ok = FALSE
        /\ x.rwset = tx[t].rwset /\ x.rset = tx[t].rset
    BY <1>1 DEF TxState
  <1>5. /\ y \in TxState /\ y.pc = "lock_remote" /\ y.current = tx[t].current
        /\ y.i = tx[t].i /\ y.todo = tx[t].todo \ {i} /\ y.ok = tx[t].ok
        /\ y.rwset = tx[t].rwset /\ y.rset = tx[t].rset
    BY <1>1 DEF TxState
  <1>6. i \in mine BY DEF mine
  <1> HIDE DEF x, y
  <1>7. ASSUME NEW z \in {x, y}, Become(t, z)
        PROVE  /\ HoldStep(t, z) /\ z # tx[t] /\ LocalHeld(t)' = {}
               /\ RemoteMayHold(t)' = RemoteWrites(t)
               /\ RemoteHeld(t)' = {j \in RemoteWrites(t) : z.ok /\ j \notin z.todo}
    <2>1. HoldStep(t, z) /\ z # tx[t]
      BY <1>1, <1>4, <1>5, <1>6, <1>7
         DEF HoldStep, Control, RpcPhase, Idle, ExecPhase, RoPhase
    <2>2. tx'[t] = z /\ RemoteWrites(t)' = RemoteWrites(t)
      BY <2>1, HoldStepControl
    <2> QED BY <1>4, <1>5, <1>7, <2>1, <2>2 DEF LocalHeld, RemoteMayHold, RemoteHeld
  <1>8. CASE Become(t, x) /\ UNCHANGED node
    <2>1. RemoteHeld(t)' = {} BY <1>4, <1>7, <1>8
    <2> QED BY <1>1, <1>3, <1>7, <1>8, <2>1, SameHeld, NothingLocked DEF LockInv, TypeOK
  <1>9. ASSUME NEW z \in {x, y}, Become(t, z), node[k].lock = NoTx,
               node' = [node EXCEPT ![k].lock = t]
        PROVE  Preserved(t)
    <2>1. /\ node'[k].lock = t
          /\ \A h \in Key : h # k => node'[h].lock = node[h].lock
      BY <1>2, <1>9, LockValue
    <2>2. RemoteHeld(t)' \subseteq RemoteHeld(t) \cup {i}
      BY <1>3, <1>4, <1>5, <1>7, <1>9
    <2>3. \A j \in RemoteHeld(t) : tx[t].rset[j].key # k /\ tx[t].rset[j].key \in Key
      <3>1. t # NoTx BY ConstantAssumption DEF ConstantAssumption
      <3>2. \A j \in RemoteHeld(t) : node[tx[t].rset[j].key].lock = t
        BY <1>1 DEF Locks
      <3>3. \A j \in RemoteHeld(t) : tx[t].rset[j].key \in Key
        BY <1>1, ItemKeys DEF LockInv, RemoteHeld, RemoteWrites
      <3> QED BY <1>9, <3>1, <3>2, <3>3
    <2>4. z.rwset = tx[t].rwset /\ z.rset = tx[t].rset /\ tx'[t] = z
      BY <1>4, <1>5, <1>7, <1>9, HoldStepControl
    <2>5. \A h \in Key : node'[h].lock = t =>
            \E j \in RemoteMayHold(t)' : tx[t].rset[j].key = h
      BY <1>1, <1>2, <1>3, <1>7, <1>9, <2>1 DEF Locks
    <2>6. \A j \in RemoteHeld(t)' : node'[tx[t].rset[j].key].lock = t
      BY <1>1, <2>1, <2>2, <2>3 DEF Locks
    <2>7. \A h, j \in RemoteHeld(t)' : tx[t].rset[h].key = tx[t].rset[j].key => h = j
      BY <1>1, <2>2, <2>3 DEF Locks
    <2>8. Locks(t)' BY <1>7, <1>9, <2>4, <2>5, <2>6, <2>7 DEF Locks
    <2> HIDE DEF k
    <2> QED BY <1>1, <1>2, <1>7, <1>9, <2>8, LockChange
  <1> QED BY <1>8, <1>9 DEF LockRpcHandler, x, y, mine

\* A store to read_ts that becomes visible disturbs no lock.
LEMMA DrainPreserves ==
  ASSUME LockInv, NEW t \in Tx, Drain(t) PROVE Preserved(t)
  <1> DEFINE x == [tx[t] EXCEPT !.sbuf = {}]
  <1>1. /\ tx[t] \in TxState /\ Control(t) /\ Locks(t) /\ log' = log /\ Become(t, x)
    BY DEF LockInv, TypeOK, Drain
  <1>2. /\ x \in TxState /\ x.pc = tx[t].pc /\ x.prog = tx[t].prog /\ x.ok = tx[t].ok
        /\ SameSets(x, tx[t])
    BY <1>1 DEF TxState, SameSets
  <1> HIDE DEF x
  <1>3. /\ tx' \in [Tx -> TxState] /\ tx'[t] = x
        /\ \A u \in Tx : u # t => tx'[u] = tx[u]
    BY <1>1, <1>2, Becomes DEF LockInv, TypeOK
  <1>4. SameLocks
    <2>1. PICK k \in tx[t].sbuf :
            node' = [node EXCEPT ![k].read_ts = tx[t].timestamp, ![k].read_lock = NoTx]
      BY DEF Drain
    <2>2. tx[t].timestamp \in Nat /\ k \in Key BY <1>1 DEF TxState
    <2>3. node \in [Key -> MemNode] BY DEF LockInv, TypeOK
    <2> QED BY <2>1, <2>2, <2>3 DEF SameLocks, MemNode
  <1>5. LocalWrites(t)' = LocalWrites(t) /\ RemoteWrites(t)' = RemoteWrites(t)
    BY <1>2, <1>3 DEF LocalWrites, RemoteWrites, SameSets
  <1>6. /\ LocalHeld(t)' = LocalHeld(t) /\ RemoteHeld(t)' = RemoteHeld(t)
        /\ RemoteMayHold(t)' = RemoteMayHold(t)
    BY <1>2, <1>3, <1>5 DEF LocalHeld, RemoteHeld, RemoteMayHold, SameSets
  <1>7. Control(t)'
    BY <1>1, <1>2, <1>3, <1>5 DEF Control, SameSets, IsLocal
  <1>8. Locks(t)'
    <2>1. /\ \A i \in LocalHeld(t) : tx[t].rwset[i].key \in Key
          /\ \A i \in RemoteHeld(t) : tx[t].rset[i].key \in Key
      BY ItemKeys DEF LockInv, LocalHeld, LocalWrites, RemoteHeld, RemoteWrites
    <2> QED BY <1>1, <1>2, <1>3, <1>4, <1>6, <2>1 DEF Locks, SameSets, SameLocks
  <1>9. TypeOK' BY <1>1, <1>3, <1>4 DEF LockInv, TypeOK, SameLocks
  <1> QED BY <1>3, <1>4, <1>7, <1>8, <1>9 DEF Preserved, LockStep, SameLocks

\* Every action preserves the invariant.
LEMMA StepPreserves ==
  ASSUME LockInv, NEW t \in Tx, Step(t) \/ Drain(t) PROVE Preserved(t)
  <1>1. CASE Begin(t) BY <1>1, BeginPreserves
  <1>2. CASE Execute(t) BY <1>2, ExecutePreserves
  <1>3. CASE Finish(t)
    BY <1>3, EndPreserves, LockRepliesPreserves, LockAllSetPreserves,
       LockCheckPreserves, CommitTsPreserves, CommitLocalWritePreserves,
       CommitRemotePreserves, CommitRepliesPreserves, ReleaseRepliesPreserves,
       ReleaseAllSetPreserves DEF Finish
  <1>4. CASE Serve(t)
    BY <1>4, LockRpcHandlerPreserves, CommitRpcHandlerPreserves,
       ReleaseRpcHandlerPreserves DEF Serve
  <1>5. CASE GetRo(t) BY <1>5, GetRoPreserves
  <1>6. CASE Drain(t) BY <1>6, DrainPreserves
  <1> QED BY <1>1, <1>2, <1>3, <1>4, <1>5, <1>6 DEF Step

\* A transaction loses and gains no lock by steps of others: locks of u are
\* neither NoTx nor t, so LockStep(t) leaves them alone.
LEMMA OthersUndisturbed ==
  ASSUME LockInv, NEW t \in Tx, Preserved(t), NEW u \in Tx, u # t
  PROVE  Control(u)' /\ Locks(u)'
  <1>1. tx'[u] = tx[u] BY DEF Preserved
  <1>2. Control(u) /\ Locks(u) BY DEF LockInv
  <1>3. /\ LocalHeld(u)' = LocalHeld(u) /\ RemoteHeld(u)' = RemoteHeld(u)
        /\ RemoteMayHold(u)' = RemoteMayHold(u)
        /\ LocalWrites(u)' = LocalWrites(u) /\ RemoteWrites(u)' = RemoteWrites(u)
    BY <1>1 DEF LocalHeld, RemoteHeld, RemoteMayHold, LocalWrites, RemoteWrites
  <1>4. Control(u)' BY <1>1, <1>2, <1>3 DEF Control, IsLocal
  <1>5. \A k \in Key : node'[k].lock = u <=> node[k].lock = u
    <2>1. u # NoTx /\ t # NoTx BY ConstantAssumption DEF ConstantAssumption
    <2> QED BY <2>1 DEF Preserved, LockStep
  <1>6. /\ \A i \in LocalHeld(u) : tx[u].rwset[i].key \in Key
        /\ \A i \in RemoteHeld(u) : tx[u].rset[i].key \in Key
    BY ItemKeys DEF LockInv, LocalHeld, LocalWrites, RemoteHeld, RemoteWrites
  <1>7. Locks(u)' BY <1>1, <1>2, <1>3, <1>5, <1>6 DEF Locks
  <1> QED BY <1>4, <1>7

\* The loaded store, before any transaction, satisfies the invariant.
LEMMA InitLockInv == ASSUME Init PROVE LockInv
  <1>1. TypeOK
    <2>1. node \in [Key -> MemNode] BY DEF Init, MemNode, Val
    <2>2. tx \in [Tx -> TxState]
      <3>1. Idle \in PC /\ [p \in Part |-> 0] \in [Part -> 0..2] /\ Null \in Val
        BY DEF PC, Val
      <3> QED BY <3>1 DEF Init, TxState
    <2>3. log \in [Key -> Seq(Version)]
      <3>1. <<[ver |-> 2, by |-> Loaded]>> \in Seq(Version) BY DEF Version, Val
      <3> QED BY <3>1 DEF Init
    <2> QED BY <2>1, <2>2, <2>3 DEF TypeOK
  <1>2. ASSUME NEW t \in Tx PROVE Control(t) /\ Locks(t)
    <2>1. /\ tx[t].pc = Idle /\ tx[t].rwset = <<>> /\ tx[t].rset = <<>>
          /\ tx[t].todo = {} /\ tx[t].i = 1 /\ tx[t].current = 0
      BY DEF Init
    <2>2. Control(t)
      BY <2>1 DEF Control, Idle, RoPhase, RpcPhase
    <2>3. \A k \in Key : node[k].lock = NoTx BY DEF Init
    <2>4. t # NoTx BY ConstantAssumption DEF ConstantAssumption
    <2>5. LocalHeld(t) = {} /\ RemoteHeld(t) = {} /\ RemoteMayHold(t) = {}
      BY <2>1, FreeHoldsNothing DEF Free
    <2> QED BY <2>2, <2>3, <2>4, <2>5 DEF Locks
  <1> QED BY <1>1, <1>2 DEF LockInv

\* LockInv is inductive.
LEMMA NextLockInv == ASSUME LockInv, [Next]_vars PROVE LockInv'
  <1>1. ASSUME NEW t \in Tx, Step(t) \/ Drain(t) PROVE LockInv'
    <2>1. Preserved(t) BY <1>1, StepPreserves
    <2>2. TypeOK' /\ Control(t)' /\ Locks(t)' BY <2>1 DEF Preserved
    <2>3. \A u \in Tx : Control(u)' /\ Locks(u)'
      BY <2>1, <2>2, OthersUndisturbed
    <2> QED BY <2>2, <2>3 DEF LockInv
  <1>2. CASE UNCHANGED vars
    BY SMTT(30), <1>2 DEF vars, LockInv, TypeOK, Control, Locks, LocalHeld, RemoteHeld,
                RemoteMayHold, LocalWrites, RemoteWrites, IsLocal
  <1> QED BY <1>1, <1>2 DEF Next, Terminated

\* The bookkeeping of end(), the lock, release and commit handlers and the sets
\* is right in every reachable state, for any instance.
THEOREM LockInvariance == Spec => []LockInv
  <1>1. Init => LockInv BY InitLockInv
  <1>2. LockInv /\ [Next]_vars => LockInv' BY NextLockInv
  <1> QED BY <1>1, <1>2, PTL DEF Spec

\* Every reachable state is well typed.
THEOREM TypeCorrect == Spec => []TypeOK
  <1>1. LockInv => TypeOK BY DEF LockInv
  <1> QED BY <1>1, LockInvariance, PTL

\* No lock outlives its use: every early return of LockAllSet and of
\* lock_rpc_handler, and the ABORT path of end(), gives back what was taken.
THEOREM NoLeak == Spec => []NoLockLeak
  <1>1. LockInv => NoLockLeak BY DEF LockInv, NoLockLeak, Locks
  <1> QED BY <1>1, LockInvariance, PTL

\* Installs and unconditional unlocks happen under the transaction's own lock:
\* ReleaseAllSet, CommitLocalWrite and commit_rpc_handler2 never free or install
\* into a record that another transaction has locked.
THEOREM Held == Spec => []LocksHeld
  <1>1. LockInv => LocksHeld BY DEF LockInv, LocksHeld, Locks
  <1> QED BY <1>1, LockInvariance, PTL

\* A lock is freed only by a step of the transaction that holds it.
THEOREM OwnerFrees == Spec => LockFreedByOwner
  <1> DEFINE A == \A k \in Key : \A t \in Tx :
       node[k].lock = t /\ node'[k].lock # t => tx'[t] # tx[t]
  <1>1. ASSUME LockInv, [Next]_vars PROVE [A]_vars
    <2>1. ASSUME NEW u \in Tx, Step(u) \/ Drain(u) PROVE A
      <3>1. Preserved(u) BY <1>1, <2>1, StepPreserves
      <3>2. u # NoTx /\ NoTx \notin Tx BY ConstantAssumption DEF ConstantAssumption
      <3> QED BY <3>1, <3>2 DEF Preserved, LockStep
    <2> QED BY <1>1, <2>1 DEF Next, Terminated, vars
  <1> QED BY <1>1, LockInvariance, PTL DEF Spec, LockFreedByOwner
=============================================================================
