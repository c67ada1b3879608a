------------------------ MODULE DBRad_history_proofs ------------------------
(***************************************************************************)
(* Proofs about the histories of DBRad: timestamps do not shrink, they     *)
(* grow where only the home machine of a record writes it, and the old     *)
(* versions of a record are its history.                                   *)
(*                                                                         *)
(* Three inductive invariants build on LockInv of DBRad_proofs and on each *)
(* other: BooksInv (what a transaction knows about its own reads, writes   *)
(* and timestamp), HistInv (the nodes against the histories) and OrderInv  *)
(* (the versions of a record against each other).  Every action is first   *)
(* turned into its effect, field by field; a step then is an install of    *)
(* one item or changes no version.                                         *)
(***************************************************************************)
EXTENDS DBRad_proofs

\* Some program of t has an operation kd on record k.
Does(t, k, kd) ==
  \E p \in Programs[t] : \E i \in DOMAIN p : p[i].kind = kd /\ p[i].key = k

\* Records that nobody inserts at their own machine (there insert() does not
\* look at the version it replaces), those that nobody else writes either, and
\* those that are loaded and never deleted.
Ordered == {k \in Key : \A t \in Tx : IsLocal(t, k) => ~Does(t, k, "ins")}
Strict  == {k \in Ordered : \A t \in Tx : ~IsLocal(t, k) =>
              ~Does(t, k, "ins") /\ ~Does(t, k, "upd")}
Intact  == {k \in Key \ Absent : \A t \in Tx : ~Does(t, k, "del")}

\* The phases with a commit timestamp.
Stamped == {"commit", "commit_remote", "committed"}

-----------------------------------------------------------------------------
(* First layer: the books of one transaction.                               *)

\* What is left of the program and what is in the sets comes from a program.
Planned(t) ==
  /\ \A i \in DOMAIN tx[t].prog : Does(t, tx[t].prog[i].key, tx[t].prog[i].kind)
  /\ \A i \in DOMAIN tx[t].rwset :
       /\ Does(t, tx[t].rwset[i].key, tx[t].rwset[i].kind)
       /\ tx[t].rwset[i].w <=> tx[t].rwset[i].kind # "get"
  /\ \A i \in DOMAIN tx[t].rset :
       /\ Does(t, tx[t].rset[i].key, tx[t].rset[i].kind)
       /\ tx[t].rset[i].w <=> tx[t].rset[i].kind # "get"
       /\ tx[t].rset[i].kind # "del" /\ tx[t].rset[i].kind # "ro"

\* A read of the newest version that is under way is one of the program.
Fetching(t) == tx[t].pc \in {"val", "chk"} => Head(tx[t].prog).kind \in {"get", "upd"}

\* The timestamp is above what was read, and in the end above all remote versions.
Times(t) ==
  /\ tx[t].pc # Idle => tx[t].timestamp >= 2
  /\ \A i \in DOMAIN tx[t].rwset : tx[t].rwset[i].kind # "ins" =>
       /\ tx[t].timestamp >= tx[t].rwset[i].seq
       /\ tx[t].pc \in Stamped => tx[t].timestamp > tx[t].rwset[i].seq
  /\ tx[t].pc \in Stamped =>
       \A i \in DOMAIN tx[t].rset : tx[t].timestamp >= tx[t].rset[i].seq

\* The item of record k is the one t installs next.
Working(t, k) ==
  \/ /\ tx[t].pc = "commit" /\ tx[t].i \in LocalWrites(t)
     /\ k = tx[t].rwset[tx[t].i].key
  \/ /\ tx[t].pc = "commit_remote"
     /\ \E i \in tx[t].todo : NextAt(t, i) /\ k = tx[t].rset[i].key

\* A machine inside an install has an item it works on.
Staged(t) ==
  \A p \in Part : tx[t].stage[p] # 0 => \E k \in Key : Working(t, k) /\ PartOf[k] = p

\* A transaction that commits has each record once among its writes.
Unique(t) ==
  tx[t].pc \in Stamped =>
    /\ \A i, j \in LocalWrites(t) : tx[t].rwset[i].key = tx[t].rwset[j].key => i = j
    /\ \A i, j \in RemoteWrites(t) : tx[t].rset[i].key = tx[t].rset[j].key => i = j

\* The inductive invariant of the books.
Booked(t) == Planned(t) /\ Fetching(t) /\ Times(t) /\ Staged(t) /\ Unique(t)
BooksInv == LockInv /\ \A t \in Tx : Booked(t)

-----------------------------------------------------------------------------
(* Second layer: nodes and histories.                                       *)

\* The newest published version of k.
TopVer(k) == IF log[k] = <<>> THEN 0 ELSE log[k][Len(log[k])].ver

\* The old versions of k are the versions m, m-1, ... of its history.
Chain(k, m) ==
  \A j \in DOMAIN node[k].old : j <= m /\ node[k].old[j] = log[k][m + 1 - j]

\* Nobody is between value switch and publication: the node shows the newest
\* version.
Settled(k) ==
  /\ node[k].seq = TopVer(k)
  /\ Len(log[k]) > 0 => node[k].value = log[k][Len(log[k])].by
  /\ Len(log[k]) = 0 => node[k].value = Null
  /\ Chain(k, Len(log[k]) - 1)
  /\ \A t \in Tx : Working(t, k) => tx[t].stage[PartOf[k]] # 1

\* t is.
Changing(k, t) ==
  /\ node[k].lock = t /\ Working(t, k) /\ tx[t].stage[PartOf[k]] = 1
  /\ node[k].value \in {Null, t} /\ Chain(k, Len(log[k]))

\* t is about to switch from no value.
Hidden(k, t) ==
  /\ node[k].lock = t /\ Working(t, k) /\ tx[t].stage[PartOf[k]] = 0
  /\ node[k].value = Null /\ Chain(k, Len(log[k]) - 1)

\* seq = 1 tells the first from the others.
NodeInv(k) ==
  /\ node[k].seq # 1 => Settled(k)
  /\ node[k].seq = 1 => \E t \in Tx : Changing(k, t) \/ Hidden(k, t)

\* A version in a history is loaded, a deletion, or carries the timestamp of its
\* transaction, which has published it and has given up the lock or is about to.
Entry(k, e) ==
  /\ e.ver >= 2
  /\ \/ e = [ver |-> 2, by |-> Loaded]
     \/ e.by = Null
     \/ /\ e.by \in Tx /\ tx[e.by].pc \in Stamped /\ e.ver = tx[e.by].timestamp
        /\ node[k].lock = e.by =>
             Working(e.by, k) /\ tx[e.by].stage[PartOf[k]] = 2
LogInv(k) ==
  /\ \A j \in DOMAIN log[k] : Entry(k, log[k][j])
  /\ \A i, j \in DOMAIN log[k] :
       log[k][i].by = log[k][j].by /\ log[k][i].by # Null => i = j

\* The items whose versions have been compared under the lock and not replaced.
LocalFresh(t) ==
  {i \in LocalHeld(t) :
     \/ tx[t].pc = "lock_all"
     \/ tx[t].pc = "lock_chk" /\ i # tx[t].i
     \/ tx[t].pc = "commit" /\ (i = tx[t].i => tx[t].stage[Home[t]] # 2)}
RemoteFresh(t) ==
  {i \in RemoteHeld(t) :
     tx[t].pc = "commit_remote" /\ NextAt(t, i) =>
       tx[t].stage[PartOf[tx[t].rset[i].key]] # 2}

\* They are still the newest ones.
StillNewest(t) ==
  /\ \A i \in LocalFresh(t) : tx[t].rwset[i].seq = TopVer(tx[t].rwset[i].key)
  /\ \A i \in RemoteFresh(t) : tx[t].rset[i].seq = TopVer(tx[t].rset[i].key)

\* The inductive invariant of nodes and histories.
HistInv == /\ BooksInv /\ \A k \in Key : NodeInv(k) /\ LogInv(k)
           /\ \A t \in Tx : StillNewest(t)

-----------------------------------------------------------------------------
(* Third layer: what follows for the versions of a record.                  *)

\* In order; and, where only the home machine writes, strictly.
InOrder(k) == \A i, j \in DOMAIN log[k] : i < j => log[k][i].ver <= log[k][j].ver
Grows(k)   == \A i, j \in DOMAIN log[k] : i < j => log[k][i].ver < log[k][j].ver

\* The node of a record that is never deleted holds the whole history.
Whole(k) ==
  /\ Len(log[k]) > 0 /\ \A j \in DOMAIN log[k] : log[k][j].by # Null
  /\ node[k].seq # 1 => Len(node[k].old) + 1 = Len(log[k])
  /\ node[k].seq = 1 => Len(node[k].old) = Len(log[k]) /\ node[k].value # Null

\* The inductive invariant of the versions.
OrderInv == /\ HistInv
            /\ \A k \in Ordered : InOrder(k)
            /\ \A k \in Strict : Grows(k)
            /\ \A k \in Intact : Whole(k)

-----------------------------------------------------------------------------
(* What each action does to the transaction that takes it, by fields.       *)

\* Nobody else's state changes.
Alone(t) == \A u \in Tx : u # t => tx'[u] = tx[u]

\* The sets, the fields that end() works on, the fields that reads work on.
SameItems(t) == tx'[t].rwset = tx[t].rwset /\ tx'[t].rset = tx[t].rset
SameEnd(t) ==
  /\ tx'[t].timestamp = tx[t].timestamp /\ tx'[t].i = tx[t].i
  /\ tx'[t].todo = tx[t].todo /\ tx'[t].ok = tx[t].ok
  /\ tx'[t].current = tx[t].current /\ tx'[t].stage = tx[t].stage
SameRead(t) ==
  /\ tx'[t].prog = tx[t].prog /\ tx'[t].seq = tx[t].seq /\ tx'[t].val = tx[t].val
  /\ tx'[t].chain = tx[t].chain /\ tx'[t].base = tx[t].base
  /\ tx'[t].snap = tx[t].snap

\* No version of a record changes.
SameVersions ==
  /\ log' = log
  /\ \A k \in Key : /\ node'[k].seq = node[k].seq /\ node'[k].value = node[k].value
                    /\ node'[k].old = node[k].old

\* _begin(): the new timestamp is at least one tick.
Begins(t) ==
  /\ tx[t].pc = Idle /\ tx'[t].pc = "exec" /\ tx'[t].prog \in Programs[t]
  /\ tx'[t].timestamp \in Nat /\ tx'[t].timestamp >= 2
  /\ tx'[t].rwset = <<>> /\ tx'[t].rset = <<>> /\ tx'[t].stage = tx[t].stage
  /\ tx'[t].snap = tx[t].snap /\ tx'[t].todo = tx[t].todo /\ UNCHANGED <<node, log>>
LEMMA BeginEffect ==
  ASSUME LockInv, NEW t \in Tx, Begin(t) PROVE Begins(t)
  <1>1. TypeOK BY DEF LockInv
  <1>2. PICK p \in Programs[t], c \in Clocks :
          Become(t, [tx[t] EXCEPT !.pc = "exec", !.prog = p, !.timestamp = c * Shift,
                                  !.rwset = <<>>, !.rset = <<>>, !.current = 0])
    BY DEF Begin
  <1>3. c * Shift \in Nat /\ c * Shift >= 2
    <2>1. c \in Nat /\ c >= 1 /\ Shift \in Nat /\ Shift >= 2 BY ConstantAssumption
    <2>2. PICK a \in Nat : c = a + 1 BY <2>1
    <2>3. c * Shift = a * Shift + Shift /\ a * Shift \in Nat BY <2>1, <2>2
    <2> QED BY <2>1, <2>3
  <1> DEFINE n == c * Shift
  <1> HIDE DEF n
  <1>4. /\ tx'[t].pc = "exec" /\ tx'[t].prog = p /\ tx'[t].timestamp = n
        /\ tx'[t].rwset = <<>> /\ tx'[t].rset = <<>> /\ tx'[t].stage = tx[t].stage
        /\ tx'[t].snap = tx[t].snap /\ tx'[t].todo = tx[t].todo
    <2>1. Become(t, [tx[t] EXCEPT !.pc = "exec", !.prog = p, !.timestamp = n,
                                  !.rwset = <<>>, !.rset = <<>>, !.current = 0])
      BY <1>2 DEF n
    <2> QED BY <1>1, <2>1 DEF Become, TypeOK, TxState
  <1> QED BY <1>2, <1>3, <1>4 DEF Begin, Begins, n

\* A step of a read under way: the fields of end() and the sets stay.
Reads(t, pc, prog) ==
  /\ SameItems(t) /\ SameEnd(t) /\ SameVersions
  /\ tx'[t].pc = pc /\ tx'[t].prog = prog
\* get(), its first access.
LEMMA ReadSeqEffect ==
  ASSUME LockInv, NEW t \in Tx, ReadSeq(t)
  PROVE  /\ tx[t].pc = "exec" /\ tx[t].prog # <<>> /\ Reads(t, "val", tx[t].prog)
         /\ tx'[t].seq = node[CurKey(t)].seq /\ tx'[t].snap = tx[t].snap
         /\ Head(tx[t].prog).kind \in {"get", "upd"}
  <1>1. tx \in [Tx -> TxState] BY DEF LockInv, TypeOK
  <1> QED BY <1>1 DEF Become, ReadSeq, Reads, SameItems, SameEnd, SameVersions, TxState

\* get(), its second access.
LEMMA ReadValueEffect ==
  ASSUME LockInv, NEW t \in Tx, ReadValue(t)
  PROVE  /\ tx[t].pc = "val" /\ tx'[t].seq = tx[t].seq /\ tx'[t].snap = tx[t].snap
         /\ \/ Reads(t, "chk", tx[t].prog) /\ tx'[t].val = node[CurKey(t)].value
            \/ Reads(t, "exec", Tail(tx[t].prog))
  <1>1. /\ tx \in [Tx -> TxState] /\ tx[t].pc = "val" /\ SameVersions
    BY DEF LockInv, TypeOK, ReadValue, SameVersions
  <1>2. CASE Become(t, [tx[t] EXCEPT !.pc = "chk", !.val = node[CurKey(t)].value])
    BY <1>1, <1>2 DEF Become, Reads, SameItems, SameEnd, TxState
  <1>3. CASE Become(t, [tx[t] EXCEPT !.pc = "exec", !.prog = Tail(@)])
    BY <1>1, <1>3 DEF Become, Reads, SameItems, SameEnd, TxState
  <1> QED BY <1>2, <1>3 DEF ReadValue

\* An item is added to the set of its machine.
Adds(t, it) ==
  /\ tx'[t].pc = "exec" /\ tx'[t].prog = Tail(tx[t].prog) /\ tx'[t].snap = tx[t].snap
  /\ tx'[t].todo = tx[t].todo /\ tx'[t].stage = tx[t].stage
  /\ \/ /\ IsLocal(t, it.key) /\ tx'[t].rwset = Append(tx[t].rwset, it)
        /\ tx'[t].rset = tx[t].rset
        /\ tx'[t].timestamp =
             IF it.kind = "ins" THEN tx[t].timestamp ELSE MAX(it.seq, tx[t].timestamp)
     \/ /\ ~IsLocal(t, it.key) /\ tx'[t].rset = Append(tx[t].rset, it)
        /\ tx'[t].rwset = tx[t].rwset /\ tx'[t].timestamp = tx[t].timestamp
  /\ UNCHANGED <<node, log>>
\* WriteSet::Add and RemoteSet::get_results.
LEMMA AddItemEffect ==
  ASSUME LockInv, NEW t \in Tx, NEW k \in Key, NEW s \in Nat, NEW v \in Val,
         NEW kd \in Kind, Become(t, AddItem(t, k, s, v, kd)), UNCHANGED <<node, log>>
  PROVE  Adds(t, NewItem(k, s, v, kd))
  <1> DEFINE it == NewItem(k, s, v, kd)
  <1>1. tx \in [Tx -> TxState] BY DEF LockInv, TypeOK
  <1>2. it.key = k BY DEF NewItem
  <1> HIDE DEF it
  <1>3. CASE IsLocal(t, k)
    <2>1. Become(t, AddLocal(t, it)) BY <1>3 DEF AddItem, it
    <2>2. tx'[t] = AddLocal(t, it) BY <1>1, <2>1 DEF Become
    <2>3. /\ tx'[t].pc = "exec" /\ tx'[t].prog = Tail(tx[t].prog) /\ tx'[t].snap = tx[t].snap
          /\ tx'[t].todo = tx[t].todo /\ tx'[t].stage = tx[t].stage
          /\ tx'[t].rwset = Append(tx[t].rwset, it) /\ tx'[t].rset = tx[t].rset
          /\ tx'[t].timestamp =
               IF it.kind = "ins" THEN tx[t].timestamp ELSE MAX(it.seq, tx[t].timestamp)
      BY <1>1, <2>2 DEF AddLocal, TxState
    <2> QED BY <1>2, <1>3, <2>3 DEF Adds, it
  <1>4. CASE ~IsLocal(t, k)
    <2>1. Become(t, AddRemote(t, it)) BY <1>4 DEF AddItem, it
    <2>2. tx'[t] = AddRemote(t, it) BY <1>1, <2>1 DEF Become
    <2>3. /\ tx'[t].pc = "exec" /\ tx'[t].prog = Tail(tx[t].prog) /\ tx'[t].snap = tx[t].snap
          /\ tx'[t].todo = tx[t].todo /\ tx'[t].stage = tx[t].stage
          /\ tx'[t].rset = Append(tx[t].rset, it) /\ tx'[t].rwset = tx[t].rwset
          /\ tx'[t].timestamp = tx[t].timestamp
      BY <1>1, <2>2 DEF AddRemote, TxState
    <2> QED BY <1>2, <1>4, <2>3 DEF Adds, it
  <1> QED BY <1>3, <1>4 DEF it

\* get(), its third access: retry or add the item.
LEMMA ReadCheckEffect ==
  ASSUME LockInv, NEW t \in Tx, ReadCheck(t)
  PROVE  /\ tx[t].pc = "chk" /\ tx[t].prog # <<>>
         /\ \/ Reads(t, "exec", tx[t].prog) /\ tx'[t].snap = tx[t].snap
            \/ /\ tx[t].seq # 1 /\ node[CurKey(t)].seq = tx[t].seq /\ tx[t].val # Null
               /\ Adds(t, NewItem(CurKey(t), tx[t].seq, tx[t].val, Head(tx[t].prog).kind))
  <1>1. /\ tx \in [Tx -> TxState] /\ tx[t].pc = "chk" /\ SameVersions
        /\ UNCHANGED <<node, log>>
    BY DEF LockInv, TypeOK, ReadCheck, SameVersions
  <1>2. /\ CurKey(t) \in Key /\ Head(tx[t].prog).kind \in Kind /\ tx[t].prog # <<>>
        /\ tx[t].seq \in Nat /\ tx[t].val \in Val
    BY <1>1, Reading DEF TxState
  <1>3. CASE Become(t, [tx[t] EXCEPT !.pc = "exec"])
    BY <1>1, <1>2, <1>3 DEF Become, Reads, SameItems, SameEnd, TxState
  <1>4. CASE /\ tx[t].seq # 1 /\ node[CurKey(t)].seq = tx[t].seq /\ tx[t].val # Null
             /\ Become(t, AddItem(t, CurKey(t), tx[t].seq, tx[t].val, Head(tx[t].prog).kind))
    BY <1>1, <1>2, <1>4, AddItemEffect
  <1> QED BY <1>3, <1>4 DEF ReadCheck

\* insert() and delete_() add what they find.
LEMMA BlindWriteEffect ==
  ASSUME LockInv, NEW t \in Tx, BlindWrite(t)
  PROVE  /\ tx[t].pc = "exec" /\ tx[t].prog # <<>> /\ Head(tx[t].prog).kind \in {"ins", "del"}
         /\ Head(tx[t].prog).kind = "del" => IsLocal(t, CurKey(t))
         /\ Adds(t, NewItem(CurKey(t), node[CurKey(t)].seq, node[CurKey(t)].value,
                            Head(tx[t].prog).kind))
  <1>1. /\ tx[t].pc = "exec" /\ tx[t].prog # <<>> /\ Head(tx[t].prog).kind \in {"ins", "del"}
        /\ Head(tx[t].prog).kind = "del" => IsLocal(t, CurKey(t))
        /\ Become(t, AddItem(t, CurKey(t), node[CurKey(t)].seq, node[CurKey(t)].value,
                             Head(tx[t].prog).kind))
        /\ UNCHANGED <<node, log>>
    BY DEF BlindWrite
  <1>2. /\ CurKey(t) \in Key /\ Head(tx[t].prog).kind \in Kind
        /\ node[CurKey(t)].seq \in Nat /\ node[CurKey(t)].value \in Val
    BY <1>1, Reading DEF MemNode
  <1> QED BY <1>1, <1>2, AddItemEffect

\* delete_() of a record read before: item j becomes a deletion.
Marks(t, j) ==
  /\ j \in DOMAIN tx[t].rwset /\ tx[t].rwset[j].key = CurKey(t)
  /\ tx'[t].pc = "exec" /\ tx'[t].prog = Tail(tx[t].prog) /\ tx'[t].snap = tx[t].snap
  /\ tx'[t].todo = tx[t].todo /\ tx'[t].stage = tx[t].stage
  /\ tx'[t].timestamp = MAX(tx[t].timestamp, tx[t].rwset[j].seq)
  /\ tx'[t].rset = tx[t].rset /\ DOMAIN tx'[t].rwset = DOMAIN tx[t].rwset
  /\ \A i \in DOMAIN tx[t].rwset : i # j => tx'[t].rwset[i] = tx[t].rwset[i]
  /\ tx'[t].rwset[j].key = CurKey(t) /\ tx'[t].rwset[j].seq = tx[t].rwset[j].seq
  /\ tx'[t].rwset[j].kind = "del" /\ tx'[t].rwset[j].w
  /\ UNCHANGED <<node, log>>
\* delete_() of a record that was read.
LEMMA DeleteItemEffect ==
  ASSUME LockInv, NEW t \in Tx, DeleteItem(t)
  PROVE  /\ tx[t].pc = "exec" /\ tx[t].prog # <<>> /\ Head(tx[t].prog).kind = "del"
         /\ \E j : Marks(t, j)
  <1>1. /\ tx \in [Tx -> TxState] /\ tx[t].pc = "exec" /\ tx[t].prog # <<>>
        /\ Head(tx[t].prog).kind = "del" /\ UNCHANGED <<node, log>>
    BY DEF LockInv, TypeOK, DeleteItem
  <1>2. PICK j \in Items(t, CurKey(t)) :
          Become(t, [tx[t] EXCEPT !.prog = Tail(@),
                      !.rwset[j] = [@ EXCEPT !.kind = "del", !.w = TRUE],
                      !.timestamp = MAX(@, tx[t].rwset[j].seq)])
    BY DEF DeleteItem
  <1>3. j \in DOMAIN tx[t].rwset /\ tx[t].rwset[j].key = CurKey(t) BY DEF Items
  <1>4. tx[t].rwset \in Seq(Item) /\ tx[t].rwset[j] \in Item BY <1>1, <1>3 DEF TxState
  <1> DEFINE it == [tx[t].rwset[j] EXCEPT !.kind = "del", !.w = TRUE]
             q == [tx[t].rwset EXCEPT ![j] = it]
  <1>5. /\ it.key = tx[t].rwset[j].key /\ it.seq = tx[t].rwset[j].seq
        /\ it.kind = "del" /\ it.w
    BY <1>4 DEF Item
  <1>6. Become(t, [tx[t] EXCEPT !.prog = Tail(@), !.rwset = q,
                      !.timestamp = MAX(@, tx[t].rwset[j].seq)])
    BY <1>2
  <1> HIDE DEF it
  <1>7. /\ DOMAIN q = DOMAIN tx[t].rwset /\ q[j] = it
        /\ \A i \in DOMAIN tx[t].rwset : i # j => q[i] = tx[t].rwset[i]
    BY <1>3, <1>4
  <1> HIDE DEF q
  <1>8. /\ tx'[t].pc = "exec" /\ tx'[t].prog = Tail(tx[t].prog) /\ tx'[t].snap = tx[t].snap
        /\ tx'[t].todo = tx[t].todo /\ tx'[t].stage = tx[t].stage
        /\ tx'[t].timestamp = MAX(tx[t].timestamp, tx[t].rwset[j].seq)
        /\ tx'[t].rset = tx[t].rset /\ tx'[t].rwset = q
    BY <1>1, <1>6 DEF Become, TxState
  <1> QED BY <1>1, <1>3, <1>5, <1>7, <1>8 DEF Marks

\* The phases between the first look at seq and the last one.
Begun == {"val", "chk", "ro_val", "ro_chk", "ro_old", "ro_ochk"}

\* A step of get_ro() that does not return.
RoMoves(t) ==
  /\ Reads(t, tx'[t].pc, tx[t].prog) /\ tx'[t].snap = tx[t].snap /\ tx[t].prog # <<>>
  /\ tx'[t].pc \in RoPhase
  /\ \/ /\ tx[t].pc = "exec" /\ Head(tx[t].prog).kind = "ro" /\ tx'[t].pc = "ro_ts"
        /\ tx'[t].base = Len(log[CurKey(t)])
     \/ /\ tx[t].pc \in RoPhase /\ tx'[t].base = tx[t].base
        /\ \/ tx'[t].pc \notin Begun
           \/ /\ tx[t].pc = "ro_get" /\ tx'[t].seq = node[CurKey(t)].seq
              /\ tx'[t].pc = IF RC \/ node[CurKey(t)].seq <= tx[t].timestamp
                             THEN "ro_val" ELSE "ro_old"
           \/ /\ tx[t].pc = "ro_val" /\ tx'[t].pc = "ro_chk" /\ tx'[t].seq = tx[t].seq
              /\ tx'[t].val = node[CurKey(t)].value /\ node[CurKey(t)].value # Null
           \/ /\ tx[t].pc = "ro_old" /\ tx'[t].pc = "ro_ochk" /\ tx'[t].seq = tx[t].seq
              /\ tx'[t].chain = node[CurKey(t)].old

\* A step of get_ro() that returns, and what it may return.
Got(t, v, b) == [key |-> CurKey(t), ver |-> v, by |-> b, base |-> tx[t].base]
RoReturns(t, v, b) ==
  /\ Reads(t, IF Len(tx[t].prog) = 1 THEN "ro_done" ELSE "exec", Tail(tx[t].prog))
  /\ tx[t].pc \in RoPhase /\ tx[t].prog # <<>>
  /\ tx'[t].snap = tx[t].snap \cup {Got(t, v, b)}
RoResult(t, v, b) ==
  \/ tx[t].pc = "ro_val" /\ node[CurKey(t)].value = Null /\ v = 1 /\ b = Null
  \/ /\ tx[t].pc = "ro_chk" /\ tx[t].seq # 1 /\ node[CurKey(t)].seq = tx[t].seq
     /\ v = tx[t].seq /\ b = tx[t].val
  \/ /\ tx[t].pc = "ro_ochk" /\ tx[t].seq # 1 /\ node[CurKey(t)].seq = tx[t].seq
     /\ \/ Visible(t) = {} /\ v = 1 /\ b = Null
        \/ \E j \in Visible(t) : v = tx[t].chain[j].ver /\ b = tx[t].chain[j].by

\* The return of get_ro().
LEMMA RoReturnEffect ==
  ASSUME LockInv, NEW t \in Tx, NEW v, NEW b, RoReturn(t, v, b), tx[t].pc \in RoPhase,
         UNCHANGED <<node, log>>
  PROVE  RoReturns(t, v, b)
  <1>1. tx \in [Tx -> TxState] /\ tx[t].prog # <<>> BY Reading DEF LockInv, TypeOK
  <1> DEFINE r == Got(t, v, b)
             p == IF Len(tx[t].prog) = 1 THEN "ro_done" ELSE "exec"
  <1>2. Become(t, [tx[t] EXCEPT !.pc = p, !.prog = Tail(@), !.snap = @ \cup {r}])
    BY DEF RoReturn, Got
  <1> HIDE DEF r, p
  <1>3. /\ SameItems(t) /\ SameEnd(t) /\ tx'[t].pc = p /\ tx'[t].prog = Tail(tx[t].prog)
        /\ tx'[t].snap = tx[t].snap \cup {r}
    BY <1>1, <1>2 DEF Become, SameItems, SameEnd, TxState
  <1> QED BY <1>1, <1>3 DEF RoReturns, Reads, SameVersions, r, p

\* Everything in get_ro() between two looks at the versions.
LEMMA RoWaitEffect ==
  ASSUME LockInv, NEW t \in Tx,
         \/ RoStart(t) \/ RoReadTs(t) \/ RoLockTs(t) \/ RoSetTs(t) \/ RoReadSeq(t)
         \/ RoTestLock(t) \/ RoWait(t)
  PROVE  RoMoves(t)
  <1>1. tx \in [Tx -> TxState] /\ node \in [Key -> MemNode] BY DEF LockInv, TypeOK
  <1>2. CASE RoStart(t)
    BY <1>1, <1>2 DEF RoStart, AtRo, RoMoves, Become, Reads, SameItems, SameEnd, TxState,
                      SameVersions, RoPhase
  <1>3. CASE RoReadTs(t)
    <2>1. tx[t].prog # <<>> /\ tx[t].pc \in RoPhase BY <1>3, Reading DEF RoReadTs, AtRo, RoPhase
    <2> QED BY <1>1, <1>3, <2>1 DEF RoReadTs, AtRo, RoMoves, Become, Reads, SameItems,
                      SameEnd, TxState, SameVersions, RoPhase, Begun
  <1>4. CASE RoLockTs(t)
    <2>1. /\ tx[t].prog # <<>> /\ tx[t].pc \in RoPhase /\ CurKey(t) \in Key
      BY <1>4, Reading DEF RoLockTs, AtRo, RoPhase
    <2>2. SameVersions BY <1>1, <1>4, <2>1 DEF RoLockTs, SameVersions, MemNode
    <2> QED BY <1>1, <1>4, <2>1, <2>2 DEF RoLockTs, AtRo, RoMoves, Become, Reads, SameItems,
                      SameEnd, TxState, RoPhase, Begun
  <1>5. CASE RoSetTs(t)
    <2>1. tx[t].prog # <<>> /\ tx[t].pc \in RoPhase BY <1>5, Reading DEF RoSetTs, AtRo, RoPhase
    <2> QED BY <1>1, <1>5, <2>1 DEF RoSetTs, AtRo, RoMoves, Become, Reads, SameItems,
                      SameEnd, TxState, SameVersions, RoPhase, Begun
  <1>6. CASE RoReadSeq(t)
    <2>1. tx[t].prog # <<>> /\ tx[t].pc \in RoPhase BY <1>6, Reading DEF RoReadSeq, AtRo, RoPhase
    <2> QED BY <1>1, <1>6, <2>1 DEF RoReadSeq, AtRo, RoMoves, Become, Reads, SameItems,
                      SameEnd, TxState, SameVersions, RoPhase, Begun
  <1>7. CASE RoTestLock(t)
    <2>1. tx[t].prog # <<>> /\ tx[t].pc \in RoPhase
      BY <1>7, Reading DEF RoTestLock, AtRo, RoPhase
    <2> QED BY <1>1, <1>7, <2>1 DEF RoTestLock, AtRo, RoMoves, Become, Reads, SameItems,
                      SameEnd, TxState, SameVersions, RoPhase, Begun
  <1>8. CASE RoWait(t)
    <2>1. tx[t].prog # <<>> /\ tx[t].pc \in RoPhase BY <1>8, Reading DEF RoWait, AtRo, RoPhase
    <2> QED BY <1>1, <1>8, <2>1 DEF RoWait, AtRo, RoMoves, Become, Reads, SameItems,
                      SameEnd, TxState, SameVersions, RoPhase, Begun
  <1> QED BY <1>2, <1>3, <1>4, <1>5, <1>6, <1>7, <1>8

\* Every step of get_ro() moves on or returns.
LEMMA GetRoEffect ==
  ASSUME LockInv, NEW t \in Tx, GetRo(t)
  PROVE  RoMoves(t) \/ \E v, b : RoReturns(t, v, b) /\ RoResult(t, v, b)
  <1>1. tx \in [Tx -> TxState] BY DEF LockInv, TypeOK
  <1>2. CASE RoGet(t)
    <2>1. tx[t].prog # <<>> /\ tx[t].pc \in RoPhase BY <1>2, Reading DEF RoGet, AtRo, RoPhase
    <2> QED BY <1>1, <1>2, <2>1 DEF RoGet, AtRo, RoMoves, Become, Reads, SameItems,
                      SameEnd, TxState, SameVersions, RoPhase
  <1>3. CASE RoValue(t)
    <2>1. tx[t].prog # <<>> /\ tx[t].pc \in RoPhase BY <1>3, Reading DEF RoValue, AtRo, RoPhase
    <2>2. CASE node[CurKey(t)].value = Null /\ RoReturn(t, 1, Null)
      BY <1>3, <2>1, <2>2, RoReturnEffect DEF RoValue, AtRo, RoResult
    <2>3. CASE /\ node[CurKey(t)].value # Null
               /\ Become(t, [tx[t] EXCEPT !.pc = "ro_chk", !.val = node[CurKey(t)].value])
      BY <1>1, <1>3, <2>1, <2>3 DEF RoValue, AtRo, RoMoves, Become, Reads, SameItems,
                      SameEnd, TxState, SameVersions, RoPhase
    <2> QED BY <1>3, <2>2, <2>3 DEF RoValue
  <1>4. ASSUME tx[t].pc \in {"ro_chk", "ro_ochk"}, UNCHANGED <<node, log>>,
               Become(t, [tx[t] EXCEPT !.pc = "ro_get"])
        PROVE  RoMoves(t)
    <2>1. tx[t].prog # <<>> /\ tx[t].pc \in RoPhase BY <1>4, Reading DEF RoPhase
    <2> QED BY <1>1, <1>4, <2>1 DEF RoMoves, Become, Reads, SameItems, SameEnd, TxState,
                                    SameVersions, RoPhase, Begun
  <1>5. CASE RoCheck(t)
    <2>1. tx[t].pc = "ro_chk" /\ tx[t].pc \in RoPhase /\ UNCHANGED <<node, log>>
      BY <1>5 DEF RoCheck, AtRo, RoPhase
    <2>2. ASSUME tx[t].seq # 1, node[CurKey(t)].seq = tx[t].seq,
                 RoReturn(t, tx[t].seq, tx[t].val)
          PROVE  \E v, b : RoReturns(t, v, b) /\ RoResult(t, v, b)
      BY <2>1, <2>2, RoReturnEffect DEF RoResult
    <2> QED BY <1>4, <1>5, <2>1, <2>2 DEF RoCheck
  <1>6. CASE RoOld(t)
    <2>1. tx[t].prog # <<>> /\ tx[t].pc \in RoPhase BY <1>6, Reading DEF RoOld, AtRo, RoPhase
    <2> QED BY <1>1, <1>6, <2>1 DEF RoOld, AtRo, RoMoves, Become, Reads, SameItems,
                      SameEnd, TxState, SameVersions, RoPhase
  <1>7. CASE RoOldCheck(t)
    <2>1. tx[t].pc = "ro_ochk" /\ tx[t].pc \in RoPhase /\ UNCHANGED <<node, log>>
      BY <1>7 DEF RoOldCheck, AtRo, RoPhase
    <2>2. ASSUME tx[t].seq # 1, node[CurKey(t)].seq = tx[t].seq, Visible(t) = {},
                 RoReturn(t, 1, Null)
          PROVE  \E v, b : RoReturns(t, v, b) /\ RoResult(t, v, b)
      BY <2>1, <2>2, RoReturnEffect DEF RoResult
    <2>3. ASSUME tx[t].seq # 1, node[CurKey(t)].seq = tx[t].seq, NEW j \in Visible(t),
                 RoReturn(t, tx[t].chain[j].ver, tx[t].chain[j].by)
          PROVE  \E v, b : RoReturns(t, v, b) /\ RoResult(t, v, b)
      BY <2>1, <2>3, RoReturnEffect DEF RoResult
    <2> QED BY <1>4, <1>7, <2>1, <2>2, <2>3 DEF RoOldCheck
  <1> QED BY <1>2, <1>3, <1>5, <1>6, <1>7, RoWaitEffect DEF GetRo

\* A step of end() other than an install: only these fields change.
EndTo(t, pc, current, i, todo, ok, ts) ==
  /\ SameItems(t) /\ SameRead(t) /\ tx'[t].stage = tx[t].stage /\ SameVersions
  /\ tx'[t].pc = pc /\ tx'[t].current = current /\ tx'[t].i = i /\ tx'[t].todo = todo
  /\ tx'[t].ok = ok /\ tx'[t].timestamp = ts

\* A store to a lock changes no version.
LEMMA LockVersions ==
  ASSUME LockInv, NEW k \in Key, NEW v, log' = log, node' = [node EXCEPT ![k].lock = v]
  PROVE  SameVersions
  <1>1. node \in [Key -> MemNode] BY DEF LockInv, TypeOK
  <1> QED BY <1>1 DEF SameVersions, MemNode

\* The steps that change pc and a few fields.
LEMMA EndEffect ==
  ASSUME LockInv, NEW t \in Tx, End(t)
  PROVE  /\ tx[t].pc = "exec"
         /\ EndTo(t, "lock_remote", tx[t].current, tx[t].i, RemoteWrites(t), TRUE,
                  tx[t].timestamp)
  <1>1. tx \in [Tx -> TxState] BY DEF LockInv, TypeOK
  <1> QED BY <1>1 DEF End, Become, EndTo, SameItems, SameRead, SameVersions, TxState
\* goto ABORT.
LEMMA AbortEffect ==
  ASSUME LockInv, NEW t \in Tx, Abort(t), SameVersions
  PROVE  EndTo(t, "release_remote", tx[t].current, tx[t].i, RemoteWrites(t), tx[t].ok,
               tx[t].timestamp)
  <1>1. tx \in [Tx -> TxState] BY DEF LockInv, TypeOK
  <1> QED BY <1>1 DEF Abort, Become, EndTo, SameItems, SameRead, TxState
\* The last lock reply.
LEMMA LockRepliesEffect ==
  ASSUME LockInv, NEW t \in Tx, LockReplies(t)
  PROVE  /\ tx[t].pc = "lock_remote" /\ tx[t].todo = {}
         /\ \/ /\ tx[t].ok
               /\ EndTo(t, "lock_all", tx[t].current, 1, tx[t].todo, tx[t].ok, tx[t].timestamp)
            \/ EndTo(t, "release_remote", tx[t].current, tx[t].i, RemoteWrites(t), tx[t].ok,
                     tx[t].timestamp)
  <1>1. tx \in [Tx -> TxState] /\ SameVersions BY DEF LockInv, TypeOK, LockReplies, SameVersions
  <1>2. CASE tx[t].ok /\ Become(t, [tx[t] EXCEPT !.pc = "lock_all", !.i = 1])
    BY <1>1, <1>2 DEF LockReplies, Become, EndTo, SameItems, SameRead, TxState
  <1>3. CASE Abort(t) BY <1>1, <1>3, AbortEffect DEF LockReplies
  <1> QED BY <1>2, <1>3 DEF LockReplies
\* The write-back request.
LEMMA CommitRemoteEffect ==
  ASSUME LockInv, NEW t \in Tx, CommitRemote(t)
  PROVE  /\ tx[t].pc = "commit" /\ tx[t].i \notin DOMAIN tx[t].rwset
         /\ EndTo(t, "commit_remote", tx[t].current, tx[t].i, RemoteWrites(t), tx[t].ok,
                  tx[t].timestamp)
  <1>1. tx \in [Tx -> TxState] BY DEF LockInv, TypeOK
  <1> QED BY <1>1 DEF CommitRemote, Become, EndTo, SameItems, SameRead, SameVersions, TxState
\* The last write-back reply.
LEMMA CommitRepliesEffect ==
  ASSUME LockInv, NEW t \in Tx, CommitReplies(t)
  PROVE  /\ tx[t].pc = "commit_remote" /\ tx[t].todo = {}
         /\ EndTo(t, "committed", tx[t].current, tx[t].i, tx[t].todo, tx[t].ok,
                  tx[t].timestamp)
  <1>1. tx \in [Tx -> TxState] BY DEF LockInv, TypeOK
  <1> QED BY <1>1 DEF CommitReplies, Become, EndTo, SameItems, SameRead, SameVersions, TxState
\* The last release reply.
LEMMA ReleaseRepliesEffect ==
  ASSUME LockInv, NEW t \in Tx, ReleaseReplies(t)
  PROVE  /\ tx[t].pc = "release_remote"
         /\ EndTo(t, "release_all", tx[t].current, 1, tx[t].todo, tx[t].ok, tx[t].timestamp)
  <1>1. tx \in [Tx -> TxState] BY DEF LockInv, TypeOK
  <1> QED BY <1>1 DEF ReleaseReplies, Become, EndTo, SameItems, SameRead, SameVersions, TxState
\* release_rpc_handler.
LEMMA ReleaseRpcHandlerEffect ==
  ASSUME LockInv, NEW t \in Tx, NEW i \in tx[t].todo, ReleaseRpcHandler(t, i)
  PROVE  /\ tx[t].pc = "release_remote"
         /\ EndTo(t, "release_remote", tx[t].current, tx[t].i, tx[t].todo \ {i}, tx[t].ok,
                  tx[t].timestamp)
  <1>1. tx \in [Tx -> TxState] /\ tx[t].rset[i].key \in Key
    BY NextAtItem DEF LockInv, TypeOK
  <1>2. SameVersions
    <2>1. CASE node' = node BY <2>1 DEF ReleaseRpcHandler, SameVersions
    <2>2. CASE node' = [node EXCEPT ![tx[t].rset[i].key].lock = NoTx]
      BY <1>1, <2>2, LockVersions DEF ReleaseRpcHandler
    <2> QED BY <2>1, <2>2 DEF ReleaseRpcHandler
  <1> QED BY <1>1, <1>2 DEF ReleaseRpcHandler, Become, EndTo, SameItems, SameRead, TxState
\* ReleaseAllSet.
LEMMA ReleaseAllSetEffect ==
  ASSUME LockInv, NEW t \in Tx, ReleaseAllSet(t)
  PROVE  /\ tx[t].pc = "release_all"
         /\ \/ EndTo(t, "aborted", tx[t].current, tx[t].i, tx[t].todo, tx[t].ok, tx[t].timestamp)
            \/ EndTo(t, "release_all", tx[t].current, tx[t].i + 1, tx[t].todo, tx[t].ok,
                     tx[t].timestamp)
  <1>1. tx \in [Tx -> TxState] /\ tx[t].pc = "release_all"
    BY DEF LockInv, TypeOK, ReleaseAllSet
  <1>2. CASE Become(t, [tx[t] EXCEPT !.pc = "aborted"]) /\ UNCHANGED node
    BY <1>1, <1>2 DEF ReleaseAllSet, Become, EndTo, SameItems, SameRead, SameVersions, TxState
  <1>3. ASSUME tx[t].i <= tx[t].current, Become(t, [tx[t] EXCEPT !.i = @ + 1]),
               \/ node' = [node EXCEPT ![tx[t].rwset[tx[t].i].key].lock = NoTx]
               \/ node' = node
        PROVE  EndTo(t, "release_all", tx[t].current, tx[t].i + 1, tx[t].todo, tx[t].ok,
                     tx[t].timestamp)
    <2>1. tx[t].i > 0 /\ tx[t].current <= Len(tx[t].rwset) BY DEF LockInv, Control
    <2>2. tx[t].i \in Nat /\ tx[t].rwset \in Seq(Item) /\ tx[t].current \in Nat
      BY <1>1 DEF TxState
    <2>3. tx[t].i \in DOMAIN tx[t].rwset BY <1>3, <2>1, <2>2
    <2>4. tx[t].rwset[tx[t].i].key \in Key BY <2>3, ItemKeys DEF LockInv
    <2>5. SameVersions BY <1>3, <2>4, LockVersions DEF ReleaseAllSet, SameVersions
    <2> QED BY <1>1, <1>3, <2>5 DEF Become, EndTo, SameItems, SameRead, TxState
  <1> QED BY <1>2, <1>3 DEF ReleaseAllSet

\* What is left of a request when the server of item i gives up.
Rest(t, i) ==
  tx[t].todo \
    {j \in tx[t].todo : PartOf[tx[t].rset[j].key] = PartOf[tx[t].rset[i].key]}

\* The version that was read is still there, under a lock that is free or t's.
Matches(t, it) == node[it.key].seq = it.seq /\ node[it.key].lock \in {NoTx, t}

\* lock_rpc_handler: what is served is compared, or the request has failed.
LEMMA LockRpcHandlerEffect ==
  ASSUME LockInv, NEW t \in Tx, NEW i \in tx[t].todo, LockRpcHandler(t, i)
  PROVE  /\ tx[t].pc = "lock_remote"
         /\ \/ EndTo(t, "lock_remote", tx[t].current, tx[t].i, Rest(t, i), FALSE,
                     tx[t].timestamp)
            \/ /\ Matches(t, tx[t].rset[i])
               /\ EndTo(t, "lock_remote", tx[t].current, tx[t].i, tx[t].todo \ {i}, tx[t].ok,
                        tx[t].timestamp)
  <1>1. /\ tx \in [Tx -> TxState] /\ tx[t].rset[i].key \in Key /\ tx[t].pc = "lock_remote"
        /\ log' = log
    BY NextAtItem DEF LockInv, TypeOK, LockRpcHandler
  <1> DEFINE it == tx[t].rset[i]
             r == Rest(t, i)
             fail == [tx[t] EXCEPT !.todo = r, !.ok = FALSE]
  <1>2. \/ Become(t, fail) /\ UNCHANGED node
        \/ /\ node[it.key].lock = NoTx /\ node' = [node EXCEPT ![it.key].lock = t]
           /\ \/ Become(t, fail)
              \/ node[it.key].seq = it.seq /\ Become(t, [tx[t] EXCEPT !.todo = @ \ {i}])
    BY DEF LockRpcHandler, Rest
  <1>3. SameVersions
    <2>1. CASE node' = node BY <1>1, <2>1 DEF SameVersions
    <2>2. CASE node' = [node EXCEPT ![it.key].lock = t] BY <1>1, <2>2, LockVersions
    <2> QED BY <1>2, <2>1, <2>2
  <1> HIDE DEF r
  <1>4. CASE Become(t, fail)
    <2>1. EndTo(t, "lock_remote", tx[t].current, tx[t].i, r, FALSE, tx[t].timestamp)
      BY <1>1, <1>3, <1>4 DEF Become, EndTo, SameItems, SameRead, TxState
    <2> QED BY <1>1, <2>1 DEF r
  <1>5. CASE /\ node[it.key].lock = NoTx /\ node[it.key].seq = it.seq
             /\ Become(t, [tx[t] EXCEPT !.todo = @ \ {i}])
    <2>1. EndTo(t, "lock_remote", tx[t].current, tx[t].i, tx[t].todo \ {i}, tx[t].ok,
                tx[t].timestamp)
      BY <1>1, <1>3, <1>5 DEF Become, EndTo, SameItems, SameRead, TxState
    <2> QED BY <1>1, <1>5, <2>1 DEF Matches
  <1> QED BY <1>2, <1>4, <1>5

\* LockAllSet.
LEMMA LockAllSetEffect ==
  ASSUME LockInv, NEW t \in Tx, LockAllSet(t)
  PROVE  /\ tx[t].pc = "lock_all" /\ tx[t].i \in DOMAIN tx[t].rwset
         /\ \/ /\ ~tx[t].rwset[tx[t].i].w
               /\ EndTo(t, "lock_all", tx[t].current, tx[t].i + 1, tx[t].todo, tx[t].ok,
                        tx[t].timestamp)
            \/ EndTo(t, "release_remote", tx[t].current, tx[t].i, RemoteWrites(t), tx[t].ok,
                     tx[t].timestamp)
            \/ EndTo(t, "lock_chk", tx[t].i, tx[t].i, tx[t].todo, tx[t].ok, tx[t].timestamp)
  <1>1. /\ tx \in [Tx -> TxState] /\ tx[t].pc = "lock_all" /\ tx[t].i \in DOMAIN tx[t].rwset
        /\ log' = log
    BY DEF LockInv, TypeOK, LockAllSet
  <1> DEFINE it == tx[t].rwset[tx[t].i]
  <1>2. it.key \in Key BY <1>1, ItemKeys DEF LockInv
  <1>3. \/ ~it.w /\ Become(t, [tx[t] EXCEPT !.i = @ + 1]) /\ UNCHANGED node
        \/ Abort(t) /\ UNCHANGED node
        \/ /\ node' = [node EXCEPT ![it.key].lock = t]
           /\ Become(t, [tx[t] EXCEPT !.pc = "lock_chk", !.current = tx[t].i])
    BY DEF LockAllSet
  <1>4. SameVersions
    <2>1. CASE node' = node BY <1>1, <2>1 DEF SameVersions
    <2>2. CASE node' = [node EXCEPT ![it.key].lock = t] BY <1>1, <1>2, <2>2, LockVersions
    <2> QED BY <1>3, <2>1, <2>2
  <1>5. CASE ~it.w /\ Become(t, [tx[t] EXCEPT !.i = @ + 1])
    BY <1>1, <1>4, <1>5 DEF Become, EndTo, SameItems, SameRead, TxState
  <1>6. CASE Abort(t) BY <1>1, <1>4, <1>6, AbortEffect
  <1>7. CASE Become(t, [tx[t] EXCEPT !.pc = "lock_chk", !.current = tx[t].i])
    BY <1>1, <1>4, <1>7 DEF Become, EndTo, SameItems, SameRead, TxState
  <1> QED BY <1>3, <1>5, <1>6, <1>7

\* The comparison under the lock raises the timestamp.
LEMMA LockCheckEffect ==
  ASSUME LockInv, NEW t \in Tx, LockCheck(t)
  PROVE  /\ tx[t].pc = "lock_chk"
         /\ \/ EndTo(t, "release_remote", tx[t].current, tx[t].i, RemoteWrites(t), tx[t].ok,
                     tx[t].timestamp)
            \/ /\ Matches(t, tx[t].rwset[tx[t].i])
               /\ EndTo(t, "lock_all", tx[t].current, tx[t].i + 1, tx[t].todo, tx[t].ok,
                        MAX(node[tx[t].rwset[tx[t].i].key].read_ts, tx[t].timestamp))
         /\ UNCHANGED <<node, log>>
  <1>1. tx \in [Tx -> TxState] /\ tx[t].pc = "lock_chk" /\ UNCHANGED <<node, log>>
    BY DEF LockInv, TypeOK, LockCheck
  <1> DEFINE it == tx[t].rwset[tx[t].i]
             m == MAX(node[it.key].read_ts, tx[t].timestamp)
  <1>2. node[it.key].lock = t
    <2>1. tx[t].current = tx[t].i /\ tx[t].i \in LocalWrites(t)
      BY <1>1 DEF LockInv, Control
    <2>2. tx[t].i \in Nat BY <1>1 DEF TxState
    <2>3. tx[t].i \in LocalHeld(t) BY <1>1, <2>1, <2>2 DEF LocalHeld
    <2> QED BY <2>3 DEF LockInv, Locks
  <1>3. SameVersions BY <1>1 DEF SameVersions
  <1>4. \/ Abort(t)
        \/ /\ node[it.key].seq = it.seq
           /\ Become(t, [tx[t] EXCEPT !.pc = "lock_all", !.i = @ + 1, !.timestamp = m])
    BY DEF LockCheck
  <1>5. CASE Abort(t) BY <1>1, <1>3, <1>5, AbortEffect
  <1>6. CASE /\ node[it.key].seq = it.seq
             /\ Become(t, [tx[t] EXCEPT !.pc = "lock_all", !.i = @ + 1, !.timestamp = m])
    <2> HIDE DEF m
    <2>1. EndTo(t, "lock_all", tx[t].current, tx[t].i + 1, tx[t].todo, tx[t].ok, m)
      BY <1>1, <1>3, <1>6 DEF Become, EndTo, SameItems, SameRead, TxState
    <2> QED BY <1>1, <1>2, <1>6, <2>1 DEF Matches, m
  <1> QED BY <1>4, <1>5, <1>6

\* The commit timestamp is above the one so far and not below a remote version.
LEMMA CommitTsEffect ==
  ASSUME LockInv, NEW t \in Tx, CommitTs(t)
  PROVE  /\ tx[t].pc = "lock_all" /\ tx[t].i \notin DOMAIN tx[t].rwset
         /\ \E m \in Nat :
              /\ m > tx[t].timestamp
              /\ \A j \in DOMAIN tx[t].rset : tx[t].rset[j].seq <= m
              /\ EndTo(t, "commit", tx[t].current, 1, tx[t].todo, tx[t].ok, m)
         /\ UNCHANGED <<node, log>>
  <1>1. /\ tx \in [Tx -> TxState] /\ tx[t].pc = "lock_all" /\ tx[t].i \notin DOMAIN tx[t].rwset
        /\ UNCHANGED <<node, log>>
    BY DEF LockInv, TypeOK, CommitTs
  <1> DEFINE met == {tx[t].timestamp + 1} \cup {tx[t].rset[j].seq : j \in DOMAIN tx[t].rset}
  <1>2. PICK m \in met :
          /\ \A x \in met : x <= m
          /\ Become(t, [tx[t] EXCEPT !.pc = "commit", !.i = 1, !.timestamp = m])
    BY DEF CommitTs
  <1>3. tx[t].timestamp \in Nat /\ \A j \in DOMAIN tx[t].rset : tx[t].rset[j].seq \in Nat
    <2>1. tx[t].timestamp \in Nat /\ tx[t].rset \in Seq(Item) BY <1>1 DEF TxState
    <2>2. \A j \in DOMAIN tx[t].rset : tx[t].rset[j] \in Item BY <2>1
    <2> QED BY <2>1, <2>2 DEF Item
  <1>4. m \in Nat BY <1>3
  <1>5. tx[t].timestamp + 1 <= m /\ \A j \in DOMAIN tx[t].rset : tx[t].rset[j].seq <= m
    BY <1>2
  <1>6. m > tx[t].timestamp BY <1>3, <1>4, <1>5
  <1>7. EndTo(t, "commit", tx[t].current, 1, tx[t].todo, tx[t].ok, m)
    BY <1>1, <1>2 DEF Become, EndTo, SameItems, SameRead, SameVersions, TxState
  <1> QED BY <1>1, <1>4, <1>5, <1>6, <1>7

\* An install changes one node and the progress of t at one machine.
NodeTo(k, lock, seq, value, old) ==
  /\ \A h \in Key : h # k => node'[h] = node[h]
  /\ node'[k].lock = lock /\ node'[k].seq = seq /\ node'[k].value = value
  /\ node'[k].old = old /\ node'[k].read_ts = node[k].read_ts
StageTo(t, i, todo, p, n) ==
  /\ SameItems(t) /\ SameRead(t) /\ Alone(t)
  /\ tx'[t].pc = tx[t].pc /\ tx'[t].timestamp = tx[t].timestamp
  /\ tx'[t].i = i /\ tx'[t].todo = todo /\ tx'[t].stage[p] = n
  /\ \A q \in Part : q # p => tx'[t].stage[q] = tx[t].stage[q]

\* The begin of an install over no value, the value switch, the publication and the end.
Hides(t, it) ==
  /\ tx[t].stage[PartOf[it.key]] = 0
  /\ node[it.key].value = Null /\ node[it.key].seq # 1
  /\ NodeTo(it.key, node[it.key].lock, 1, node[it.key].value, node[it.key].old)
  /\ StageTo(t, tx[t].i, tx[t].todo, PartOf[it.key], 0)
  /\ log' = log
Swaps(t, it, ver) ==
  /\ tx[t].stage[PartOf[it.key]] = 0
  /\ node[it.key].value # Null \/ node[it.key].seq = 1
  /\ NodeTo(it.key, node[it.key].lock, 1, IF it.kind = "del" THEN Null ELSE t,
            IF node[it.key].value = Null THEN <<>>
            ELSE <<[ver |-> ver, by |-> node[it.key].value]>> \o node[it.key].old)
  /\ StageTo(t, tx[t].i, tx[t].todo, PartOf[it.key], 1)
  /\ log' = log
Publishes(t, it) ==
  /\ tx[t].stage[PartOf[it.key]] = 1
  /\ NodeTo(it.key, node[it.key].lock, tx[t].timestamp, node[it.key].value, node[it.key].old)
  /\ StageTo(t, tx[t].i, tx[t].todo, PartOf[it.key], 2)
  /\ \A k \in Key : k # it.key => log'[k] = log[k]
  /\ log'[it.key] =
       Append(log[it.key], [ver |-> tx[t].timestamp, by |-> node[it.key].value])
Unlocks(t, it, i, todo) ==
  /\ tx[t].stage[PartOf[it.key]] = 2
  /\ NodeTo(it.key, NoTx, node[it.key].seq, node[it.key].value, node[it.key].old)
  /\ StageTo(t, i, todo, PartOf[it.key], 0)
  /\ log' = log

\* Progress at one machine.
LEMMA StageUpdate ==
  ASSUME LockInv, NEW t \in Tx, NEW p \in Part, NEW n, NEW i, NEW todo, NEW x,
         x = [tx[t] EXCEPT !.i = i, !.todo = todo],
         Become(t, [x EXCEPT !.stage[p] = n])
  PROVE  StageTo(t, i, todo, p, n)
  <1>1. tx \in [Tx -> TxState] /\ tx[t] \in TxState BY DEF LockInv, TypeOK
  <1>2. tx[t].stage \in [Part -> 0..2] BY <1>1 DEF TxState
  <1>3. /\ x.pc = tx[t].pc /\ x.timestamp = tx[t].timestamp /\ x.i = i /\ x.todo = todo
        /\ x.rwset = tx[t].rwset /\ x.rset = tx[t].rset /\ x.prog = tx[t].prog
        /\ x.seq = tx[t].seq /\ x.val = tx[t].val /\ x.chain = tx[t].chain
        /\ x.base = tx[t].base /\ x.snap = tx[t].snap /\ x.stage = tx[t].stage
        /\ DOMAIN x = DOMAIN tx[t]
    BY <1>1 DEF TxState
  <1> DEFINE g == [x.stage EXCEPT ![p] = n]
             y == [x EXCEPT !.stage = g]
  <1>4. g[p] = n /\ \A q \in Part : q # p => g[q] = tx[t].stage[q] BY <1>2, <1>3
  <1>5. Become(t, y) OBVIOUS
  <1> HIDE DEF g
  <1>6. tx'[t] = y /\ Alone(t) BY <1>1, <1>5 DEF Become, Alone
  <1>7. DOMAIN tx[t] = {"pc", "prog", "timestamp", "rwset", "rset", "current", "i", "todo",
                        "ok", "stage", "seq", "val", "chain", "sbuf", "base", "snap"}
    BY <1>1 DEF TxState
  <1>8. /\ y.pc = x.pc /\ y.timestamp = x.timestamp /\ y.i = x.i /\ y.todo = x.todo
        /\ y.rwset = x.rwset /\ y.rset = x.rset /\ y.prog = x.prog
        /\ y.seq = x.seq /\ y.val = x.val /\ y.chain = x.chain
        /\ y.base = x.base /\ y.snap = x.snap /\ y.stage = g
    BY <1>3, <1>7
  <1> QED BY <1>3, <1>4, <1>6, <1>8 DEF StageTo, SameItems, SameRead

\* The first store of an install.
LEMMA HideEffect ==
  ASSUME LockInv, NEW t \in Tx, NEW it \in Item, Hide(t, it)
  PROVE  Hides(t, it)
  <1> DEFINE k == it.key
  <1>1. k \in Key /\ PartOf[k] \in Part /\ node \in [Key -> MemNode]
    BY ConstantAssumption DEF LockInv, TypeOK, Item
  <1>2. NodeTo(k, node[k].lock, 1, node[k].value, node[k].old)
    BY <1>1 DEF Hide, NodeTo, MemNode
  <1>3. tx[t] \in TxState BY DEF LockInv, TypeOK
  <1>4. tx[t] = [tx[t] EXCEPT !.i = tx[t].i, !.todo = tx[t].todo] BY <1>3 DEF TxState
  <1>5. Become(t, [tx[t] EXCEPT !.stage[PartOf[k]] = 0]) BY HideLocks DEF LockInv
  <1>6. StageTo(t, tx[t].i, tx[t].todo, PartOf[k], 0) BY <1>1, <1>4, <1>5, StageUpdate
  <1> QED BY <1>2, <1>6 DEF Hide, Hides

\* The value switch.
LEMMA SwapEffect ==
  ASSUME LockInv, NEW t \in Tx, NEW it \in Item, NEW ver, Swap(t, it, ver)
  PROVE  Swaps(t, it, ver)
  <1> DEFINE k == it.key
             v == IF it.kind = "del" THEN Null ELSE t
             o == IF node[k].value = Null THEN <<>>
                  ELSE <<[ver |-> ver, by |-> node[k].value]>> \o node[k].old
  <1>1. k \in Key /\ PartOf[k] \in Part /\ node \in [Key -> MemNode]
    BY ConstantAssumption DEF LockInv, TypeOK, Item
  <1>2. node' = [node EXCEPT ![k].seq = 1, ![k].value = v, ![k].old = o]
    BY DEF Swap
  <1> HIDE DEF v, o
  <1>3. NodeTo(k, node[k].lock, 1, v, o) BY <1>1, <1>2 DEF NodeTo, MemNode
  <1>4. tx[t] \in TxState BY DEF LockInv, TypeOK
  <1>5. tx[t] = [tx[t] EXCEPT !.i = tx[t].i, !.todo = tx[t].todo] BY <1>4 DEF TxState
  <1>6. Become(t, [tx[t] EXCEPT !.stage[PartOf[k]] = 1]) BY DEF Swap
  <1>7. StageTo(t, tx[t].i, tx[t].todo, PartOf[k], 1) BY <1>1, <1>5, <1>6, StageUpdate
  <1> QED BY <1>3, <1>7 DEF Swap, Swaps, v, o

\* The store of the commit timestamp.
LEMMA PublishEffect ==
  ASSUME LockInv, NEW t \in Tx, NEW it \in Item, Publish(t, it)
  PROVE  Publishes(t, it)
  <1> DEFINE k == it.key
             e == [ver |-> tx[t].timestamp, by |-> node[k].value]
  <1>1. /\ k \in Key /\ PartOf[k] \in Part /\ node \in [Key -> MemNode]
        /\ log \in [Key -> Seq(Version)] /\ tx[t] \in TxState
    BY ConstantAssumption DEF LockInv, TypeOK, Item
  <1>2. NodeTo(k, node[k].lock, tx[t].timestamp, node[k].value, node[k].old)
    BY <1>1 DEF Publish, NodeTo, MemNode
  <1>3. log' = [log EXCEPT ![k] = Append(@, e)] BY DEF Publish
  <1> HIDE DEF e
  <1>4. log'[k] = Append(log[k], e) /\ \A h \in Key : h # k => log'[h] = log[h]
    BY <1>1, <1>3
  <1>5. tx[t] = [tx[t] EXCEPT !.i = tx[t].i, !.todo = tx[t].todo] BY <1>1 DEF TxState
  <1>6. Become(t, [tx[t] EXCEPT !.stage[PartOf[k]] = 2]) BY DEF Publish
  <1>7. StageTo(t, tx[t].i, tx[t].todo, PartOf[k], 2) BY <1>1, <1>5, <1>6, StageUpdate
  <1> QED BY <1>2, <1>4, <1>7 DEF Publish, Publishes, e

\* The last one.
LEMMA UnlockEffect ==
  ASSUME LockInv, NEW t \in Tx, NEW it \in Item, NEW i, NEW todo, NEW x,
         x = [tx[t] EXCEPT !.i = i, !.todo = todo], Unlock(t, it, x)
  PROVE  Unlocks(t, it, i, todo)
  <1> DEFINE k == it.key
  <1>1. k \in Key /\ PartOf[k] \in Part /\ node \in [Key -> MemNode]
    BY ConstantAssumption DEF LockInv, TypeOK, Item
  <1>2. NodeTo(k, NoTx, node[k].seq, node[k].value, node[k].old)
    BY <1>1 DEF Unlock, NodeTo, MemNode
  <1>3. Become(t, [x EXCEPT !.stage[PartOf[k]] = 0]) BY DEF Unlock
  <1>4. StageTo(t, i, todo, PartOf[k], 0) BY <1>1, <1>3, StageUpdate
  <1> QED BY <1>2, <1>4 DEF Unlock, Unlocks

\* CommitLocalWrite skips an item that is not written, or is at a step of an install.
LEMMA CommitLocalWriteEffect ==
  ASSUME LockInv, NEW t \in Tx, CommitLocalWrite(t)
  PROVE  /\ tx[t].pc = "commit" /\ tx[t].i \in DOMAIN tx[t].rwset
         /\ \E it \in Item :
              /\ it = tx[t].rwset[tx[t].i]
              /\ \/ /\ ~it.w /\ UNCHANGED node
                    /\ EndTo(t, "commit", tx[t].current, tx[t].i + 1, tx[t].todo, tx[t].ok,
                             tx[t].timestamp)
                 \/ /\ it.w /\ tx[t].i \in LocalWrites(t)
                    /\ \/ Hides(t, it) \/ Swaps(t, it, it.seq) \/ Publishes(t, it)
                       \/ Unlocks(t, it, tx[t].i + 1, tx[t].todo)
  <1>1. tx \in [Tx -> TxState] /\ tx[t].pc = "commit" /\ tx[t].i \in DOMAIN tx[t].rwset
    BY DEF LockInv, TypeOK, CommitLocalWrite
  <1>2. tx[t].rwset \in Seq(Item) BY <1>1 DEF TxState
  <1>3. PICK it \in Item : it = tx[t].rwset[tx[t].i] BY <1>1, <1>2
  <1> DEFINE next == [tx[t] EXCEPT !.i = @ + 1]
  <1>4. \/ ~it.w /\ Become(t, next) /\ UNCHANGED <<node, log>>
        \/ /\ it.w
           /\ Hide(t, it) \/ Swap(t, it, it.seq) \/ Publish(t, it) \/ Unlock(t, it, next)
    BY <1>3 DEF CommitLocalWrite
  <1>5. it.w => tx[t].i \in LocalWrites(t) BY <1>1, <1>3 DEF LocalWrites
  <1>6. CASE ~it.w /\ Become(t, next) /\ UNCHANGED <<node, log>>
    <2>1. EndTo(t, "commit", tx[t].current, tx[t].i + 1, tx[t].todo, tx[t].ok,
                tx[t].timestamp)
      BY <1>1, <1>6 DEF Become, EndTo, SameItems, SameRead, SameVersions, TxState
    <2> QED BY <1>1, <1>3, <1>6, <2>1
  <1>7. CASE it.w /\ Unlock(t, it, next)
    <2>1. next = [tx[t] EXCEPT !.i = tx[t].i + 1, !.todo = tx[t].todo] BY <1>1 DEF TxState
    <2>2. Unlocks(t, it, tx[t].i + 1, tx[t].todo) BY <1>7, <2>1, UnlockEffect
    <2> QED BY <1>1, <1>3, <1>5, <1>7, <2>2
  <1> QED BY <1>1, <1>3, <1>4, <1>5, <1>6, <1>7, HideEffect, SwapEffect, PublishEffect

\* commit_rpc_handler2.
LEMMA CommitRpcHandlerEffect ==
  ASSUME LockInv, NEW t \in Tx, NEW i \in tx[t].todo, CommitRpcHandler(t, i)
  PROVE  /\ tx[t].pc = "commit_remote" /\ NextAt(t, i)
         /\ \E it \in Item :
              /\ it = tx[t].rset[i]
              /\ \/ Hides(t, it) \/ Swaps(t, it, node[it.key].seq) \/ Publishes(t, it)
                 \/ Unlocks(t, it, tx[t].i, tx[t].todo \ {i})
  <1>1. tx \in [Tx -> TxState] /\ tx[t].pc = "commit_remote" /\ NextAt(t, i)
    BY DEF LockInv, TypeOK, CommitRpcHandler
  <1>2. PICK it \in Item : it = tx[t].rset[i] BY NextAtItem
  <1> DEFINE next == [tx[t] EXCEPT !.todo = @ \ {i}]
  <1>3. Hide(t, it) \/ Swap(t, it, node[it.key].seq) \/ Publish(t, it) \/ Unlock(t, it, next)
    BY <1>2 DEF CommitRpcHandler
  <1>4. CASE Unlock(t, it, next)
    <2>1. next = [tx[t] EXCEPT !.i = tx[t].i, !.todo = tx[t].todo \ {i}] BY <1>1 DEF TxState
    <2>2. Unlocks(t, it, tx[t].i, tx[t].todo \ {i}) BY <1>4, <2>1, UnlockEffect
    <2> QED BY <1>1, <1>2, <2>2
  <1> QED BY <1>1, <1>2, <1>3, <1>4, HideEffect, SwapEffect, PublishEffect

\* A store to read_ts that becomes visible.
Drains(t) ==
  /\ SameItems(t) /\ SameEnd(t) /\ SameRead(t) /\ tx'[t].pc = tx[t].pc
  /\ SameVersions /\ \A k \in Key : node'[k].lock = node[k].lock
\* So Drain does.
LEMMA DrainEffect ==
  ASSUME LockInv, NEW t \in Tx, Drain(t) PROVE Drains(t)
  <1>1. /\ tx \in [Tx -> TxState] /\ node \in [Key -> MemNode] /\ log' = log
    BY DEF LockInv, TypeOK, Drain
  <1>2. PICK k \in tx[t].sbuf :
          node' = [node EXCEPT ![k].read_ts = tx[t].timestamp, ![k].read_lock = NoTx]
    BY DEF Drain
  <1>3. k \in Key BY <1>1 DEF TxState
  <1>4. /\ SameVersions /\ \A h \in Key : node'[h].lock = node[h].lock
    BY <1>1, <1>2, <1>3 DEF SameVersions, MemNode
  <1>5. SameItems(t) /\ SameEnd(t) /\ SameRead(t) /\ tx'[t].pc = tx[t].pc
    BY <1>1 DEF Drain, Become, SameItems, SameEnd, SameRead, TxState
  <1> QED BY <1>4, <1>5 DEF Drains

-----------------------------------------------------------------------------
(* The books are kept.                                                       *)

\* The types of what the books are about.
LEMMA Fields ==
  ASSUME LockInv, NEW t \in Tx
  PROVE  /\ tx[t] \in TxState /\ tx[t].timestamp \in Nat /\ tx[t].i \in Nat /\ tx[t].seq \in Nat
         /\ tx[t].prog \in Seq(Op) /\ tx[t].rwset \in Seq(Item) /\ tx[t].rset \in Seq(Item)
         /\ tx[t].stage \in [Part -> 0..2] /\ tx[t].chain \in Seq(Version)
         /\ \A i \in DOMAIN tx[t].rwset :
              i \in Nat /\ tx[t].rwset[i].seq \in Nat /\ tx[t].rwset[i].key \in Key
         /\ \A i \in DOMAIN tx[t].rset :
              i \in Nat /\ tx[t].rset[i].seq \in Nat /\ tx[t].rset[i].key \in Key
  <1>1. tx[t] \in TxState BY DEF LockInv, TypeOK
  <1>2. /\ tx[t].timestamp \in Nat /\ tx[t].i \in Nat /\ tx[t].seq \in Nat
        /\ tx[t].prog \in Seq(Op) /\ tx[t].rwset \in Seq(Item) /\ tx[t].rset \in Seq(Item)
        /\ tx[t].stage \in [Part -> 0..2] /\ tx[t].chain \in Seq(Version)
    BY <1>1 DEF TxState
  <1>3. \A i \in DOMAIN tx[t].rwset : i \in Nat /\ tx[t].rwset[i] \in Item BY <1>2
  <1>4. \A i \in DOMAIN tx[t].rset : i \in Nat /\ tx[t].rset[i] \in Item BY <1>2
  <1> QED BY <1>1, <1>2, <1>3, <1>4 DEF Item

\* A program and what is left of it after an operation.
LEMMA TailDoes ==
  ASSUME NEW t \in Tx, NEW q \in Seq(Op), q # <<>>,
         \A i \in DOMAIN q : Does(t, q[i].key, q[i].kind)
  PROVE  /\ \A i \in DOMAIN Tail(q) : Does(t, Tail(q)[i].key, Tail(q)[i].kind)
         /\ Does(t, Head(q).key, Head(q).kind)
  <1>1. \A i \in DOMAIN Tail(q) : i + 1 \in DOMAIN q /\ Tail(q)[i] = q[i + 1] OBVIOUS
  <1>2. 1 \in DOMAIN q /\ Head(q) = q[1] OBVIOUS
  <1> QED BY <1>1, <1>2

\* Outside of commit nothing is installed.
LEMMA IdleStages ==
  ASSUME BooksInv, NEW t \in Tx, \A k \in Key : ~Working(t, k)
  PROVE  \A p \in Part : tx[t].stage[p] = 0
  BY DEF BooksInv, Booked, Staged
\* Nobody works on a record outside of commit.
LEMMA NotWorking ==
  ASSUME NEW t \in Tx, tx[t].pc \notin {"commit", "commit_remote"}
  PROVE  \A k \in Key : ~Working(t, k)
  BY DEF Working

\* Steps that leave the sets alone.
LEMMA SameBooks ==
  ASSUME BooksInv, NEW t \in Tx, SameItems(t),
         tx'[t].prog = tx[t].prog \/ (tx[t].prog # <<>> /\ tx'[t].prog = Tail(tx[t].prog))
  PROVE  /\ Planned(t)' /\ LocalWrites(t)' = LocalWrites(t) /\ RemoteWrites(t)' = RemoteWrites(t)
  <1>1. Planned(t) /\ tx[t].prog \in Seq(Op) BY Fields DEF BooksInv, Booked
  <1>2. \A i \in DOMAIN tx'[t].prog : Does(t, tx'[t].prog[i].key, tx'[t].prog[i].kind)
    BY <1>1, TailDoes DEF Planned
  <1>3. tx'[t].rwset = tx[t].rwset /\ tx'[t].rset = tx[t].rset BY DEF SameItems
  <1> QED BY <1>1, <1>2, <1>3 DEF Planned, LocalWrites, RemoteWrites, Does

\* The books of a transaction that begins.
LEMMA BeginBooked ==
  ASSUME BooksInv, NEW t \in Tx, Begins(t) PROVE Booked(t)'
  <1>1. /\ tx[t].pc = Idle /\ tx'[t].pc = "exec" /\ tx'[t].prog \in Programs[t]
        /\ tx'[t].timestamp >= 2 /\ tx'[t].rwset = <<>> /\ tx'[t].rset = <<>>
        /\ tx'[t].stage = tx[t].stage
    BY DEF Begins
  <1>2. \A p \in Part : tx[t].stage[p] = 0 BY <1>1, NotWorking, IdleStages DEF Idle
  <1>3. Planned(t)' BY <1>1 DEF Planned, Does
  <1> QED BY <1>1, <1>2, <1>3 DEF Booked, Fetching, Times, Staged, Unique, Stamped

\* Reads add nothing.
LEMMA ReadBooked ==
  ASSUME BooksInv, NEW t \in Tx, NEW pc, NEW prog, Reads(t, pc, prog),
         prog = tx[t].prog \/ (tx[t].prog # <<>> /\ prog = Tail(tx[t].prog)),
         tx[t].pc \in ExecPhase \cup RoPhase, pc \notin Stamped,
         pc \in {"val", "chk"} => Head(prog).kind \in {"get", "upd"}
  PROVE  Booked(t)'
  <1>1. /\ SameItems(t) /\ SameEnd(t) /\ tx'[t].pc = pc /\ tx'[t].prog = prog BY DEF Reads
  <1>2. Planned(t)' BY <1>1, SameBooks
  <1>3. \A p \in Part : tx[t].stage[p] = 0
    BY NotWorking, IdleStages DEF ExecPhase, RoPhase
  <1>4. Times(t) /\ tx[t].pc # Idle BY DEF BooksInv, Booked, ExecPhase, RoPhase, Idle
  <1>5. Times(t)' BY <1>1, <1>4 DEF Times, SameItems, SameEnd
  <1> QED BY <1>1, <1>2, <1>3, <1>5 DEF Booked, Fetching, Staged, Unique, SameEnd

\* A new item comes from the program.
LEMMA AddBooked ==
  ASSUME BooksInv, NEW t \in Tx, NEW it \in Item, Adds(t, it),
         tx[t].prog # <<>>, tx[t].pc \in ExecPhase,
         it.key = CurKey(t), it.kind = Head(tx[t].prog).kind, it.w <=> it.kind # "get",
         it.kind = "del" => IsLocal(t, it.key), it.kind # "ro"
  PROVE  Booked(t)'
  <1>1. /\ tx'[t].pc = "exec" /\ tx'[t].prog = Tail(tx[t].prog) /\ tx'[t].stage = tx[t].stage
    BY DEF Adds
  <1>2. LockInv /\ Planned(t) /\ Times(t) BY DEF BooksInv, Booked
  <1>3. \A p \in Part : tx[t].stage[p] = 0
    BY NotWorking, IdleStages DEF ExecPhase, RoPhase
  <1>4. /\ tx[t].prog \in Seq(Op) /\ tx[t].rwset \in Seq(Item) /\ tx[t].rset \in Seq(Item)
        /\ tx[t].timestamp \in Nat /\ it.seq \in Nat
        /\ \A i \in DOMAIN tx[t].rwset : tx[t].rwset[i].seq \in Nat
    BY <1>2, Fields DEF Item
  <1>5. /\ \A i \in DOMAIN Tail(tx[t].prog) : Does(t, Tail(tx[t].prog)[i].key, Tail(tx[t].prog)[i].kind)
        /\ Does(t, it.key, it.kind)
    BY <1>2, <1>4, TailDoes DEF Planned, CurKey
  <1>6. CASE IsLocal(t, it.key)
    <2>1. /\ tx'[t].rwset = Append(tx[t].rwset, it) /\ tx'[t].rset = tx[t].rset
          /\ tx'[t].timestamp =
               IF it.kind = "ins" THEN tx[t].timestamp ELSE MAX(it.seq, tx[t].timestamp)
      BY <1>6 DEF Adds
    <2>2. \A i \in DOMAIN tx'[t].rwset :
            \/ tx'[t].rwset[i] = it
            \/ i \in DOMAIN tx[t].rwset /\ tx'[t].rwset[i] = tx[t].rwset[i]
      BY <1>4, <2>1, AppendItems
    <2>3. Planned(t)' BY <1>1, <1>2, <1>5, <2>1, <2>2 DEF Planned, Does
    <2>4. /\ tx'[t].timestamp >= tx[t].timestamp /\ tx'[t].timestamp \in Nat
          /\ it.kind # "ins" => tx'[t].timestamp >= it.seq
      BY <1>4, <2>1 DEF MAX
    <2>5. tx'[t].timestamp >= 2 BY <1>2, <1>4, <2>4 DEF Times, ExecPhase, Idle
    <2>6. ASSUME NEW i \in DOMAIN tx'[t].rwset, tx'[t].rwset[i].kind # "ins"
          PROVE  tx'[t].timestamp >= tx'[t].rwset[i].seq
      <3>1. CASE tx'[t].rwset[i] = it BY <2>4, <2>6, <3>1
      <3>2. CASE i \in DOMAIN tx[t].rwset /\ tx'[t].rwset[i] = tx[t].rwset[i]
        <4>1. tx[t].timestamp >= tx[t].rwset[i].seq BY <1>2, <2>6, <3>2 DEF Times
        <4>2. tx[t].rwset[i].seq \in Nat BY <1>4, <3>2
        <4> QED BY <1>4, <2>4, <3>2, <4>1, <4>2
      <3> QED BY <2>2, <3>1, <3>2
    <2> QED BY <1>1, <1>3, <2>3, <2>5, <2>6 DEF Booked, Fetching, Times, Staged, Unique, Stamped
  <1>7. CASE ~IsLocal(t, it.key)
    <2>1. /\ tx'[t].rset = Append(tx[t].rset, it) /\ tx'[t].rwset = tx[t].rwset
          /\ tx'[t].timestamp = tx[t].timestamp
      BY <1>7 DEF Adds
    <2>2. \A i \in DOMAIN tx'[t].rset :
            \/ tx'[t].rset[i] = it
            \/ i \in DOMAIN tx[t].rset /\ tx'[t].rset[i] = tx[t].rset[i]
      BY <1>4, <2>1, AppendItems
    <2>3. Planned(t)'
      <3>1. \A i \in DOMAIN tx'[t].prog : Does(t, tx'[t].prog[i].key, tx'[t].prog[i].kind)
        BY <1>1, <1>5
      <3>2. \A i \in DOMAIN tx'[t].rwset :
              /\ Does(t, tx'[t].rwset[i].key, tx'[t].rwset[i].kind)
              /\ tx'[t].rwset[i].w <=> tx'[t].rwset[i].kind # "get"
        BY <1>2, <2>1 DEF Planned
      <3>3. ASSUME NEW i \in DOMAIN tx'[t].rset
            PROVE  /\ Does(t, tx'[t].rset[i].key, tx'[t].rset[i].kind)
                   /\ tx'[t].rset[i].w <=> tx'[t].rset[i].kind # "get"
                   /\ tx'[t].rset[i].kind # "del" /\ tx'[t].rset[i].kind # "ro"
        <4>1. CASE tx'[t].rset[i] = it BY <1>5, <1>7, <4>1
        <4>2. CASE i \in DOMAIN tx[t].rset /\ tx'[t].rset[i] = tx[t].rset[i]
          BY <1>2, <4>2 DEF Planned
        <4> QED BY <2>2, <4>1, <4>2
      <3> QED BY <3>1, <3>2, <3>3 DEF Planned, Does
    <2>4. tx[t].pc # Idle BY DEF ExecPhase, Idle
    <2> QED BY <1>1, <1>2, <1>3, <2>1, <2>3, <2>4 DEF Booked, Fetching, Times, Staged, Unique, Stamped
  <1> QED BY <1>6, <1>7

\* A read item that becomes a deletion.
LEMMA MarkBooked ==
  ASSUME BooksInv, NEW t \in Tx, NEW j, Marks(t, j), tx[t].pc = "exec",
         tx[t].prog # <<>>, Head(tx[t].prog).kind = "del"
  PROVE  Booked(t)'
  <1>1. LockInv /\ Planned(t) /\ Times(t) BY DEF BooksInv, Booked
  <1>2. /\ tx[t].prog \in Seq(Op) /\ tx[t].timestamp \in Nat /\ tx[t].rwset[j].seq \in Nat
        /\ \A i \in DOMAIN tx[t].rwset : tx[t].rwset[i].seq \in Nat
    BY <1>1, Fields DEF Marks
  <1>3. \A p \in Part : tx[t].stage[p] = 0 BY NotWorking, IdleStages
  <1>4. /\ \A i \in DOMAIN Tail(tx[t].prog) : Does(t, Tail(tx[t].prog)[i].key, Tail(tx[t].prog)[i].kind)
        /\ Does(t, CurKey(t), "del")
    BY <1>1, <1>2, TailDoes DEF Planned, CurKey
  <1>5. Planned(t)' BY <1>1, <1>4 DEF Planned, Marks, Does
  <1>6. /\ tx'[t].timestamp >= tx[t].timestamp /\ tx'[t].timestamp \in Nat
        /\ tx'[t].timestamp >= tx[t].rwset[j].seq /\ tx[t].timestamp >= 2
    BY <1>1, <1>2 DEF Marks, MAX, Times, Idle
  <1>7. ASSUME NEW i \in DOMAIN tx'[t].rwset, tx'[t].rwset[i].kind # "ins"
        PROVE  tx'[t].timestamp >= tx'[t].rwset[i].seq
    <2>1. CASE i = j BY <1>6, <2>1 DEF Marks
    <2>2. CASE i # j
      <3>1. i \in DOMAIN tx[t].rwset /\ tx'[t].rwset[i] = tx[t].rwset[i] BY <2>2 DEF Marks
      <3>2. tx[t].timestamp >= tx[t].rwset[i].seq BY <1>1, <1>7, <3>1 DEF Times
      <3> QED BY <1>2, <1>6, <3>1, <3>2
    <2> QED BY <2>1, <2>2
  <1> QED BY <1>2, <1>3, <1>5, <1>6, <1>7 DEF Booked, Fetching, Times, Staged, Unique, Stamped, Marks

\* Steps of end() between the installs, when no timestamp is chosen.
LEMMA EndBooked ==
  ASSUME BooksInv, NEW t \in Tx, NEW pc, NEW current, NEW i, NEW todo, NEW ok,
         NEW ts \in Nat, EndTo(t, pc, current, i, todo, ok, ts), ts >= tx[t].timestamp,
         pc \in Stamped => tx[t].pc \in Stamped /\ ts = tx[t].timestamp,
         pc \notin {"val", "chk"}, tx[t].pc # Idle, \A k \in Key : ~Working(t, k)
  PROVE  Booked(t)'
  <1>1. /\ SameItems(t) /\ SameRead(t) /\ tx'[t].pc = pc /\ tx'[t].timestamp = ts
        /\ tx'[t].stage = tx[t].stage
    BY DEF EndTo
  <1>2. LockInv /\ Times(t) /\ Unique(t) BY DEF BooksInv, Booked
  <1>3. /\ Planned(t)' /\ LocalWrites(t)' = LocalWrites(t) /\ RemoteWrites(t)' = RemoteWrites(t)
    BY <1>1, SameBooks DEF SameRead
  <1>4. \A p \in Part : tx[t].stage[p] = 0 BY IdleStages
  <1>5. /\ tx[t].timestamp \in Nat /\ tx[t].timestamp >= 2 /\ ts >= 2
    BY <1>2, Fields DEF Times
  <1>6. \A h \in DOMAIN tx[t].rwset : tx[t].rwset[h].seq \in Nat BY <1>2, Fields
  <1>7. ASSUME NEW h \in DOMAIN tx[t].rwset, tx[t].rwset[h].kind # "ins"
        PROVE  ts >= tx[t].rwset[h].seq
    <2>1. tx[t].timestamp >= tx[t].rwset[h].seq BY <1>2, <1>7 DEF Times
    <2> QED BY <1>5, <1>6, <2>1
  <1>8. Times(t)' BY <1>1, <1>2, <1>5, <1>7 DEF Times, SameItems
  <1>9. Unique(t)' BY <1>1, <1>2, <1>3 DEF Unique, SameItems
  <1> QED BY <1>1, <1>3, <1>4, <1>8, <1>9 DEF Booked, Fetching, Staged

\* The commit timestamp is above all versions that were read; all writes are locked.
LEMMA CommitTsBooked ==
  ASSUME BooksInv, NEW t \in Tx, CommitTs(t) PROVE Booked(t)'
  <1>1. LockInv /\ Times(t) BY DEF BooksInv, Booked
  <1>2. PICK m \in Nat :
              /\ m > tx[t].timestamp
              /\ \A j \in DOMAIN tx[t].rset : tx[t].rset[j].seq <= m
              /\ EndTo(t, "commit", tx[t].current, 1, tx[t].todo, tx[t].ok, m)
    BY <1>1, CommitTsEffect
  <1>3. /\ SameItems(t) /\ SameRead(t) /\ tx'[t].pc = "commit" /\ tx'[t].timestamp = m
        /\ tx'[t].stage = tx[t].stage /\ tx'[t].i = 1 /\ tx[t].pc = "lock_all"
    BY <1>1, <1>2, CommitTsEffect DEF EndTo
  <1>4. /\ Planned(t)' /\ LocalWrites(t)' = LocalWrites(t) /\ RemoteWrites(t)' = RemoteWrites(t)
    BY <1>3, SameBooks DEF SameRead
  <1>5. \A p \in Part : tx[t].stage[p] = 0 BY <1>3, NotWorking, IdleStages
  <1>6. /\ tx[t].timestamp \in Nat /\ tx[t].timestamp >= 2
        /\ \A h \in DOMAIN tx[t].rwset : tx[t].rwset[h].seq \in Nat /\ h \in Nat
        /\ \A h \in DOMAIN tx[t].rset : tx[t].rset[h].seq \in Nat
    BY <1>1, <1>3, Fields DEF Times, Idle
  <1>7. ASSUME NEW h \in DOMAIN tx[t].rwset, tx[t].rwset[h].kind # "ins"
        PROVE  m > tx[t].rwset[h].seq /\ m >= tx[t].rwset[h].seq
    <2>1. tx[t].timestamp >= tx[t].rwset[h].seq BY <1>1, <1>7 DEF Times
    <2> QED BY <1>2, <1>6, <2>1
  <1>8. \A h \in DOMAIN tx[t].rset : m >= tx[t].rset[h].seq BY <1>2, <1>6
  <1>9. m >= 2 BY <1>2, <1>6
  <1>10. Times(t)' BY <1>3, <1>7, <1>8, <1>9 DEF Times, SameItems
  <1>11. Locks(t)' BY <1>1, CommitTsPreserves DEF Preserved
  <1>12. LocalHeld(t)' = LocalWrites(t)
    <2>1. \A h \in LocalWrites(t) : h \in DOMAIN tx[t].rwset /\ h \in Nat /\ h >= 1
      <3>1. tx[t].rwset \in Seq(Item) BY <1>1, Fields
      <3> QED BY <3>1 DEF LocalWrites
    <2> QED BY <1>3, <1>4, <2>1 DEF LocalHeld
  <1>13. RemoteHeld(t)' = RemoteWrites(t) BY <1>3, <1>4 DEF RemoteHeld
  <1>14. Unique(t)' BY <1>3, <1>4, <1>11, <1>12, <1>13 DEF Unique, Locks, SameItems
  <1> QED BY <1>3, <1>4, <1>5, <1>10, <1>14 DEF Booked, Fetching, Staged

\* A step that installs nothing: t is at no item, versions stay, a commit
\* timestamp stays, no lock is taken after it was chosen, and an item counts as
\* compared only if it did before or has just been compared.
NoInstall(t) ==
  /\ SameVersions /\ tx'[t].stage = tx[t].stage /\ \A k \in Key : ~Working(t, k)
  /\ tx[t].pc \in Stamped =>
       /\ tx'[t].pc \in Stamped /\ tx'[t].timestamp = tx[t].timestamp
       /\ \A k \in Key : node'[k].lock = t => node[k].lock = t
  /\ \A i \in LocalFresh(t)' :
       /\ tx'[t].rwset = tx[t].rwset /\ i \in DOMAIN tx[t].rwset
       /\ i \in LocalFresh(t) \/ Matches(t, tx[t].rwset[i])
  /\ \A i \in RemoteFresh(t)' :
       /\ tx'[t].rset = tx[t].rset /\ i \in DOMAIN tx[t].rset
       /\ i \in RemoteFresh(t) \/ Matches(t, tx[t].rset[i])

\* So for the steps of execution and of snapshot reads.
LEMMA FreeStep ==
  ASSUME NEW t \in Tx, SameVersions, tx'[t].stage = tx[t].stage,
         tx[t].pc \in Free, tx'[t].pc \in Free
  PROVE  NoInstall(t)
  <1>1. tx[t].pc \notin Stamped /\ \A k \in Key : ~Working(t, k)
    BY DEF Free, Stamped, Working, Idle, ExecPhase, RoPhase
  <1>2. LocalFresh(t)' = {} /\ RemoteFresh(t)' = {}
    BY DEF Free, Idle, ExecPhase, RoPhase, LocalFresh, RemoteFresh, LocalHeld, RemoteHeld
  <1> QED BY <1>1, <1>2 DEF NoInstall

\* _begin() installs nothing.
LEMMA BeginKind ==
  ASSUME BooksInv, NEW t \in Tx, Begin(t) PROVE Booked(t)' /\ NoInstall(t)
  <1>1. LockInv /\ Begins(t) BY BeginEffect DEF BooksInv
  <1>2. /\ SameVersions /\ tx'[t].stage = tx[t].stage
        /\ tx[t].pc \in Free /\ tx'[t].pc \in Free
    BY <1>1 DEF Begins, SameVersions, Free, ExecPhase
  <1> QED BY <1>1, <1>2, BeginBooked, FreeStep

\* Nor does a read under way, ...
LEMMA ReadKind ==
  ASSUME BooksInv, NEW t \in Tx, NEW pc, NEW prog, Reads(t, pc, prog),
         prog = tx[t].prog \/ (tx[t].prog # <<>> /\ prog = Tail(tx[t].prog)),
         tx[t].pc \in ExecPhase \cup RoPhase, pc \in ExecPhase \cup RoPhase \cup {"ro_done"},
         pc \in {"val", "chk"} => Head(prog).kind \in {"get", "upd"}
  PROVE  Booked(t)' /\ NoInstall(t)
  <1>1. pc \notin Stamped BY DEF Stamped, ExecPhase, RoPhase
  <1>2. /\ SameVersions /\ tx'[t].stage = tx[t].stage
        /\ tx[t].pc \in Free /\ tx'[t].pc \in Free
    BY DEF Reads, SameEnd, Free
  <1> QED BY <1>1, <1>2, ReadBooked, FreeStep

\* ... an item that is added, ...
LEMMA AddKind ==
  ASSUME BooksInv, NEW t \in Tx, NEW s \in Nat, NEW v \in Val,
         Adds(t, NewItem(CurKey(t), s, v, Head(tx[t].prog).kind)),
         tx[t].prog # <<>>, tx[t].pc \in ExecPhase,
         Head(tx[t].prog).kind = "del" => IsLocal(t, CurKey(t)),
         Head(tx[t].prog).kind # "ro"
  PROVE  Booked(t)' /\ NoInstall(t)
  <1> DEFINE it == NewItem(CurKey(t), s, v, Head(tx[t].prog).kind)
  <1>1. CurKey(t) \in Key /\ Head(tx[t].prog).kind \in Kind BY Reading DEF BooksInv
  <1>2. /\ it \in Item /\ it.key = CurKey(t) /\ it.kind = Head(tx[t].prog).kind
        /\ it.w <=> it.kind # "get"
    BY <1>1 DEF NewItem, Item
  <1> HIDE DEF it
  <1>3. Adds(t, it) BY DEF it
  <1>4. /\ SameVersions /\ tx'[t].stage = tx[t].stage
        /\ tx[t].pc \in Free /\ tx'[t].pc \in Free
    BY <1>3 DEF Adds, SameVersions, Free, ExecPhase
  <1> QED BY <1>2, <1>3, <1>4, AddBooked, FreeStep

\* ... or any step of the execution.
LEMMA ExecuteKind ==
  ASSUME BooksInv, NEW t \in Tx, Execute(t) PROVE Booked(t)' /\ NoInstall(t)
  <1>1. LockInv BY DEF BooksInv, Booked
  <1>2. CASE ReadSeq(t) BY <1>1, <1>2, ReadSeqEffect, ReadKind DEF ExecPhase
  <1>3. CASE ReadValue(t)
    <2>1. tx[t].pc = "val" BY <1>1, <1>3, ReadValueEffect
    <2>2. /\ tx[t].prog # <<>> /\ Head(tx[t].prog).kind \in {"get", "upd"}
      BY <1>1, <2>1, Reading DEF BooksInv, Booked, Fetching
    <2> QED BY <1>1, <1>3, <2>1, <2>2, ReadValueEffect, ReadKind DEF ExecPhase
  <1>4. CASE ReadCheck(t)
    <2>1. tx[t].pc = "chk" /\ tx[t].prog # <<>> BY <1>1, <1>4, ReadCheckEffect
    <2>2. CASE Reads(t, "exec", tx[t].prog) BY <2>1, <2>2, ReadKind DEF ExecPhase
    <2>3. CASE Adds(t, NewItem(CurKey(t), tx[t].seq, tx[t].val, Head(tx[t].prog).kind))
      <3>1. tx[t].seq \in Nat /\ tx[t].val \in Val BY <1>1 DEF LockInv, TypeOK, TxState
      <3>2. Head(tx[t].prog).kind \notin {"del", "ro"} BY <2>1 DEF BooksInv, Booked, Fetching
      <3> QED BY <2>1, <2>3, <3>1, <3>2, AddKind DEF ExecPhase
    <2> QED BY <1>1, <1>4, <2>2, <2>3, ReadCheckEffect
  <1>5. CASE BlindWrite(t)
    <2>1. /\ tx[t].pc = "exec" /\ tx[t].prog # <<>>
          /\ Head(tx[t].prog).kind = "del" => IsLocal(t, CurKey(t))
          /\ Head(tx[t].prog).kind # "ro"
          /\ Adds(t, NewItem(CurKey(t), node[CurKey(t)].seq, node[CurKey(t)].value,
                            Head(tx[t].prog).kind))
      BY <1>1, <1>5, BlindWriteEffect
    <2>2. node[CurKey(t)].seq \in Nat /\ node[CurKey(t)].value \in Val
      BY <1>1, <2>1, Reading DEF MemNode
    <2> QED BY <2>1, <2>2, AddKind DEF ExecPhase
  <1>6. CASE DeleteItem(t)
    <2>1. tx[t].pc = "exec" /\ tx[t].prog # <<>> /\ Head(tx[t].prog).kind = "del"
      BY <1>1, <1>6, DeleteItemEffect
    <2>2. PICK j : Marks(t, j) BY <1>1, <1>6, DeleteItemEffect
    <2>3. /\ SameVersions /\ tx'[t].stage = tx[t].stage
          /\ tx[t].pc \in Free /\ tx'[t].pc \in Free
      BY <2>1, <2>2 DEF Marks, SameVersions, Free, ExecPhase
    <2> QED BY <2>1, <2>2, <2>3, MarkBooked, FreeStep
  <1> QED BY <1>2, <1>3, <1>4, <1>5, <1>6 DEF Execute

\* Nor does get_ro().
LEMMA GetRoKind ==
  ASSUME BooksInv, NEW t \in Tx, GetRo(t) PROVE Booked(t)' /\ NoInstall(t)
  <1>1. LockInv BY DEF BooksInv, Booked
  <1>2. CASE RoMoves(t)
    <2>1. /\ Reads(t, tx'[t].pc, tx[t].prog) /\ tx'[t].pc \in RoPhase
          /\ tx[t].pc \in ExecPhase \cup RoPhase
      BY <1>2 DEF RoMoves, ExecPhase
    <2>2. tx'[t].pc \notin {"val", "chk"} BY <2>1 DEF RoPhase
    <2> QED BY <2>1, <2>2, ReadKind
  <1>3. ASSUME NEW v, NEW b, RoReturns(t, v, b) PROVE Booked(t)' /\ NoInstall(t)
    <2> DEFINE pc == IF Len(tx[t].prog) = 1 THEN "ro_done" ELSE "exec"
    <2>1. Reads(t, pc, Tail(tx[t].prog)) /\ tx[t].pc \in RoPhase /\ tx[t].prog # <<>>
      BY <1>3 DEF RoReturns
    <2>2. pc \in {"exec", "ro_done"} /\ pc \in ExecPhase \cup RoPhase \cup {"ro_done"}
      BY DEF ExecPhase
    <2> HIDE DEF pc
    <2> QED BY <2>1, <2>2, ReadKind
  <1> QED BY <1>1, <1>2, <1>3, GetRoEffect

\* The steps of end() between the installs: first the ones that lock.
LEMMA LockRpcHandlerKind ==
  ASSUME BooksInv, NEW t \in Tx, NEW i \in tx[t].todo, LockRpcHandler(t, i)
  PROVE  Booked(t)' /\ NoInstall(t)
  <1>1. LockInv /\ tx[t].timestamp \in Nat BY Fields DEF BooksInv
  <1>2. tx[t].pc = "lock_remote" /\ i \in DOMAIN tx[t].rset
    BY <1>1, LockRpcHandlerEffect, NextAtItem
  <1>3. \A k \in Key : ~Working(t, k) BY <1>2, NotWorking
  <1>4. ASSUME NEW todo, NEW ok,
               EndTo(t, "lock_remote", tx[t].current, tx[t].i, todo, ok, tx[t].timestamp),
               ~ok \/ (todo = tx[t].todo \ {i} /\ ok = tx[t].ok /\ Matches(t, tx[t].rset[i]))
        PROVE  Booked(t)' /\ NoInstall(t)
    <2>1. Booked(t)' BY <1>1, <1>2, <1>3, <1>4, EndBooked DEF Stamped, Idle
    <2>2. /\ SameItems(t) /\ SameVersions /\ tx'[t].stage = tx[t].stage
          /\ tx'[t].pc = "lock_remote" /\ tx'[t].todo = todo /\ tx'[t].ok = ok
      BY <1>4 DEF EndTo
    <2>3. RemoteWrites(t)' = RemoteWrites(t) BY <2>2 DEF RemoteWrites, SameItems
    <2>4. LocalFresh(t)' = {} BY <2>2 DEF LocalFresh
    <2>5. \A j \in RemoteFresh(t)' : j \in DOMAIN tx[t].rset
      BY <2>3 DEF RemoteFresh, RemoteHeld, RemoteWrites
    <2>6. \A j \in RemoteFresh(t)' : j \in RemoteFresh(t) \/ Matches(t, tx[t].rset[j])
      BY <1>2, <1>4, <2>2, <2>3 DEF RemoteFresh, RemoteHeld
    <2> QED BY <1>2, <1>3, <2>1, <2>2, <2>4, <2>5, <2>6 DEF NoInstall, Stamped, SameItems
  <1> DEFINE r == Rest(t, i)
  <1> HIDE DEF r
  <1>5. \/ EndTo(t, "lock_remote", tx[t].current, tx[t].i, r, FALSE, tx[t].timestamp)
        \/ /\ Matches(t, tx[t].rset[i])
           /\ EndTo(t, "lock_remote", tx[t].current, tx[t].i, tx[t].todo \ {i}, tx[t].ok,
                    tx[t].timestamp)
    BY <1>1, LockRpcHandlerEffect DEF r
  <1> QED BY <1>4, <1>5

\* An abort forgets what was compared.
LEMMA AbortKind ==
  ASSUME BooksInv, NEW t \in Tx, NEW pc, NEW current, NEW i, NEW todo, NEW ok,
         EndTo(t, pc, current, i, todo, ok, tx[t].timestamp),
         tx[t].pc \in LockPhase \cup ReleasePhase, pc \in ReleasePhase \cup {"aborted"}
  PROVE  Booked(t)' /\ NoInstall(t)
  <1>1. LockInv /\ tx[t].timestamp \in Nat BY Fields DEF BooksInv
  <1>2. \A k \in Key : ~Working(t, k) BY NotWorking DEF LockPhase, ReleasePhase
  <1>3. tx[t].pc \notin Stamped /\ tx[t].pc # Idle /\ pc \notin Stamped /\ pc \notin {"val", "chk"}
    BY DEF Stamped, LockPhase, ReleasePhase, Idle
  <1>4. Booked(t)' BY <1>1, <1>2, <1>3, EndBooked
  <1>5. SameVersions /\ tx'[t].stage = tx[t].stage /\ tx'[t].pc = pc BY DEF EndTo
  <1>6. LocalFresh(t)' = {} /\ RemoteFresh(t)' = {}
    BY <1>5 DEF LocalFresh, RemoteFresh, RemoteHeld, ReleasePhase
  <1> QED BY <1>2, <1>3, <1>4, <1>5, <1>6 DEF NoInstall

\* Nor do the steps of end() before the installs: the lock request, ...
LEMMA EndKind ==
  ASSUME BooksInv, NEW t \in Tx, End(t) PROVE Booked(t)' /\ NoInstall(t)
  <1>1. LockInv /\ tx[t].timestamp \in Nat BY Fields DEF BooksInv
  <1> DEFINE todo == RemoteWrites(t)
  <1>2. /\ tx[t].pc = "exec"
        /\ EndTo(t, "lock_remote", tx[t].current, tx[t].i, todo, TRUE, tx[t].timestamp)
    BY <1>1, EndEffect
  <1> HIDE DEF todo
  <1>3. \A k \in Key : ~Working(t, k) BY <1>2, NotWorking
  <1>4. ASSUME NEW ok,
               EndTo(t, "lock_remote", tx[t].current, tx[t].i, todo, ok, tx[t].timestamp)
        PROVE  Booked(t)'
    BY <1>1, <1>2, <1>3, <1>4, EndBooked DEF Stamped, Idle
  <1>7. Booked(t)' BY <1>2, <1>4
  <1>5. /\ SameVersions /\ tx'[t].stage = tx[t].stage /\ tx'[t].pc = "lock_remote"
        /\ tx'[t].todo = todo /\ RemoteWrites(t)' = todo
    BY <1>2 DEF EndTo, SameItems, RemoteWrites, todo
  <1>6. LocalFresh(t)' = {} /\ RemoteFresh(t)' = {}
    BY <1>5 DEF LocalFresh, RemoteFresh, RemoteHeld
  <1> QED BY <1>2, <1>3, <1>5, <1>6, <1>7 DEF NoInstall, Stamped

\* ... its replies, ...
LEMMA LockRepliesKind ==
  ASSUME BooksInv, NEW t \in Tx, LockReplies(t) PROVE Booked(t)' /\ NoInstall(t)
  <1>1. LockInv /\ tx[t].timestamp \in Nat BY Fields DEF BooksInv
  <1>2. tx[t].pc = "lock_remote" /\ tx[t].todo = {} BY <1>1, LockRepliesEffect
  <1>3. CASE /\ tx[t].ok
             /\ EndTo(t, "lock_all", tx[t].current, 1, tx[t].todo, tx[t].ok, tx[t].timestamp)
    <2>1. \A k \in Key : ~Working(t, k) BY <1>2, NotWorking
    <2> PICK n : n = 1 OBVIOUS
    <2>8. EndTo(t, "lock_all", tx[t].current, n, tx[t].todo, tx[t].ok, tx[t].timestamp)
      BY <1>3
    <2>2. Booked(t)' BY <1>1, <1>2, <2>1, <2>8, EndBooked DEF Stamped, Idle
    <2>3. /\ SameVersions /\ tx'[t].stage = tx[t].stage /\ tx'[t].pc = "lock_all"
          /\ tx'[t].current = tx[t].current /\ SameItems(t)
          /\ RemoteWrites(t)' = RemoteWrites(t) /\ LocalWrites(t)' = LocalWrites(t)
      BY <1>3 DEF EndTo, SameItems, RemoteWrites, LocalWrites
    <2>4. tx[t].current = 0 BY <1>1, <1>2 DEF LockInv, Control
    <2>5. \A j \in LocalWrites(t) : ~(j <= 0)
      <3>1. tx[t].rwset \in Seq(Item) BY <1>1, Fields
      <3> QED BY <3>1 DEF LocalWrites
    <2>6. LocalFresh(t)' = {} BY <2>3, <2>4, <2>5 DEF LocalFresh, LocalHeld
    <2>7. \A j \in RemoteFresh(t)' : j \in RemoteFresh(t) /\ j \in DOMAIN tx[t].rset
      BY <1>2, <1>3, <2>3 DEF RemoteFresh, RemoteHeld, RemoteWrites
    <2> QED BY <1>2, <2>1, <2>2, <2>3, <2>6, <2>7 DEF NoInstall, Stamped, SameItems
  <1> DEFINE todo == RemoteWrites(t)
  <1> HIDE DEF todo
  <1>4. CASE EndTo(t, "release_remote", tx[t].current, tx[t].i, todo, tx[t].ok,
                   tx[t].timestamp)
    BY <1>2, <1>4, AbortKind DEF LockPhase, ReleasePhase
  <1> QED BY <1>1, <1>3, <1>4, LockRepliesEffect DEF todo

\* The steps of LockAllSet.
LEMMA LockAllKind ==
  ASSUME BooksInv, NEW t \in Tx, NEW pc, NEW current, NEW i, NEW ts \in Nat,
         EndTo(t, pc, current, i, tx[t].todo, tx[t].ok, ts), ts >= tx[t].timestamp,
         tx[t].pc \in {"lock_all", "lock_chk"}, pc \in {"lock_all", "lock_chk"},
         \A j \in LocalWrites(t) : j <= current /\ (pc = "lock_chk" => j # i) =>
           /\ j <= tx[t].current
           /\ tx[t].pc = "lock_chk" /\ j = tx[t].i => Matches(t, tx[t].rwset[j])
  PROVE  Booked(t)' /\ NoInstall(t)
  <1>1. \A k \in Key : ~Working(t, k) BY NotWorking
  <1>2. Booked(t)' BY <1>1, EndBooked DEF Stamped, Idle
  <1>3. /\ SameVersions /\ tx'[t].stage = tx[t].stage /\ tx'[t].pc = pc /\ tx'[t].i = i
        /\ tx'[t].current = current /\ SameItems(t)
        /\ RemoteWrites(t)' = RemoteWrites(t) /\ LocalWrites(t)' = LocalWrites(t)
    BY DEF EndTo, SameItems, RemoteWrites, LocalWrites
  <1>4. \A j \in RemoteFresh(t)' : j \in RemoteFresh(t) /\ j \in DOMAIN tx[t].rset
    BY <1>3 DEF RemoteFresh, RemoteHeld, RemoteWrites
  <1>5. \A j \in LocalFresh(t)' : j \in LocalWrites(t) /\ j <= current /\ (pc = "lock_chk" => j # i)
    BY <1>3 DEF LocalFresh, LocalHeld
  <1>6. \A j \in LocalFresh(t)' : /\ j \in DOMAIN tx[t].rwset
                                  /\ j \in LocalFresh(t) \/ Matches(t, tx[t].rwset[j])
    BY <1>5 DEF LocalFresh, LocalHeld, LocalWrites
  <1> QED BY <1>1, <1>2, <1>3, <1>4, <1>6 DEF NoInstall, Stamped, SameItems

\* ... LockAllSet, ...
LEMMA LockAllSetKind ==
  ASSUME BooksInv, NEW t \in Tx, LockAllSet(t) PROVE Booked(t)' /\ NoInstall(t)
  <1>1. LockInv /\ tx[t].timestamp \in Nat /\ tx[t].i \in Nat BY Fields DEF BooksInv
  <1>2. tx[t].pc = "lock_all" /\ tx[t].i \in DOMAIN tx[t].rwset BY <1>1, LockAllSetEffect
  <1>3. /\ tx[t].current \in Nat /\ \A j \in LocalWrites(t) : j \in Nat
        /\ \A j \in LocalWrites(t) : j < tx[t].i => j <= tx[t].current
    BY <1>1, <1>2, Fields DEF LockInv, Control, TxState, LocalWrites
  <1> PICK n : n = tx[t].i + 1 OBVIOUS
  <1>7. tx[t].timestamp >= tx[t].timestamp BY <1>1
  <1>4. CASE EndTo(t, "lock_all", tx[t].current, n, tx[t].todo, tx[t].ok, tx[t].timestamp)
    BY <1>1, <1>2, <1>4, <1>7, LockAllKind
  <1>5. CASE EndTo(t, "lock_chk", tx[t].i, tx[t].i, tx[t].todo, tx[t].ok, tx[t].timestamp)
    <2>1. \A j \in LocalWrites(t) : j <= tx[t].i /\ j # tx[t].i => j <= tx[t].current
      BY <1>1, <1>3
    <2> PICK pc : pc = "lock_chk" OBVIOUS
    <2>2. \A j \in LocalWrites(t) : j <= tx[t].i /\ (pc = "lock_chk" => j # tx[t].i) =>
             /\ j <= tx[t].current
             /\ tx[t].pc = "lock_chk" /\ j = tx[t].i => Matches(t, tx[t].rwset[j])
      BY <1>2, <2>1
    <2>3. EndTo(t, pc, tx[t].i, tx[t].i, tx[t].todo, tx[t].ok, tx[t].timestamp) BY <1>5
    <2> QED BY <1>1, <1>2, <1>7, <2>2, <2>3, LockAllKind
  <1> DEFINE todo == RemoteWrites(t)
  <1> HIDE DEF todo
  <1>6. CASE EndTo(t, "release_remote", tx[t].current, tx[t].i, todo, tx[t].ok,
                   tx[t].timestamp)
    BY <1>2, <1>6, AbortKind DEF LockPhase, ReleasePhase
  <1> QED BY <1>1, <1>4, <1>5, <1>6, LockAllSetEffect DEF todo

\* ... its comparison, ...
LEMMA LockCheckKind ==
  ASSUME BooksInv, NEW t \in Tx, LockCheck(t) PROVE Booked(t)' /\ NoInstall(t)
  <1>1. LockInv /\ tx[t].timestamp \in Nat /\ tx[t].i \in Nat BY Fields DEF BooksInv
  <1>2. tx[t].pc = "lock_chk" BY <1>1, LockCheckEffect
  <1>3. tx[t].i \in LocalWrites(t) BY <1>1, <1>2 DEF LockInv, Control
  <1> PICK n : n = tx[t].i + 1 OBVIOUS
  <1> PICK m : m = MAX(node[tx[t].rwset[tx[t].i].key].read_ts, tx[t].timestamp) OBVIOUS
  <1>4. m \in Nat /\ m >= tx[t].timestamp
    <2>1. tx[t].rwset[tx[t].i].key \in Key BY <1>1, <1>3, ItemKeys DEF LockInv, LocalWrites
    <2>2. node[tx[t].rwset[tx[t].i].key].read_ts \in Nat
      BY <1>1, <2>1 DEF LockInv, TypeOK, MemNode
    <2> QED BY <1>1, <2>2 DEF MAX
  <1>5. CASE /\ Matches(t, tx[t].rwset[tx[t].i])
             /\ EndTo(t, "lock_all", tx[t].current, n, tx[t].todo, tx[t].ok, m)
    BY <1>1, <1>2, <1>4, <1>5, LockAllKind
  <1> DEFINE todo == RemoteWrites(t)
  <1> HIDE DEF todo
  <1>6. CASE EndTo(t, "release_remote", tx[t].current, tx[t].i, todo, tx[t].ok,
                   tx[t].timestamp)
    BY <1>2, <1>6, AbortKind DEF LockPhase, ReleasePhase
  <1> QED BY <1>1, <1>5, <1>6, LockCheckEffect DEF todo

\* Then the ones with a commit timestamp.
LEMMA CommitTsKind ==
  ASSUME BooksInv, NEW t \in Tx, CommitTs(t) PROVE Booked(t)' /\ NoInstall(t)
  <1>1. LockInv /\ Booked(t)' BY CommitTsBooked DEF BooksInv
  <1>2. PICK m \in Nat : EndTo(t, "commit", tx[t].current, 1, tx[t].todo, tx[t].ok, m)
    BY <1>1, CommitTsEffect
  <1>3. /\ SameVersions /\ tx'[t].stage = tx[t].stage /\ tx'[t].pc = "commit"
        /\ SameItems(t) /\ tx[t].pc = "lock_all" /\ tx[t].i \notin DOMAIN tx[t].rwset
        /\ RemoteWrites(t)' = RemoteWrites(t) /\ LocalWrites(t)' = LocalWrites(t)
    BY <1>1, <1>2, CommitTsEffect DEF EndTo, SameItems, RemoteWrites, LocalWrites
  <1>4. \A k \in Key : ~Working(t, k) BY <1>3, NotWorking
  <1>5. \A j \in RemoteFresh(t)' : j \in RemoteFresh(t) /\ j \in DOMAIN tx[t].rset
    BY <1>3 DEF RemoteFresh, RemoteHeld, RemoteWrites
  <1>6. \A j \in LocalWrites(t) : j <= tx[t].current /\ j \in DOMAIN tx[t].rwset
    <2>1. /\ tx[t].rwset \in Seq(Item) /\ tx[t].i \in Nat /\ tx[t].i > 0
          /\ \A j \in LocalWrites(t) : j < tx[t].i => j <= tx[t].current
      BY <1>1, <1>3, Fields DEF LockInv, Control
    <2>2. \A j \in DOMAIN tx[t].rwset : j < tx[t].i BY <1>3, <2>1
    <2> QED BY <2>1, <2>2 DEF LocalWrites
  <1>7. \A j \in LocalFresh(t)' : j \in LocalFresh(t) /\ j \in DOMAIN tx[t].rwset
    BY <1>3, <1>6 DEF LocalFresh, LocalHeld
  <1> QED BY <1>1, <1>3, <1>4, <1>5, <1>7 DEF NoInstall, Stamped, SameItems

\* The write-back request installs nothing itself.
LEMMA CommitRemoteKind ==
  ASSUME BooksInv, NEW t \in Tx, CommitRemote(t) PROVE Booked(t)' /\ NoInstall(t)
  <1>1. LockInv /\ tx[t].timestamp \in Nat BY Fields DEF BooksInv
  <1> DEFINE todo == RemoteWrites(t)
  <1>2. /\ tx[t].pc = "commit" /\ tx[t].i \notin DOMAIN tx[t].rwset
        /\ EndTo(t, "commit_remote", tx[t].current, tx[t].i, todo, tx[t].ok, tx[t].timestamp)
        /\ node' = node
    BY <1>1, CommitRemoteEffect DEF CommitRemote
  <1> HIDE DEF todo
  <1>3. \A k \in Key : ~Working(t, k) BY <1>2 DEF Working, LocalWrites
  <1>4. Booked(t)' BY <1>1, <1>2, <1>3, EndBooked DEF Stamped, Idle
  <1>5. /\ SameVersions /\ tx'[t].stage = tx[t].stage /\ tx'[t].pc = "commit_remote"
        /\ SameItems(t) /\ RemoteWrites(t)' = RemoteWrites(t)
        /\ tx'[t].timestamp = tx[t].timestamp
    BY <1>2 DEF EndTo, SameItems, RemoteWrites
  <1>6. LocalFresh(t)' = {} BY <1>5 DEF LocalFresh
  <1>7. \A j \in RemoteFresh(t)' : j \in RemoteFresh(t) /\ j \in DOMAIN tx[t].rset
    BY <1>2, <1>5 DEF RemoteFresh, RemoteHeld, RemoteWrites
  <1> QED BY <1>2, <1>3, <1>4, <1>5, <1>6, <1>7 DEF NoInstall, Stamped, SameItems

\* Nor do its replies.
LEMMA CommitRepliesKind ==
  ASSUME BooksInv, NEW t \in Tx, CommitReplies(t) PROVE Booked(t)' /\ NoInstall(t)
  <1>1. LockInv /\ tx[t].timestamp \in Nat BY Fields DEF BooksInv
  <1>2. /\ tx[t].pc = "commit_remote" /\ tx[t].todo = {} /\ node' = node
        /\ EndTo(t, "committed", tx[t].current, tx[t].i, tx[t].todo, tx[t].ok, tx[t].timestamp)
    BY <1>1, CommitRepliesEffect DEF CommitReplies
  <1>3. \A k \in Key : ~Working(t, k) BY <1>2 DEF Working
  <1>4. Booked(t)' BY <1>1, <1>2, <1>3, EndBooked DEF Stamped, Idle
  <1>5. /\ SameVersions /\ tx'[t].stage = tx[t].stage /\ tx'[t].pc = "committed"
        /\ tx'[t].timestamp = tx[t].timestamp
    BY <1>2 DEF EndTo
  <1>6. LocalFresh(t)' = {} /\ RemoteFresh(t)' = {}
    BY <1>5 DEF LocalFresh, RemoteFresh, RemoteHeld
  <1> QED BY <1>2, <1>3, <1>4, <1>5, <1>6 DEF NoInstall, Stamped

\* CommitLocalWrite at an item that is not written.
LEMMA SkipKind ==
  ASSUME BooksInv, NEW t \in Tx, UNCHANGED node, tx[t].pc = "commit",
         tx[t].i \in DOMAIN tx[t].rwset, ~tx[t].rwset[tx[t].i].w,
         EndTo(t, "commit", tx[t].current, tx[t].i + 1, tx[t].todo, tx[t].ok, tx[t].timestamp)
  PROVE  Booked(t)' /\ NoInstall(t)
  <1>1. LockInv /\ tx[t].timestamp \in Nat BY Fields DEF BooksInv
  <1> PICK n : n = tx[t].i + 1 OBVIOUS
  <1>2. EndTo(t, "commit", tx[t].current, n, tx[t].todo, tx[t].ok, tx[t].timestamp)
    OBVIOUS
  <1>3. \A k \in Key : ~Working(t, k) BY DEF Working, LocalWrites
  <1>4. Booked(t)' BY <1>1, <1>2, <1>3, EndBooked DEF Stamped, Idle
  <1>5. /\ SameVersions /\ tx'[t].stage = tx[t].stage /\ tx'[t].pc = "commit"
        /\ SameItems(t) /\ tx'[t].i = tx[t].i + 1 /\ tx'[t].timestamp = tx[t].timestamp
        /\ RemoteWrites(t)' = RemoteWrites(t) /\ LocalWrites(t)' = LocalWrites(t)
    BY DEF EndTo, SameItems, RemoteWrites, LocalWrites
  <1>6. \A j \in RemoteFresh(t)' : j \in RemoteFresh(t) /\ j \in DOMAIN tx[t].rset
    BY <1>5 DEF RemoteFresh, RemoteHeld, RemoteWrites
  <1>7. \A j \in LocalWrites(t) : tx[t].i + 1 <= j => tx[t].i <= j /\ j # tx[t].i
    BY <1>1, Fields DEF LocalWrites
  <1>8. \A j \in LocalFresh(t)' : j \in LocalFresh(t) /\ j \in DOMAIN tx[t].rwset
    BY <1>5, <1>7 DEF LocalFresh, LocalHeld, LocalWrites
  <1> QED BY <1>3, <1>4, <1>5, <1>6, <1>8 DEF NoInstall, Stamped, SameItems

-----------------------------------------------------------------------------
(* Installs.                                                                 *)

\* A record that t works on is locked by t.
LEMMA WorkingHolds ==
  ASSUME LockInv, NEW t \in Tx, NEW k \in Key, Working(t, k)
  PROVE  node[k].lock = t /\ tx[t].pc \in CommitPhase
  <1>1. Locks(t) /\ Control(t) BY DEF LockInv
  <1>2. CASE tx[t].pc = "commit" /\ tx[t].i \in LocalWrites(t) /\ k = tx[t].rwset[tx[t].i].key
    <2>1. tx[t].i \in Nat BY Fields
    <2>2. tx[t].i \in LocalHeld(t) BY <1>2, <2>1 DEF LocalHeld
    <2> QED BY <1>1, <1>2, <2>2 DEF Locks, CommitPhase
  <1>3. ASSUME tx[t].pc = "commit_remote", NEW i \in tx[t].todo, k = tx[t].rset[i].key
        PROVE  node[k].lock = t
    <2>1. i \in RemoteHeld(t) BY <1>1, <1>3 DEF Control, RemoteHeld
    <2> QED BY <1>1, <1>3, <2>1 DEF Locks
  <1> QED BY <1>2, <1>3 DEF Working, CommitPhase

\* Two records of one machine that t works on are one.
LEMMA WorkingOnce ==
  ASSUME LockInv, NEW t \in Tx, NEW h \in Key, NEW k \in Key, Working(t, h), Working(t, k),
         PartOf[h] = PartOf[k]
  PROVE  h = k
  <1>1. CASE tx[t].pc = "commit" BY <1>1 DEF Working
  <1>2. CASE tx[t].pc = "commit_remote"
    <2>1. PICK i \in tx[t].todo : NextAt(t, i) /\ h = tx[t].rset[i].key BY <1>2 DEF Working
    <2>2. PICK j \in tx[t].todo : NextAt(t, j) /\ k = tx[t].rset[j].key BY <1>2 DEF Working
    <2>3. i \in Nat /\ j \in Nat
      <3>1. tx[t].todo \in SUBSET Nat BY DEF LockInv, TypeOK, TxState
      <3> QED BY <3>1
    <2>4. i <= j /\ j <= i BY <2>1, <2>2 DEF NextAt
    <2> QED BY <2>1, <2>2, <2>3, <2>4
  <1> QED BY <1>1, <1>2 DEF Working

\* A step of CommitLocalWrite or commit_rpc_handler2 at a written item.
Installs(t) ==
  \/ /\ tx[t].pc = "commit" /\ tx[t].i \in LocalWrites(t)
     /\ \E it \in Item :
          /\ it = tx[t].rwset[tx[t].i]
          /\ \/ Hides(t, it) \/ Swaps(t, it, it.seq) \/ Publishes(t, it)
             \/ Unlocks(t, it, tx[t].i + 1, tx[t].todo)
  \/ /\ tx[t].pc = "commit_remote"
     /\ \E i \in tx[t].todo, it \in Item :
          /\ NextAt(t, i) /\ it = tx[t].rset[i]
          /\ \/ Hides(t, it) \/ Swaps(t, it, node[it.key].seq) \/ Publishes(t, it)
             \/ Unlocks(t, it, tx[t].i, tx[t].todo \ {i})

\* Every step installs, makes a store visible, or neither.
LEMMA StepKinds ==
  ASSUME BooksInv, NEW t \in Tx, Step(t) \/ Drain(t)
  PROVE  Alone(t) /\ Preserved(t)
         /\ ((Booked(t)' /\ NoInstall(t)) \/ Installs(t) \/ Drains(t))
  <1>1. LockInv BY DEF BooksInv
  <1>2. Preserved(t) /\ Alone(t) BY <1>1, StepPreserves DEF Preserved, Alone
  <1>3. CASE Drain(t) BY <1>1, <1>2, <1>3, DrainEffect
  <1>4. CASE Begin(t) \/ Execute(t) \/ GetRo(t)
    BY <1>2, <1>4, BeginKind, ExecuteKind, GetRoKind
  <1>5. CASE CommitLocalWrite(t)
    <2>1. PICK it \in Item :
              /\ it = tx[t].rwset[tx[t].i]
              /\ \/ /\ ~it.w /\ UNCHANGED node
                    /\ EndTo(t, "commit", tx[t].current, tx[t].i + 1, tx[t].todo, tx[t].ok,
                             tx[t].timestamp)
                 \/ /\ it.w /\ tx[t].i \in LocalWrites(t)
                    /\ \/ Hides(t, it) \/ Swaps(t, it, it.seq) \/ Publishes(t, it)
                       \/ Unlocks(t, it, tx[t].i + 1, tx[t].todo)
      BY <1>1, <1>5, CommitLocalWriteEffect
    <2>2. tx[t].pc = "commit" /\ tx[t].i \in DOMAIN tx[t].rwset
      BY <1>1, <1>5, CommitLocalWriteEffect
    <2> QED BY <1>2, <2>1, <2>2, SkipKind DEF Installs
  <1>6. CASE \E i \in tx[t].todo : CommitRpcHandler(t, i)
    BY <1>1, <1>2, <1>6, CommitRpcHandlerEffect DEF Installs
  <1>7. CASE ReleaseReplies(t)
    BY <1>1, <1>2, <1>7, ReleaseRepliesEffect, AbortKind DEF ReleasePhase
  <1>8. CASE ReleaseAllSet(t)
    <2> PICK n : n = tx[t].i + 1 OBVIOUS
    <2>1. /\ tx[t].pc = "release_all"
          /\ \/ EndTo(t, "aborted", tx[t].current, tx[t].i, tx[t].todo, tx[t].ok, tx[t].timestamp)
             \/ EndTo(t, "release_all", tx[t].current, n, tx[t].todo, tx[t].ok, tx[t].timestamp)
      BY <1>1, <1>8, ReleaseAllSetEffect
    <2> QED BY <1>2, <2>1, AbortKind DEF ReleasePhase
  <1>9. ASSUME NEW i \in tx[t].todo, ReleaseRpcHandler(t, i) PROVE Booked(t)' /\ NoInstall(t)
    <2> DEFINE todo == tx[t].todo \ {i}
    <2>1. /\ tx[t].pc = "release_remote"
          /\ EndTo(t, "release_remote", tx[t].current, tx[t].i, todo, tx[t].ok, tx[t].timestamp)
      BY <1>1, <1>9, ReleaseRpcHandlerEffect
    <2> HIDE DEF todo
    <2> QED BY <2>1, AbortKind DEF ReleasePhase
  <1>10. CASE Finish(t)
    BY <1>2, <1>5, <1>7, <1>8, <1>10, EndKind, LockRepliesKind, LockAllSetKind, LockCheckKind,
       CommitTsKind, CommitRemoteKind, CommitRepliesKind DEF Finish
  <1>11. CASE Serve(t)
    BY <1>2, <1>6, <1>9, <1>11, LockRpcHandlerKind DEF Serve
  <1> QED BY <1>3, <1>4, <1>10, <1>11 DEF Step

\* The item is a write of t, on a record that t has locked.
Wrote(t, it) == \/ \E i \in LocalWrites(t) : it = tx[t].rwset[i]
                \/ \E i \in RemoteWrites(t) : it = tx[t].rset[i]
Target(t, it) ==
  /\ it \in Item /\ it.key \in Key /\ it.w /\ Wrote(t, it)
  /\ Working(t, it.key) /\ node[it.key].lock = t
  /\ tx[t].pc \in CommitPhase /\ tx'[t].pc = tx[t].pc

\* The work of t on other machines is not affected.
Elsewhere(t, k) ==
  \A h \in Key : h # k =>
    /\ Working(t, h) => Working(t, h)' /\ PartOf[h] # PartOf[k]
    /\ Working(t, h)' /\ PartOf[h] # PartOf[k] => Working(t, h)

\* Switching and publishing go on with the same item, unlocking leaves it.
SwapsAny(t, it) == Swaps(t, it, it.seq) \/ Swaps(t, it, node[it.key].seq)
UnlocksAny(t, it) == \E i, todo : Unlocks(t, it, i, todo)
InstallAt(t, it) ==
  \/ /\ Hides(t, it) \/ SwapsAny(t, it) \/ Publishes(t, it)
     /\ \A h \in Key : Working(t, h)' <=> Working(t, h)
  \/ UnlocksAny(t, it) /\ ~Working(t, it.key)'

\* What is fresh after an install was so before, and is not what was published.
StillFresh(t, it) ==
  /\ \A i \in LocalFresh(t)' : /\ i \in LocalFresh(t)
                               /\ Publishes(t, it) => tx[t].rwset[i].key # it.key
  /\ \A i \in RemoteFresh(t)' : /\ i \in RemoteFresh(t)
                                /\ Publishes(t, it) => tx[t].rset[i].key # it.key

\* Every install is at a target, and elsewhere nothing changes.
LEMMA LocalInstall ==
  ASSUME BooksInv, NEW t \in Tx, Installs(t), tx[t].pc = "commit"
  PROVE  \E it : Target(t, it) /\ Elsewhere(t, it.key) /\ InstallAt(t, it) /\ StillFresh(t, it)
  <1>1. LockInv /\ Unique(t) /\ Control(t) BY DEF BooksInv, Booked, LockInv
  <1>2. /\ tx[t].i \in LocalWrites(t) /\ tx[t].i \in Nat BY <1>1, Fields DEF Installs
  <1>3. PICK it \in Item :
          /\ it = tx[t].rwset[tx[t].i]
          /\ \/ Hides(t, it) \/ Swaps(t, it, it.seq) \/ Publishes(t, it)
             \/ Unlocks(t, it, tx[t].i + 1, tx[t].todo)
    BY DEF Installs
  <1>4. it.key \in Key /\ it.w BY <1>2, <1>3 DEF Item, LocalWrites
  <1>5. Working(t, it.key) /\ Wrote(t, it) BY <1>2, <1>3 DEF Working, Wrote
  <1>6. /\ tx'[t].pc = "commit" /\ tx'[t].rwset = tx[t].rwset /\ tx'[t].rset = tx[t].rset
        /\ LocalWrites(t)' = LocalWrites(t) /\ RemoteWrites(t)' = RemoteWrites(t)
    BY <1>3 DEF Hides, Swaps, Publishes, Unlocks, StageTo, SameItems, LocalWrites, RemoteWrites
  <1>7. Target(t, it) BY <1>1, <1>4, <1>5, <1>6, WorkingHolds DEF Target
  <1>8. PartOf[it.key] = Home[t] BY <1>1, <1>2, <1>3 DEF Control, IsLocal, LocalWrites
  <1>9. Elsewhere(t, it.key)
    <2>1. \A h \in Key : Working(t, h) => h = it.key BY <1>3 DEF Working
    <2>2. \A h \in Key : Working(t, h)' => PartOf[h] = Home[t]
      BY <1>1, <1>6 DEF Working, Control, IsLocal, LocalWrites
    <2> QED BY <1>8, <2>1, <2>2 DEF Elsewhere
  <1>10. \A j \in LocalWrites(t) : tx[t].rwset[j].key = it.key => j = tx[t].i
    BY <1>1, <1>2, <1>3 DEF Unique, Stamped
  <1>11. \A j \in LocalWrites(t) : j \in Nat BY <1>1, Fields DEF LocalWrites
  <1>12. \A j \in RemoteFresh(t)' :
           j \in RemoteFresh(t) /\ tx[t].rset[j].key # it.key
    <2>1. \A j \in RemoteWrites(t) : tx[t].rset[j].key # it.key
      BY <1>1, <1>8 DEF Control, IsLocal, RemoteWrites
    <2> QED BY <1>6, <2>1 DEF RemoteFresh, RemoteHeld
  <1>13. CASE Hides(t, it) \/ Swaps(t, it, it.seq) \/ Publishes(t, it)
    <2>1. tx'[t].i = tx[t].i /\ tx'[t].todo = tx[t].todo
      BY <1>13 DEF Hides, Swaps, Publishes, StageTo
    <2>2. \A h \in Key : Working(t, h)' <=> Working(t, h) BY <1>6, <2>1 DEF Working, NextAt
    <2>3. /\ tx[t].stage[Home[t]] # 2
          /\ Publishes(t, it) => tx'[t].stage[Home[t]] = 2
      BY <1>8, <1>13 DEF Hides, Swaps, Publishes, StageTo
    <2>4. \A j \in LocalFresh(t)' : j \in LocalFresh(t) /\ j \in LocalWrites(t)
      BY <1>6, <2>1, <2>3 DEF LocalFresh, LocalHeld
    <2>5. Publishes(t, it) => \A j \in LocalFresh(t)' : j # tx[t].i
      BY <1>6, <2>1, <2>3 DEF LocalFresh
    <2>6. StillFresh(t, it) BY <1>10, <1>12, <2>4, <2>5 DEF StillFresh
    <2> QED BY <1>7, <1>9, <1>13, <2>2, <2>6 DEF InstallAt, SwapsAny
  <1>14. CASE Unlocks(t, it, tx[t].i + 1, tx[t].todo)
    <2>1. tx'[t].i = tx[t].i + 1 BY <1>14 DEF Unlocks, StageTo
    <2>2. ~Working(t, it.key)'
      <3>1. tx[t].i + 1 # tx[t].i BY <1>2
      <3> QED BY <1>6, <1>10, <2>1, <3>1 DEF Working
    <2>3. \A j \in LocalWrites(t) : tx[t].i + 1 <= j => tx[t].i <= j /\ j # tx[t].i
      BY <1>2, <1>11
    <2>4. \A j \in LocalFresh(t)' : j \in LocalFresh(t)
      BY <1>6, <2>1, <2>3 DEF LocalFresh, LocalHeld
    <2>5. ~Publishes(t, it) BY <1>14 DEF Publishes, Unlocks
    <2>6. StillFresh(t, it) BY <1>12, <2>4, <2>5 DEF StillFresh
    <2> QED BY <1>7, <1>9, <1>14, <2>2, <2>6 DEF InstallAt, UnlocksAny
  <1> QED BY <1>3, <1>13, <1>14

\* The same at the server of a remote item.
LEMMA RemoteInstall ==
  ASSUME BooksInv, NEW t \in Tx, Installs(t), tx[t].pc = "commit_remote"
  PROVE  \E it : Target(t, it) /\ Elsewhere(t, it.key) /\ InstallAt(t, it) /\ StillFresh(t, it)
  <1>1. LockInv /\ Unique(t) /\ Control(t) BY DEF BooksInv, Booked, LockInv
  <1>2. PICK i \in tx[t].todo, it \in Item :
          /\ NextAt(t, i) /\ it = tx[t].rset[i]
          /\ \/ Hides(t, it) \/ Swaps(t, it, node[it.key].seq) \/ Publishes(t, it)
             \/ Unlocks(t, it, tx[t].i, tx[t].todo \ {i})
    BY DEF Installs
  <1>3. i \in RemoteWrites(t) /\ it.key \in Key /\ it.w
    BY <1>1, <1>2, NextAtItem DEF RemoteWrites
  <1>4. Working(t, it.key) /\ Wrote(t, it) BY <1>2, <1>3 DEF Working, Wrote
  <1>5. /\ tx'[t].pc = "commit_remote" /\ tx'[t].rwset = tx[t].rwset /\ tx'[t].rset = tx[t].rset
        /\ LocalWrites(t)' = LocalWrites(t) /\ RemoteWrites(t)' = RemoteWrites(t)
        /\ (tx'[t].todo = tx[t].todo \/ tx'[t].todo = tx[t].todo \ {i})
        /\ \A p \in Part : p # PartOf[it.key] => tx'[t].stage[p] = tx[t].stage[p]
    BY <1>2 DEF Hides, Swaps, Publishes, Unlocks, StageTo, SameItems, LocalWrites, RemoteWrites
  <1>6. Target(t, it) BY <1>1, <1>3, <1>4, <1>5, WorkingHolds DEF Target
  <1>7. ASSUME NEW j \in tx[t].todo, NextAt(t, j), j # i
        PROVE  PartOf[tx[t].rset[j].key] # PartOf[it.key] /\ PartOf[tx[t].rset[j].key] \in Part
    <2>1. tx[t].todo \in SUBSET Nat BY <1>1 DEF LockInv, TypeOK, TxState
    <2>2. i \in Nat /\ j \in Nat BY <2>1
    <2>3. PartOf[tx[t].rset[j].key] = PartOf[it.key] => i <= j /\ j <= i
      BY <1>2, <1>7 DEF NextAt
    <2>4. tx[t].rset[j].key \in Key BY <1>1, NextAtItem
    <2> QED BY <1>7, <2>2, <2>3, <2>4, ConstantAssumption
  <1>8. \A j \in tx'[t].todo : NextAt(t, j) => NextAt(t, j)' BY <1>5 DEF NextAt
  <1>9. Elsewhere(t, it.key)
    <2>1. ASSUME NEW h \in Key, h # it.key, Working(t, h)
          PROVE  Working(t, h)' /\ PartOf[h] # PartOf[it.key]
      <3>1. PartOf[h] # PartOf[it.key] BY <1>1, <1>3, <1>4, <2>1, WorkingOnce
      <3>2. PICK j \in tx[t].todo : NextAt(t, j) /\ h = tx[t].rset[j].key
        BY <2>1 DEF Working
      <3>3. j \in tx'[t].todo BY <1>2, <1>5, <2>1, <3>2
      <3> QED BY <1>5, <1>8, <3>1, <3>2, <3>3 DEF Working
    <2>2. ASSUME NEW h \in Key, Working(t, h)', PartOf[h] # PartOf[it.key]
          PROVE  Working(t, h)
      <3>1. PICK j \in tx'[t].todo : NextAt(t, j)' /\ h = tx[t].rset[j].key
        BY <1>5, <2>2 DEF Working
      <3>2. j \in tx[t].todo BY <1>5
      <3>3. NextAt(t, j) BY <1>2, <1>5, <2>2, <3>1, <3>2 DEF NextAt
      <3> QED BY <3>1, <3>2, <3>3 DEF Working
    <2> QED BY <2>1, <2>2 DEF Elsewhere
  <1>10. \A j \in tx[t].todo : tx[t].rset[j].key = it.key => j = i
    BY <1>1, <1>2, <1>3 DEF Unique, Stamped, Control
  <1>11. LocalFresh(t)' = {} BY <1>5 DEF LocalFresh
  <1>12. \A j \in RemoteFresh(t)' :
            /\ j \in RemoteWrites(t) /\ j \in tx'[t].todo /\ j \in tx[t].todo
            /\ NextAt(t, j)' => tx'[t].stage[PartOf[tx[t].rset[j].key]] # 2
    BY <1>5 DEF RemoteFresh, RemoteHeld
  <1>13. \A j \in RemoteFresh(t)' : j # i => j \in RemoteFresh(t)
    BY <1>5, <1>7, <1>8, <1>12 DEF RemoteFresh, RemoteHeld
  <1>14. CASE Hides(t, it) \/ Swaps(t, it, node[it.key].seq) \/ Publishes(t, it)
    <2>1. tx'[t].todo = tx[t].todo /\ tx'[t].i = tx[t].i
      BY <1>14 DEF Hides, Swaps, Publishes, StageTo
    <2>2. \A h \in Key : Working(t, h)' <=> Working(t, h) BY <1>5, <2>1 DEF Working, NextAt
    <2>3. /\ tx[t].stage[PartOf[it.key]] # 2
          /\ Publishes(t, it) => tx'[t].stage[PartOf[it.key]] = 2
      BY <1>14 DEF Hides, Swaps, Publishes, StageTo
    <2>4. i \in RemoteFresh(t) BY <1>2, <1>3, <2>3 DEF RemoteFresh, RemoteHeld
    <2>5. Publishes(t, it) => i \notin RemoteFresh(t)' BY <1>2, <1>8, <1>12, <2>1, <2>3
    <2>6. StillFresh(t, it) BY <1>10, <1>11, <1>12, <1>13, <2>4, <2>5 DEF StillFresh
    <2> QED BY <1>6, <1>9, <1>14, <2>2, <2>6 DEF InstallAt, SwapsAny
  <1>15. CASE Unlocks(t, it, tx[t].i, tx[t].todo \ {i})
    <2>1. tx'[t].todo = tx[t].todo \ {i} BY <1>15 DEF Unlocks, StageTo
    <2>2. ~Working(t, it.key)' BY <1>5, <1>10, <2>1 DEF Working
    <2>3. ~Publishes(t, it) BY <1>15 DEF Publishes, Unlocks
    <2>4. StillFresh(t, it) BY <1>11, <1>12, <1>13, <2>1, <2>3 DEF StillFresh
    <2>5. UnlocksAny(t, it) BY <1>15 DEF UnlocksAny
    <2> QED BY <1>6, <1>9, <2>2, <2>4, <2>5 DEF InstallAt
  <1> QED BY <1>2, <1>14, <1>15

\* What an install leaves alone.
LEMMA InstallFields ==
  ASSUME NEW t \in Tx, NEW it, Target(t, it), InstallAt(t, it)
  PROVE  /\ Alone(t) /\ SameItems(t) /\ SameRead(t) /\ tx'[t].timestamp = tx[t].timestamp
         /\ \A h \in Key : h # it.key => node'[h] = node[h] /\ log'[h] = log[h]
         /\ \A p \in Part : p # PartOf[it.key] => tx'[t].stage[p] = tx[t].stage[p]
         /\ \/ /\ Hides(t, it) /\ tx'[t].stage[PartOf[it.key]] = 0 /\ log' = log
               /\ \A h \in Key : Working(t, h)' <=> Working(t, h)
            \/ /\ SwapsAny(t, it) /\ tx'[t].stage[PartOf[it.key]] = 1 /\ log' = log
               /\ \A h \in Key : Working(t, h)' <=> Working(t, h)
            \/ /\ Publishes(t, it) /\ tx'[t].stage[PartOf[it.key]] = 2
               /\ \A h \in Key : Working(t, h)' <=> Working(t, h)
            \/ /\ UnlocksAny(t, it) /\ tx'[t].stage[PartOf[it.key]] = 0 /\ log' = log
               /\ ~Working(t, it.key)'
  <1>1. ASSUME NEW ver, Swaps(t, it, ver), \A h \in Key : Working(t, h)' <=> Working(t, h)
        PROVE  /\ Alone(t) /\ SameItems(t) /\ SameRead(t) /\ tx'[t].timestamp = tx[t].timestamp
               /\ \A h \in Key : h # it.key => node'[h] = node[h] /\ log'[h] = log[h]
               /\ \A p \in Part : p # PartOf[it.key] => tx'[t].stage[p] = tx[t].stage[p]
               /\ tx'[t].stage[PartOf[it.key]] = 1 /\ log' = log
    BY <1>1 DEF Swaps, StageTo, NodeTo
  <1>2. ASSUME Publishes(t, it)
        PROVE  /\ Alone(t) /\ SameItems(t) /\ SameRead(t) /\ tx'[t].timestamp = tx[t].timestamp
               /\ \A h \in Key : h # it.key => node'[h] = node[h] /\ log'[h] = log[h]
               /\ \A p \in Part : p # PartOf[it.key] => tx'[t].stage[p] = tx[t].stage[p]
               /\ tx'[t].stage[PartOf[it.key]] = 2
    BY <1>2 DEF Publishes, StageTo, NodeTo
  <1>3. ASSUME NEW i, NEW todo, Unlocks(t, it, i, todo)
        PROVE  /\ Alone(t) /\ SameItems(t) /\ SameRead(t) /\ tx'[t].timestamp = tx[t].timestamp
               /\ \A h \in Key : h # it.key => node'[h] = node[h] /\ log'[h] = log[h]
               /\ \A p \in Part : p # PartOf[it.key] => tx'[t].stage[p] = tx[t].stage[p]
               /\ tx'[t].stage[PartOf[it.key]] = 0 /\ log' = log
    BY <1>3 DEF Unlocks, StageTo, NodeTo
  <1>4. ASSUME Hides(t, it)
        PROVE  /\ Alone(t) /\ SameItems(t) /\ SameRead(t) /\ tx'[t].timestamp = tx[t].timestamp
               /\ \A h \in Key : h # it.key => node'[h] = node[h] /\ log'[h] = log[h]
               /\ \A p \in Part : p # PartOf[it.key] => tx'[t].stage[p] = tx[t].stage[p]
               /\ tx'[t].stage[PartOf[it.key]] = 0 /\ log' = log
    BY <1>4 DEF Hides, StageTo, NodeTo
  <1> QED BY <1>1, <1>2, <1>3, <1>4 DEF InstallAt, SwapsAny, UnlocksAny

\* The step of an install keeps the books.
LEMMA InstallBooked ==
  ASSUME BooksInv, NEW t \in Tx, NEW it, Target(t, it), Elsewhere(t, it.key),
         InstallAt(t, it)
  PROVE  Booked(t)'
  <1>1. LockInv /\ Times(t) /\ Unique(t) /\ Staged(t) BY DEF BooksInv, Booked
  <1>2. /\ SameItems(t) /\ SameRead(t) /\ tx'[t].timestamp = tx[t].timestamp
        /\ \A p \in Part : p # PartOf[it.key] => tx'[t].stage[p] = tx[t].stage[p]
        /\ tx'[t].pc = tx[t].pc /\ tx[t].pc \in CommitPhase /\ it.key \in Key
    BY InstallFields DEF Target
  <1>3. /\ Planned(t)' /\ LocalWrites(t)' = LocalWrites(t) /\ RemoteWrites(t)' = RemoteWrites(t)
    BY <1>2, SameBooks DEF SameRead
  <1>4. Fetching(t)' BY <1>2 DEF Fetching, CommitPhase
  <1>5. Times(t)' BY <1>1, <1>2 DEF Times, SameItems
  <1>6. Unique(t)' BY <1>1, <1>2, <1>3 DEF Unique, SameItems
  <1>7. ASSUME NEW p \in Part, tx'[t].stage[p] # 0
        PROVE  \E k \in Key : Working(t, k)' /\ PartOf[k] = p
    <2>1. CASE p # PartOf[it.key]
      <3>1. PICK k \in Key : Working(t, k) /\ PartOf[k] = p BY <1>1, <1>2, <1>7, <2>1 DEF Staged
      <3> QED BY <2>1, <3>1 DEF Elsewhere
    <2>2. CASE p = PartOf[it.key]
      <3>1. Working(t, it.key)' BY <1>2, <1>7, <2>2, InstallFields DEF Target
      <3> QED BY <1>2, <2>2, <3>1
    <2> QED BY <2>1, <2>2
  <1>8. Staged(t)' BY <1>7 DEF Staged
  <1> QED BY <1>3, <1>4, <1>5, <1>6, <1>8 DEF Booked

\* What depends on one transaction only.
LEMMA Views ==
  ASSUME NEW u \in Tx, SameItems(u), SameEnd(u), tx'[u].pc = tx[u].pc
  PROVE  /\ LocalWrites(u)' = LocalWrites(u) /\ RemoteWrites(u)' = RemoteWrites(u)
         /\ LocalFresh(u)' = LocalFresh(u) /\ RemoteFresh(u)' = RemoteFresh(u)
         /\ \A k \in Key : Working(u, k)' <=> Working(u, k)
  <1>1. /\ LocalWrites(u)' = LocalWrites(u) /\ RemoteWrites(u)' = RemoteWrites(u)
    BY DEF LocalWrites, RemoteWrites, SameItems
  <1>2. LocalHeld(u)' = LocalHeld(u) /\ RemoteHeld(u)' = RemoteHeld(u)
    BY <1>1 DEF LocalHeld, RemoteHeld, SameEnd
  <1>3. LocalFresh(u)' = LocalFresh(u) /\ RemoteFresh(u)' = RemoteFresh(u)
    BY <1>2 DEF LocalFresh, RemoteFresh, NextAt, SameEnd, SameItems
  <1>4. \A k \in Key : Working(u, k)' <=> Working(u, k)
    BY <1>1 DEF Working, NextAt, SameEnd, SameItems
  <1> QED BY <1>1, <1>3, <1>4
\* A transaction whose state does not change.
LEMMA OtherViews ==
  ASSUME NEW u \in Tx, tx'[u] = tx[u]
  PROVE  /\ SameItems(u) /\ SameEnd(u) /\ SameRead(u) /\ tx'[u].pc = tx[u].pc
         /\ LocalWrites(u)' = LocalWrites(u) /\ RemoteWrites(u)' = RemoteWrites(u)
         /\ LocalFresh(u)' = LocalFresh(u) /\ RemoteFresh(u)' = RemoteFresh(u)
         /\ \A k \in Key : Working(u, k)' <=> Working(u, k)
  <1>1. SameItems(u) /\ SameEnd(u) /\ SameRead(u) /\ tx'[u].pc = tx[u].pc
    BY DEF SameItems, SameEnd, SameRead
  <1> QED BY <1>1, Views

\* A transaction whose books do not change keeps them.
LEMMA BooksStay ==
  ASSUME BooksInv, NEW u \in Tx, SameItems(u), SameEnd(u), SameRead(u), tx'[u].pc = tx[u].pc
  PROVE  Booked(u)'
  <1>1. Planned(u)' BY SameBooks DEF SameRead
  <1>2. Fetching(u) /\ Times(u) /\ Staged(u) /\ Unique(u) BY DEF BooksInv, Booked
  <1>3. /\ LocalWrites(u)' = LocalWrites(u) /\ RemoteWrites(u)' = RemoteWrites(u)
        /\ \A k \in Key : Working(u, k)' <=> Working(u, k)
    BY Views
  <1>4. Fetching(u)' BY <1>2 DEF Fetching, SameRead
  <1>5. Times(u)' BY <1>2 DEF Times, SameItems, SameEnd
  <1>6. Staged(u)' BY <1>2, <1>3 DEF Staged, SameEnd
  <1>7. Unique(u)' BY <1>2, <1>3 DEF Unique, SameItems
  <1> QED BY <1>1, <1>4, <1>5, <1>6, <1>7 DEF Booked

\* A step of an install is about one item.
LEMMA InstallItem ==
  ASSUME BooksInv, NEW t \in Tx, Installs(t)
  PROVE  \E it : Target(t, it) /\ Elsewhere(t, it.key) /\ InstallAt(t, it) /\ StillFresh(t, it)
  <1>1. tx[t].pc \in {"commit", "commit_remote"} BY DEF Installs
  <1> QED BY <1>1, LocalInstall, RemoteInstall

\* Every step keeps the books.
LEMMA NextBooks == ASSUME BooksInv, [Next]_vars PROVE BooksInv'
  <1>1. LockInv' BY NextLockInv DEF BooksInv
  <1>2. ASSUME NEW t \in Tx, Step(t) \/ Drain(t), NEW u \in Tx PROVE Booked(u)'
    <2>1. Alone(t) BY <1>2, StepKinds
    <2>2. CASE u # t BY <2>1, <2>2, OtherViews, BooksStay DEF Alone
    <2>3. CASE Installs(t) /\ u = t BY <2>3, InstallItem, InstallBooked
    <2>4. CASE Drains(t) /\ u = t BY <2>4, BooksStay DEF Drains
    <2> QED BY <1>2, <2>2, <2>3, <2>4, StepKinds
  <1>3. ASSUME UNCHANGED vars, NEW u \in Tx PROVE Booked(u)'
    BY <1>3, OtherViews, BooksStay DEF vars
  <1> QED BY <1>1, <1>2, <1>3 DEF Next, Terminated, BooksInv

\* They are in order at the start.
LEMMA InitBooks == ASSUME Init PROVE BooksInv
  <1>1. ASSUME NEW t \in Tx PROVE Booked(t)
    <2>1. /\ tx[t].pc = Idle /\ tx[t].prog = <<>> /\ tx[t].rwset = <<>> /\ tx[t].rset = <<>>
          /\ \A p \in Part : tx[t].stage[p] = 0
      BY DEF Init
    <2> QED BY <2>1 DEF Booked, Planned, Fetching, Times, Staged, Unique, Idle, Stamped
  <1> QED BY <1>1, InitLockInv DEF BooksInv

\* The books of every transaction are in order, in every reachable state.
THEOREM BooksInvariance == Spec => []BooksInv
  <1>1. Init => BooksInv BY InitBooks
  <1>2. BooksInv /\ [Next]_vars => BooksInv' BY NextBooks
  <1> QED BY <1>1, <1>2, PTL DEF Spec

-----------------------------------------------------------------------------
(* Nodes and histories.                                                      *)

\* Histories and nodes, and the newest version.
LEMMA TopVersion ==
  ASSUME LockInv, NEW k \in Key
  PROVE  /\ log[k] \in Seq(Version) /\ Len(log[k]) \in Nat /\ DOMAIN log[k] = 1..Len(log[k])
         /\ node[k].seq \in Nat /\ node[k].old \in Seq(Version) /\ node[k].value \in Val
         /\ TopVer(k) \in Nat
         /\ \A j \in DOMAIN log[k] : log[k][j] \in Version /\ log[k][j].ver \in Nat
         /\ Len(log[k]) > 0 => Len(log[k]) \in DOMAIN log[k] /\ TopVer(k) = log[k][Len(log[k])].ver
         /\ Len(log[k]) = 0 => TopVer(k) = 0
  <1>1. /\ log[k] \in Seq(Version) /\ node[k].seq \in Nat /\ node[k].old \in Seq(Version)
        /\ node[k].value \in Val
    BY DEF LockInv, TypeOK, MemNode
  <1>2. Len(log[k]) \in Nat /\ DOMAIN log[k] = 1..Len(log[k]) BY <1>1
  <1>3. \A j \in DOMAIN log[k] : log[k][j] \in Version BY <1>1
  <1>4. \A j \in DOMAIN log[k] : log[k][j].ver \in Nat BY <1>3 DEF Version
  <1>5. CASE log[k] = <<>> BY <1>1, <1>2, <1>3, <1>4, <1>5 DEF TopVer
  <1>6. CASE log[k] # <<>>
    <2>1. Len(log[k]) > 0 BY <1>1, <1>6
    <2>2. Len(log[k]) \in DOMAIN log[k] BY <1>2, <2>1
    <2> QED BY <1>1, <1>2, <1>3, <1>4, <1>6, <2>1, <2>2 DEF TopVer
  <1> QED BY <1>5, <1>6

\* A version that has just been compared, by somebody who installs nothing, is
\* the newest one.
LEMMA MatchTop ==
  ASSUME HistInv, NEW t \in Tx, \A k \in Key : ~Working(t, k), NEW it, it.key \in Key,
         Matches(t, it)
  PROVE  it.seq = TopVer(it.key)
  <1>1. NodeInv(it.key) BY DEF HistInv
  <1>2. node[it.key].seq # 1
    <2>1. ASSUME NEW u \in Tx, Changing(it.key, u) \/ Hidden(it.key, u) PROVE FALSE
      BY <2>1, ConstantAssumption DEF Changing, Hidden, Matches
    <2> QED BY <1>1, <2>1 DEF NodeInv
  <1> QED BY <1>1, <1>2 DEF NodeInv, Settled, Matches

\* Steps that change no version: nodes, ...
LEMMA SameNodes ==
  ASSUME HistInv, NEW k \in Key, SameVersions,
         \A u \in Tx : Working(u, k)' /\ tx'[u].stage[PartOf[k]] = 1 =>
                         Working(u, k) /\ tx[u].stage[PartOf[k]] = 1,
         \A u \in Tx : node[k].lock = u /\ Working(u, k) =>
           /\ node'[k].lock = u /\ Working(u, k)'
           /\ tx'[u].stage[PartOf[k]] = tx[u].stage[PartOf[k]]
  PROVE  NodeInv(k)' /\ TopVer(k)' = TopVer(k)
  <1>1. /\ log' = log /\ node'[k].seq = node[k].seq /\ node'[k].value = node[k].value
        /\ node'[k].old = node[k].old /\ NodeInv(k)
    BY DEF SameVersions, HistInv
  <1>2. TopVer(k)' = TopVer(k) /\ \A m : Chain(k, m)' <=> Chain(k, m)
    BY <1>1 DEF TopVer, Chain
  <1>3. CASE node[k].seq # 1
    <2>1. Settled(k) BY <1>1, <1>3 DEF NodeInv
    <2>2. Chain(k, Len(log[k]) - 1)' BY <1>1, <1>2, <2>1 DEF Settled
    <2>3. Settled(k)' BY <1>1, <1>2, <2>1, <2>2 DEF Settled
    <2> QED BY <1>1, <1>2, <1>3, <2>3 DEF NodeInv
  <1>4. CASE node[k].seq = 1
    <2>1. PICK u \in Tx : Changing(k, u) \/ Hidden(k, u) BY <1>1, <1>4 DEF NodeInv
    <2>2. CASE Changing(k, u)
      <3>1. Chain(k, Len(log[k]))' BY <1>1, <1>2, <2>2 DEF Changing
      <3>2. Changing(k, u)' BY <1>1, <2>2, <3>1 DEF Changing
      <3> QED BY <1>1, <1>2, <1>4, <3>2 DEF NodeInv
    <2>3. CASE Hidden(k, u)
      <3>1. Chain(k, Len(log[k]) - 1)' BY <1>1, <1>2, <2>3 DEF Hidden
      <3>2. Hidden(k, u)' BY <1>1, <2>3, <3>1 DEF Hidden
      <3> QED BY <1>1, <1>2, <1>4, <3>2 DEF NodeInv
    <2> QED BY <2>1, <2>2, <2>3
  <1> QED BY <1>3, <1>4

\* ... and histories.
LEMMA SameLog ==
  ASSUME HistInv, NEW k \in Key, log'[k] = log[k],
         \A u \in Tx : tx[u].pc \in Stamped =>
           /\ tx'[u].pc \in Stamped /\ tx'[u].timestamp = tx[u].timestamp
           /\ node'[k].lock = u =>
                /\ node[k].lock = u
                /\ Working(u, k) /\ tx[u].stage[PartOf[k]] = 2 =>
                     Working(u, k)' /\ tx'[u].stage[PartOf[k]] = 2
  PROVE  LogInv(k)'
  <1>1. LogInv(k) BY DEF HistInv
  <1>2. ASSUME NEW j \in DOMAIN log[k] PROVE Entry(k, log[k][j])'
    <2> PICK e : e = log[k][j] OBVIOUS
    <2>1. Entry(k, e) BY <1>1 DEF LogInv
    <2>2. Entry(k, e)' BY <2>1 DEF Entry
    <2> QED BY <2>2 DEF Entry
  <1> QED BY <1>1, <1>2 DEF LogInv

\* A step that installs nothing.
LEMMA QuietHist ==
  ASSUME HistInv, NEW t \in Tx, Alone(t), Preserved(t), NoInstall(t)
  PROVE  /\ \A k \in Key : NodeInv(k)' /\ LogInv(k)'
         /\ \A u \in Tx : StillNewest(u)'
  <1>1. LockInv /\ BooksInv BY DEF HistInv, BooksInv
  <1>2. /\ SameVersions /\ tx'[t].stage = tx[t].stage /\ \A k \in Key : ~Working(t, k)
        /\ \A p \in Part : tx[t].stage[p] = 0
    BY <1>1, IdleStages DEF NoInstall
  <1>3. \A k \in Key : PartOf[k] \in Part BY ConstantAssumption
  <1>4. \A u \in Tx, k \in Key : u # t /\ node'[k].lock = u => node[k].lock = u
    BY ConstantAssumption DEF Preserved, LockStep
  <1>5. \A u \in Tx, k \in Key : u # t /\ node[k].lock = u => node'[k].lock = u
    BY ConstantAssumption DEF Preserved, LockStep
  <1>6. \A u \in Tx : u # t =>
          /\ tx'[u] = tx[u] /\ \A k \in Key : Working(u, k)' <=> Working(u, k)
    BY OtherViews DEF Alone
  <1>7. ASSUME NEW k \in Key PROVE NodeInv(k)' /\ TopVer(k)' = TopVer(k)
    <2>1. \A u \in Tx : Working(u, k)' /\ tx'[u].stage[PartOf[k]] = 1 =>
                         Working(u, k) /\ tx[u].stage[PartOf[k]] = 1
      BY <1>2, <1>3, <1>6
    <2>2. \A u \in Tx : node[k].lock = u /\ Working(u, k) =>
             /\ node'[k].lock = u /\ Working(u, k)'
             /\ tx'[u].stage[PartOf[k]] = tx[u].stage[PartOf[k]]
      BY <1>2, <1>5, <1>6
    <2> QED BY <1>2, <2>1, <2>2, SameNodes
  <1>8. ASSUME NEW k \in Key PROVE LogInv(k)'
    <2>1. log'[k] = log[k] BY <1>2 DEF SameVersions
    <2>2. CASE tx[t].pc \in Stamped /\ node'[k].lock = t /\ node[k].lock = t
      <3>1. ASSUME NEW j \in DOMAIN log[k] PROVE log[k][j].by # t
        BY <1>2, <2>2, <3>1, ConstantAssumption DEF HistInv, LogInv, Entry
      <3>2. ASSUME NEW j \in DOMAIN log[k] PROVE Entry(k, log[k][j])'
        <4> PICK e : e = log[k][j] OBVIOUS
        <4>1. Entry(k, e) /\ e.by # t BY <3>1 DEF HistInv, LogInv
        <4>2. Entry(k, e)' BY <1>4, <1>6, <4>1 DEF Entry
        <4> QED BY <2>1, <4>2 DEF Entry
      <3> QED BY <2>1, <3>2 DEF HistInv, LogInv
    <2>3. CASE ~(tx[t].pc \in Stamped /\ node'[k].lock = t /\ node[k].lock = t)
      <3>1. tx[t].pc \in Stamped =>
              /\ tx'[t].pc \in Stamped /\ tx'[t].timestamp = tx[t].timestamp
              /\ node'[k].lock # t
        BY <2>3 DEF NoInstall
      <3>2. \A u \in Tx : tx[u].pc \in Stamped =>
              /\ tx'[u].pc \in Stamped /\ tx'[u].timestamp = tx[u].timestamp
              /\ node'[k].lock = u =>
                   /\ node[k].lock = u
                   /\ Working(u, k) /\ tx[u].stage[PartOf[k]] = 2 =>
                        Working(u, k)' /\ tx'[u].stage[PartOf[k]] = 2
        BY <1>4, <1>6, <3>1
      <3> QED BY <2>1, <3>2, SameLog
    <2> QED BY <2>2, <2>3
  <1>9. ASSUME NEW u \in Tx PROVE StillNewest(u)'
    <2>1. StillNewest(u) BY DEF HistInv
    <2>2. CASE u # t
      <3>1. /\ tx'[u] = tx[u] /\ LocalFresh(u)' = LocalFresh(u) /\ RemoteFresh(u)' = RemoteFresh(u)
        BY <2>2, OtherViews DEF Alone
      <3>2. /\ \A i \in LocalFresh(u) : tx[u].rwset[i].key \in Key
            /\ \A i \in RemoteFresh(u) : tx[u].rset[i].key \in Key
        BY <1>1, Fields DEF LocalFresh, RemoteFresh, LocalHeld, RemoteHeld, LocalWrites, RemoteWrites
      <3> QED BY <1>7, <2>1, <3>1, <3>2 DEF StillNewest
    <2>3. CASE u = t
      <3>1. ASSUME NEW i \in LocalFresh(t)'
            PROVE  tx'[t].rwset[i].seq = TopVer(tx[t].rwset[i].key)'
        <4>1. /\ tx'[t].rwset = tx[t].rwset /\ i \in DOMAIN tx[t].rwset
              /\ i \in LocalFresh(t) \/ Matches(t, tx[t].rwset[i])
          BY <3>1 DEF NoInstall
        <4> PICK it : it = tx[t].rwset[i] OBVIOUS
        <4>2. it.key \in Key BY <1>1, <4>1, Fields
        <4>3. it.seq = TopVer(it.key)
          BY <1>2, <2>1, <2>3, <4>1, <4>2, MatchTop DEF StillNewest
        <4>4. TopVer(it.key)' = TopVer(it.key) BY <1>7, <4>2
        <4> QED BY <4>1, <4>3, <4>4
      <3>2. ASSUME NEW i \in RemoteFresh(t)'
            PROVE  tx'[t].rset[i].seq = TopVer(tx[t].rset[i].key)'
        <4>1. /\ tx'[t].rset = tx[t].rset /\ i \in DOMAIN tx[t].rset
              /\ i \in RemoteFresh(t) \/ Matches(t, tx[t].rset[i])
          BY <3>2 DEF NoInstall
        <4> PICK it : it = tx[t].rset[i] OBVIOUS
        <4>2. it.key \in Key BY <1>1, <4>1, Fields
        <4>3. it.seq = TopVer(it.key)
          BY <1>2, <2>1, <2>3, <4>1, <4>2, MatchTop DEF StillNewest
        <4>4. TopVer(it.key)' = TopVer(it.key) BY <1>7, <4>2
        <4> QED BY <4>1, <4>3, <4>4
      <3> QED BY <2>3, <3>1, <3>2 DEF StillNewest
    <2> QED BY <2>2, <2>3
  <1> QED BY <1>7, <1>8, <1>9

\* A store to read_ts that becomes visible, and stuttering.
LEMMA CalmHist ==
  ASSUME HistInv, SameVersions, \A k \in Key : node'[k].lock = node[k].lock,
         \A u \in Tx : SameItems(u) /\ SameEnd(u) /\ tx'[u].pc = tx[u].pc
  PROVE  /\ \A k \in Key : NodeInv(k)' /\ LogInv(k)'
         /\ \A u \in Tx : StillNewest(u)'
  <1>1. LockInv BY DEF HistInv, BooksInv
  <1>2. \A u \in Tx : /\ LocalFresh(u)' = LocalFresh(u) /\ RemoteFresh(u)' = RemoteFresh(u)
                      /\ \A k \in Key : Working(u, k)' <=> Working(u, k)
                      /\ tx'[u].stage = tx[u].stage /\ tx'[u].timestamp = tx[u].timestamp
    BY Views DEF SameEnd
  <1>3. ASSUME NEW k \in Key PROVE NodeInv(k)' /\ TopVer(k)' = TopVer(k)
    BY <1>2, SameNodes
  <1>4. ASSUME NEW k \in Key PROVE LogInv(k)'
    BY <1>2, SameLog DEF SameVersions
  <1>5. ASSUME NEW u \in Tx PROVE StillNewest(u)'
    <2>1. /\ \A i \in LocalFresh(u) : tx[u].rwset[i].key \in Key
          /\ \A i \in RemoteFresh(u) : tx[u].rset[i].key \in Key
      BY <1>1, Fields DEF LocalFresh, RemoteFresh, LocalHeld, RemoteHeld, LocalWrites, RemoteWrites
    <2>2. StillNewest(u) /\ SameItems(u) BY DEF HistInv
    <2> QED BY <1>2, <1>3, <2>1, <2>2 DEF StillNewest, SameItems
  <1> QED BY <1>3, <1>4, <1>5

\* An install does not touch the other records.
LEMMA InstallOtherNode ==
  ASSUME HistInv, NEW t \in Tx, NEW it, Target(t, it), Elsewhere(t, it.key),
         InstallAt(t, it), NEW h \in Key, h # it.key
  PROVE  NodeInv(h)'
  <1>1. /\ node'[h] = node[h] /\ log'[h] = log[h] /\ NodeInv(h)
        /\ \A u \in Tx : u # t => tx'[u] = tx[u]
        /\ \A p \in Part : p # PartOf[it.key] => tx'[t].stage[p] = tx[t].stage[p]
        /\ PartOf[h] \in Part
    BY InstallFields, ConstantAssumption DEF HistInv, Alone
  <1>2. TopVer(h)' = TopVer(h) /\ \A m : Chain(h, m)' <=> Chain(h, m)
    BY <1>1 DEF TopVer, Chain
  <1>3. \A u \in Tx : u # t => (Working(u, h)' <=> Working(u, h))
    BY <1>1, OtherViews
  <1>4. CASE node[h].seq # 1
    <2>1. Settled(h) BY <1>1, <1>4 DEF NodeInv
    <2>2. ASSUME Working(t, h)' PROVE tx'[t].stage[PartOf[h]] # 1
      <3>1. CASE PartOf[h] = PartOf[it.key]
        <4>1. ~Working(t, h) BY <3>1 DEF Elsewhere
        <4> QED BY <2>2, <3>1, <4>1, InstallFields
      <3>2. CASE PartOf[h] # PartOf[it.key]
        BY <1>1, <2>1, <2>2, <3>2 DEF Elsewhere, Settled
      <3> QED BY <3>1, <3>2
    <2>3. \A u \in Tx : Working(u, h)' => tx'[u].stage[PartOf[h]] # 1
      BY <1>1, <1>3, <2>1, <2>2 DEF Settled
    <2>4. Chain(h, Len(log[h]) - 1)' BY <1>1, <1>2, <2>1 DEF Settled
    <2>5. Settled(h)' BY <1>1, <1>2, <2>1, <2>3, <2>4 DEF Settled
    <2> QED BY <1>1, <1>4, <2>5 DEF NodeInv
  <1>5. CASE node[h].seq = 1
    <2>1. PICK u \in Tx : Changing(h, u) \/ Hidden(h, u) BY <1>1, <1>5 DEF NodeInv
    <2>2. Working(u, h)' BY <1>3, <2>1 DEF Changing, Hidden, Elsewhere
    <2>3. tx'[u].stage[PartOf[h]] = tx[u].stage[PartOf[h]]
      BY <1>1, <2>1 DEF Changing, Hidden, Elsewhere
    <2>4. CASE Changing(h, u)
      <3>1. Chain(h, Len(log[h]))' BY <1>1, <1>2, <2>4 DEF Changing
      <3>2. Changing(h, u)' BY <1>1, <2>2, <2>3, <2>4, <3>1 DEF Changing
      <3> QED BY <1>1, <1>5, <3>2 DEF NodeInv
    <2>5. CASE Hidden(h, u)
      <3>1. Chain(h, Len(log[h]) - 1)' BY <1>1, <1>2, <2>5 DEF Hidden
      <3>2. Hidden(h, u)' BY <1>1, <2>2, <2>3, <2>5, <3>1 DEF Hidden
      <3> QED BY <1>1, <1>5, <3>2 DEF NodeInv
    <2> QED BY <2>1, <2>4, <2>5
  <1> QED BY <1>4, <1>5

\* The record of the item, before the step.
LEMMA TargetNode ==
  ASSUME HistInv, NEW t \in Tx, NEW it, Target(t, it)
  PROVE  /\ tx[t].stage[PartOf[it.key]] = 1 =>
              /\ node[it.key].seq = 1 /\ node[it.key].value \in {Null, t}
              /\ Chain(it.key, Len(log[it.key]))
         /\ tx[t].stage[PartOf[it.key]] # 1 => \/ node[it.key].seq # 1 /\ Settled(it.key)
                                               \/ node[it.key].seq = 1 /\ Hidden(it.key, t)
         /\ tx[t].stage[PartOf[it.key]] # 2 => it.seq = TopVer(it.key)
  <1> DEFINE k == it.key
  <1>1. /\ k \in Key /\ Working(t, k) /\ node[k].lock = t /\ NodeInv(k)
    BY DEF Target, HistInv
  <1>2. LockInv /\ Control(t) /\ Unique(t) /\ StillNewest(t)
    BY DEF HistInv, BooksInv, LockInv, Booked
  <1>5. ASSUME tx[t].stage[PartOf[k]] # 2 PROVE it.seq = TopVer(k)
    <2>1. CASE tx[t].pc = "commit"
      <3>1. tx[t].i \in LocalWrites(t) /\ k = tx[t].rwset[tx[t].i].key BY <1>1, <2>1 DEF Working
      <3>2. IsLocal(t, k) BY <1>2, <3>1 DEF Control, LocalWrites
      <3>3. PICK i \in LocalWrites(t) : it = tx[t].rwset[i]
        BY <1>2, <3>2 DEF Target, Wrote, Control, RemoteWrites
      <3>4. i = tx[t].i BY <1>2, <2>1, <3>1, <3>3 DEF Unique, Stamped
      <3>5. i \in Nat BY <1>2, <3>3, Fields DEF LocalWrites
      <3>6. i \in LocalFresh(t)
        BY <1>5, <2>1, <3>2, <3>3, <3>4, <3>5 DEF LocalFresh, LocalHeld, IsLocal
      <3> QED BY <1>2, <3>3, <3>6 DEF StillNewest
    <2>2. CASE tx[t].pc = "commit_remote"
      <3>1. PICK i \in tx[t].todo : NextAt(t, i) /\ k = tx[t].rset[i].key
        BY <1>1, <2>2 DEF Working
      <3>2. i \in RemoteWrites(t) /\ ~IsLocal(t, k) BY <1>2, <3>1, NextAtItem
      <3>3. PICK j \in RemoteWrites(t) : it = tx[t].rset[j]
        BY <1>2, <3>2 DEF Target, Wrote, Control, LocalWrites
      <3>4. j = i BY <1>2, <2>2, <3>1, <3>2, <3>3 DEF Unique, Stamped
      <3>5. i \in RemoteFresh(t)
        BY <1>5, <2>2, <3>1, <3>2 DEF RemoteFresh, RemoteHeld
      <3> QED BY <1>2, <3>3, <3>4, <3>5 DEF StillNewest
    <2> QED BY <1>1, <2>1, <2>2 DEF Working
  <1>3. CASE node[k].seq = 1
    <2>1. Changing(k, t) \/ Hidden(k, t) BY <1>1, <1>3 DEF NodeInv, Changing, Hidden
    <2>2. CASE Changing(k, t) BY <1>3, <1>5, <2>2 DEF Changing
    <2>3. CASE Hidden(k, t)
      <3>1. tx[t].stage[PartOf[k]] = 0 BY <2>3 DEF Hidden
      <3> QED BY <1>3, <1>5, <2>3, <3>1
    <2> QED BY <2>1, <2>2, <2>3
  <1>4. CASE node[k].seq # 1
    <2>1. Settled(k) BY <1>1, <1>4 DEF NodeInv
    <2> QED BY <1>1, <1>4, <1>5, <2>1 DEF Settled
  <1> QED BY <1>3, <1>4

\* The value switch links the version it replaces, or starts over.
LEMMA SwapChain ==
  ASSUME HistInv, NEW t \in Tx, NEW it, Target(t, it), SwapsAny(t, it)
  PROVE  /\ Chain(it.key, Len(log[it.key]))' /\ node'[it.key].seq = 1
         /\ node'[it.key].lock = t /\ node'[it.key].value \in {Null, t}
         /\ node[it.key].value # Null => Len(node'[it.key].old) = Len(node[it.key].old) + 1
         /\ it.kind # "del" => node'[it.key].value = t
  <1> DEFINE k == it.key
             n == Len(log[k])
             v == node[k].value
  <1>1. /\ k \in Key /\ node[k].lock = t /\ log[k] \in Seq(Version) /\ n \in Nat
        /\ node[k].old \in Seq(Version) /\ LockInv
    BY TopVersion DEF Target, HistInv, BooksInv
  <1>2. PICK ver : Swaps(t, it, ver) /\ (ver = it.seq \/ ver = node[k].seq)
    BY DEF SwapsAny
  <1>3. /\ log' = log /\ node'[k].seq = 1 /\ node'[k].lock = t
        /\ node'[k].value \in {Null, t} /\ tx[t].stage[PartOf[k]] = 0
        /\ node'[k].old = IF v = Null THEN <<>> ELSE <<[ver |-> ver, by |-> v]>> \o node[k].old
        /\ it.kind # "del" => node'[k].value = t
    BY <1>1, <1>2 DEF Swaps, NodeTo, StageTo
  <1>5. CASE v = Null BY <1>3, <1>5 DEF Chain
  <1>6. CASE v # Null
    <2>a. tx[t].stage[PartOf[k]] # 1 /\ tx[t].stage[PartOf[k]] # 2 BY <1>3
    <2>b. Settled(k) /\ it.seq = TopVer(k) BY <1>6, <2>a, TargetNode DEF Hidden
    <2>1. /\ ver = TopVer(k) /\ n > 0 /\ v = log[k][n].by /\ Chain(k, n - 1)
      BY <1>1, <1>2, <1>6, <2>b DEF Settled
    <2>2. log[k][n].ver = ver /\ log[k][n] \in Version BY <1>1, <2>1, TopVersion
    <2>3. log[k][n] = [ver |-> ver, by |-> v] BY <2>1, <2>2 DEF Version
    <2> DEFINE e == log[k][n]
    <2>4. node'[k].old = <<e>> \o node[k].old BY <1>3, <1>6, <2>3
    <2>5. e \in Version BY <2>2
    <2> HIDE DEF e
    <2>6. /\ Len(node'[k].old) = Len(node[k].old) + 1
          /\ node'[k].old[1] = e
          /\ \A j \in DOMAIN node'[k].old : j # 1 => j - 1 \in DOMAIN node[k].old /\ j \in Int
                /\ node'[k].old[j] = node[k].old[j - 1]
      BY <1>1, <2>4, <2>5
    <2>7. ASSUME NEW j \in DOMAIN node'[k].old
          PROVE  j <= n /\ node'[k].old[j] = log[k][n + 1 - j]
      <3>1. CASE j = 1
        <4>1. n + 1 - 1 = n BY <1>1
        <4> QED BY <1>1, <2>1, <2>6, <3>1, <4>1 DEF e
      <3>2. CASE j # 1
        <4>1. /\ j - 1 <= n - 1 /\ j \in Int
              /\ node'[k].old[j] = log[k][(n - 1) + 1 - (j - 1)]
          BY <2>1, <2>6, <3>2 DEF Chain
        <4>2. (n - 1) + 1 - (j - 1) = n + 1 - j BY <1>1, <4>1
        <4> QED BY <1>1, <4>1, <4>2
      <3> QED BY <3>1, <3>2
    <2> QED BY <1>3, <2>6, <2>7 DEF Chain
  <1> QED BY <1>5, <1>6

\* The history of k grows by one version, e.
Extended(k, e) ==
  /\ Len(log[k]) \in Nat /\ Len(log'[k]) = Len(log[k]) + 1 /\ log'[k] # <<>>
  /\ DOMAIN log'[k] = 1..(Len(log[k]) + 1) /\ DOMAIN log[k] = 1..Len(log[k])
  /\ \A j \in 1..Len(log[k]) : log'[k][j] = log[k][j]
  /\ log'[k][Len(log[k]) + 1] = e

\* A published version is the newest one, and the others stay where they are.
LEMMA PublishLog ==
  ASSUME BooksInv, NEW t \in Tx, NEW it, Target(t, it), Publishes(t, it)
  PROVE  /\ tx[t].stage[PartOf[it.key]] = 1 /\ node'[it.key].lock = t
         /\ node'[it.key].seq = tx[t].timestamp /\ tx[t].timestamp \in Nat
         /\ tx[t].timestamp >= 2
         /\ node'[it.key].value = node[it.key].value /\ node'[it.key].old = node[it.key].old
         /\ Extended(it.key, [ver |-> tx[t].timestamp, by |-> node[it.key].value])
         /\ \A h \in Key : h # it.key => log'[h] = log[h]
  <1> DEFINE k == it.key
             e == [ver |-> tx[t].timestamp, by |-> node[k].value]
  <1>1. LockInv /\ Times(t) /\ tx[t].pc # Idle /\ node[k].lock = t
    BY DEF BooksInv, Booked, Target, CommitPhase, Idle
  <1>2. /\ tx[t].stage[PartOf[k]] = 1 /\ node'[k].lock = t
        /\ node'[k].seq = tx[t].timestamp /\ node'[k].value = node[k].value
        /\ node'[k].old = node[k].old /\ log'[k] = Append(log[k], e)
        /\ \A h \in Key : h # k => log'[h] = log[h]
    BY <1>1 DEF Publishes, NodeTo
  <1>3. tx[t].timestamp \in Nat /\ tx[t].timestamp >= 2 BY <1>1, Fields DEF Times
  <1>4. k \in Key /\ log[k] \in Seq(Version) BY <1>1, TopVersion DEF Target
  <1>6. e \in Version BY <1>1, <1>3, <1>4, TopVersion DEF Version
  <1> HIDE DEF e
  <1>5. Extended(k, e) BY <1>2, <1>4, <1>6 DEF Extended
  <1> QED BY <1>2, <1>3, <1>5 DEF e

\* The record of the item, after the step.
LEMMA InstallNode ==
  ASSUME HistInv, NEW t \in Tx, NEW it, Target(t, it), InstallAt(t, it)
  PROVE  NodeInv(it.key)'
  <1> PICK k : k = it.key OBVIOUS
  <1>1. k \in Key /\ Working(t, k) /\ node[k].lock = t BY DEF Target
  <1>2. LockInv /\ BooksInv BY DEF HistInv, BooksInv
  <1>3. ASSUME NEW u \in Tx, u # t PROVE ~Working(u, k)'
    <2>1. tx'[u] = tx[u] BY <1>3, InstallFields DEF Alone
    <2> QED BY <1>1, <1>2, <1>3, <2>1, OtherViews, WorkingHolds
  <1>4. CASE SwapsAny(t, it) /\ \A h \in Key : Working(t, h)' <=> Working(t, h)
    <2>1. /\ node'[k].seq = 1 /\ node'[k].lock = t /\ node'[k].value \in {Null, t}
      BY <1>4, SwapChain
    <2>2. Chain(it.key, Len(log[it.key]))' BY <1>4, SwapChain
    <2>3. Chain(k, Len(log[k]))' BY <2>2 DEF Chain
    <2>4. tx'[t].stage[PartOf[k]] = 1 BY <1>4 DEF SwapsAny, Swaps, StageTo
    <2>5. Changing(k, t)' BY <1>1, <1>4, <2>1, <2>3, <2>4 DEF Changing
    <2> QED BY <2>1, <2>5 DEF NodeInv
  <1>5. CASE Publishes(t, it) /\ \A h \in Key : Working(t, h)' <=> Working(t, h)
    <2> DEFINE n == Len(log[k])
    <2>1. /\ tx[t].stage[PartOf[k]] = 1 /\ node'[k].seq = tx[t].timestamp
          /\ tx[t].timestamp \in Nat /\ tx[t].timestamp >= 2
          /\ node'[k].value = node[k].value /\ node'[k].old = node[k].old
          /\ n \in Nat /\ Len(log'[k]) = n + 1 /\ log'[k] # <<>>
          /\ \A j \in 1..n : log'[k][j] = log[k][j]
          /\ log'[k][n + 1].ver = tx[t].timestamp /\ log'[k][n + 1].by = node[k].value
      <3>1. /\ tx[t].stage[PartOf[k]] = 1 /\ node'[k].seq = tx[t].timestamp
            /\ tx[t].timestamp \in Nat /\ tx[t].timestamp >= 2
            /\ node'[k].value = node[k].value /\ node'[k].old = node[k].old
            /\ Extended(k, [ver |-> tx[t].timestamp, by |-> node[k].value])
        BY <1>2, <1>5, PublishLog
      <3> QED BY <3>1 DEF Extended
    <2>2. Chain(k, n) BY <2>1, TargetNode
    <2>3. TopVer(k)' = tx[t].timestamp BY <2>1 DEF TopVer
    <2>4. tx'[t].stage[PartOf[k]] = 2 BY <1>5 DEF Publishes, StageTo
    <2>5. Chain(k, Len(log[k]) - 1)'
      <3>1. Len(log'[k]) - 1 = n BY <2>1
      <3>2. ASSUME NEW j \in DOMAIN node[k].old
            PROVE  j <= n /\ node[k].old[j] = log'[k][n + 1 - j]
        <4>1. j \in Nat /\ 1 <= j
          <5>1. node[k].old \in Seq(Version) BY <1>1, <1>2, TopVersion
          <5> QED BY <5>1
        <4>2. j <= n /\ node[k].old[j] = log[k][n + 1 - j] BY <2>2 DEF Chain
        <4>3. n + 1 - j \in 1..n BY <2>1, <4>1, <4>2
        <4> QED BY <2>1, <4>2, <4>3
      <3> QED BY <2>1, <3>1, <3>2 DEF Chain
    <2>6. tx[t].timestamp # 1 /\ ~(Len(log'[k]) = 0) BY <2>1
    <2>7. Settled(k)' BY <1>3, <2>1, <2>3, <2>4, <2>5, <2>6 DEF Settled
    <2> QED BY <2>1, <2>6, <2>7 DEF NodeInv
  <1>7. CASE Hides(t, it) /\ \A h \in Key : Working(t, h)' <=> Working(t, h)
    <2>1. /\ tx[t].stage[PartOf[k]] = 0 /\ log' = log /\ node[k].value = Null
          /\ node[k].seq # 1 /\ node'[k].seq = 1 /\ node'[k].lock = t
          /\ node'[k].value = Null /\ node'[k].old = node[k].old
          /\ tx'[t].stage[PartOf[k]] = 0
      BY <1>1, <1>7 DEF Hides, NodeTo, StageTo
    <2>2. Settled(k) BY <2>1, TargetNode
    <2>3. Chain(k, Len(log[k]) - 1)' BY <2>1, <2>2 DEF Settled, Chain
    <2>4. Hidden(k, t)' BY <1>1, <1>7, <2>1, <2>3 DEF Hidden
    <2> QED BY <2>1, <2>4 DEF NodeInv
  <1>6. CASE UnlocksAny(t, it) /\ ~Working(t, it.key)'
    <2>1. PICK i, todo : Unlocks(t, it, i, todo) BY <1>6 DEF UnlocksAny
    <2>2. /\ tx[t].stage[PartOf[k]] = 2 /\ log' = log /\ node'[k].seq = node[k].seq
          /\ node'[k].value = node[k].value /\ node'[k].old = node[k].old
      BY <2>1 DEF Unlocks, NodeTo
    <2>3. node[k].seq # 1 /\ Settled(k)
      <3>1. ~Hidden(k, t) BY <2>2 DEF Hidden
      <3> QED BY <2>2, <3>1, TargetNode
    <2>4. TopVer(k)' = TopVer(k) BY <2>2 DEF TopVer
    <2>5. Chain(k, Len(log[k]) - 1)' BY <2>2, <2>3 DEF Settled, Chain
    <2>6. Settled(k)' BY <1>3, <1>6, <2>2, <2>3, <2>4, <2>5 DEF Settled
    <2> QED BY <2>2, <2>3, <2>6 DEF NodeInv
  <1> QED BY <1>4, <1>5, <1>6, <1>7 DEF InstallAt

\* The histories: t has not written the record before.
LEMMA NotYetWritten ==
  ASSUME HistInv, NEW t \in Tx, NEW it, Target(t, it), tx[t].stage[PartOf[it.key]] # 2,
         NEW j \in DOMAIN log[it.key]
  PROVE  log[it.key][j].by # t
BY ConstantAssumption DEF Target, HistInv, LogInv, Entry

\* The histories, after the step.
LEMMA InstallLog ==
  ASSUME HistInv, NEW t \in Tx, NEW it, Target(t, it), Elsewhere(t, it.key), InstallAt(t, it),
         NEW h \in Key
  PROVE  LogInv(h)'
  <1>1. LogInv(h) /\ t # NoTx /\ BooksInv /\ it.key \in Key /\ PartOf[h] \in Part
    BY ConstantAssumption DEF HistInv, Target
  <1>2. /\ tx'[t].pc \in Stamped /\ tx'[t].timestamp = tx[t].timestamp
        /\ \A u \in Tx : u # t => tx'[u] = tx[u] /\ (Working(u, h)' <=> Working(u, h))
    BY InstallFields, OtherViews DEF Target, CommitPhase, Stamped, Alone
  <1>3. CASE h # it.key
    <2>1. /\ log'[h] = log[h] /\ node'[h] = node[h]
          /\ \A p \in Part : p # PartOf[it.key] => tx'[t].stage[p] = tx[t].stage[p]
      BY <1>3, InstallFields
    <2>2. Working(t, h) => Working(t, h)' /\ tx'[t].stage[PartOf[h]] = tx[t].stage[PartOf[h]]
      BY <1>1, <1>3, <2>1 DEF Elsewhere
    <2> QED BY <1>2, <2>1, <2>2, SameLog
  <1>4. ASSUME h = it.key, NEW e, Entry(h, e), e.by # t PROVE Entry(h, e)'
    <2>1. node'[h].lock \in {node[h].lock, NoTx}
      BY <1>4 DEF InstallAt, Hides, SwapsAny, Swaps, Publishes, UnlocksAny, Unlocks, NodeTo
    <2> QED BY <1>2, <1>4, <2>1, ConstantAssumption DEF Entry
  <1>5. CASE h = it.key /\ (Hides(t, it) \/ SwapsAny(t, it))
    <2>1. log' = log /\ tx[t].stage[PartOf[h]] = 0 BY <1>5 DEF Hides, SwapsAny, Swaps
    <2>2. ASSUME NEW j \in DOMAIN log[h] PROVE Entry(h, log[h][j])'
      <3> PICK e : e = log[h][j] OBVIOUS
      <3>1. e.by # t /\ Entry(h, e) BY <1>1, <1>5, <2>1, NotYetWritten DEF LogInv
      <3>2. Entry(h, e)' BY <1>4, <1>5, <3>1
      <3> QED BY <2>1, <3>2 DEF Entry
    <2> QED BY <1>1, <2>1, <2>2 DEF LogInv
  <1>6. CASE h = it.key /\ UnlocksAny(t, it)
    <2>1. log' = log /\ node'[h].lock = NoTx
      BY <1>6 DEF UnlocksAny, Unlocks, NodeTo
    <2>2. ASSUME NEW j \in DOMAIN log[h] PROVE Entry(h, log[h][j])'
      <3> PICK e : e = log[h][j] OBVIOUS
      <3>1. Entry(h, e) BY <1>1 DEF LogInv
      <3>2. Entry(h, e)' BY <1>1, <1>2, <1>4, <1>6, <2>1, <3>1 DEF Entry
      <3> QED BY <2>1, <3>2 DEF Entry
    <2> QED BY <1>1, <2>1, <2>2 DEF LogInv
  <1>7. CASE h = it.key /\ Publishes(t, it) /\ \A k \in Key : Working(t, k)' <=> Working(t, k)
    <2> DEFINE n == Len(log[h])
    <2>1. Extended(h, [ver |-> tx[t].timestamp, by |-> node[h].value])
          /\ tx[t].timestamp >= 2 /\ tx[t].stage[PartOf[h]] = 1
      BY <1>1, <1>7, PublishLog
    <2>2. /\ n \in Nat /\ DOMAIN log'[h] = 1..(n + 1) /\ DOMAIN log[h] = 1..n
          /\ \A j \in 1..n : log'[h][j] = log[h][j]
          /\ log'[h][n + 1].ver = tx[t].timestamp /\ log'[h][n + 1].by = node[h].value
      BY <2>1 DEF Extended
    <2>3. \A j \in 1..n : log[h][j].by # t
      <3>1. tx[t].stage[PartOf[it.key]] # 2 /\ DOMAIN log[it.key] = 1..n BY <1>7, <2>1, <2>2
      <3>2. ASSUME NEW j \in DOMAIN log[it.key] PROVE log[it.key][j].by # t
        BY <3>1, NotYetWritten
      <3> QED BY <1>7, <3>1, <3>2
    <2>4. node[h].value \in {Null, t} BY <1>7, <2>1, TargetNode
    <2>5. \A i \in 1..(n + 1) : i \in 1..n \/ i = n + 1 BY <2>2
    <2>6. \A i, j \in DOMAIN log'[h] :
            log'[h][i].by = log'[h][j].by /\ log'[h][i].by # Null => i = j
      <3> SUFFICES ASSUME NEW i \in 1..(n + 1), NEW j \in 1..(n + 1),
                          log'[h][i].by = log'[h][j].by, log'[h][i].by # Null
                   PROVE  i = j
        BY <2>2
      <3>1. CASE i \in 1..n /\ j \in 1..n
        <4>1. log'[h][i] = log[h][i] /\ log'[h][j] = log[h][j] BY <2>2, <3>1
        <4>2. i \in DOMAIN log[h] /\ j \in DOMAIN log[h] BY <2>2, <3>1
        <4> QED BY <1>1, <4>1, <4>2 DEF LogInv
      <3>2. CASE i \in 1..n /\ j = n + 1
        <4>1. log'[h][i].by # t /\ log'[h][j].by \in {Null, t} BY <2>2, <2>3, <2>4, <3>2
        <4> QED BY <4>1
      <3>3. CASE i = n + 1 /\ j \in 1..n
        <4>1. log'[h][j].by # t /\ log'[h][i].by \in {Null, t} BY <2>2, <2>3, <2>4, <3>3
        <4> QED BY <4>1
      <3> QED BY <2>5, <3>1, <3>2, <3>3
    <2>7. Working(t, h)' /\ tx'[t].stage[PartOf[h]] = 2
      BY <1>7 DEF Publishes, StageTo, Target
    <2>8. ASSUME NEW j \in DOMAIN log'[h] PROVE Entry(h, log[h][j])'
      <3>1. CASE j = n + 1 BY <1>2, <2>1, <2>2, <2>4, <2>7, <3>1 DEF Entry
      <3>2. CASE j \in 1..n
        <4>1. PICK e : e = log[h][j] OBVIOUS
        <4>2. Entry(h, e) /\ log'[h][j] = e /\ e.by # t
          BY <1>1, <2>2, <2>3, <3>2, <4>1 DEF LogInv
        <4>3. Entry(h, e)' BY <1>4, <1>7, <4>2
        <4> QED BY <4>2, <4>3 DEF Entry
      <3> QED BY <2>2, <2>5, <3>1, <3>2
    <2> QED BY <2>6, <2>8 DEF LogInv
  <1> QED BY <1>3, <1>5, <1>6, <1>7 DEF InstallAt

\* The newest version of a record changes only by a publication.
LEMMA InstallTop ==
  ASSUME NEW t \in Tx, NEW it, Target(t, it), InstallAt(t, it), NEW h \in Key,
         h # it.key \/ ~Publishes(t, it)
  PROVE  log'[h] = log[h] /\ TopVer(h)' = TopVer(h)
  <1>1. log'[h] = log[h] BY InstallFields
  <1> QED BY <1>1 DEF TopVer

\* What is fresh is locked, so an install does not replace it.
LEMMA InstallNewest ==
  ASSUME HistInv, NEW t \in Tx, NEW it, Target(t, it), InstallAt(t, it), StillFresh(t, it),
         NEW u \in Tx
  PROVE  StillNewest(u)'
  <1>1. LockInv /\ Locks(u) /\ StillNewest(u) /\ node[it.key].lock = t
    BY DEF HistInv, BooksInv, LockInv, Target
  <1>2. /\ \A i \in LocalFresh(u) : i \in LocalHeld(u) /\ tx[u].rwset[i].key \in Key
        /\ \A i \in RemoteFresh(u) : i \in RemoteHeld(u) /\ tx[u].rset[i].key \in Key
    BY <1>1, Fields DEF LocalFresh, RemoteFresh, LocalHeld, RemoteHeld, LocalWrites, RemoteWrites
  <1>3. /\ tx'[u].rwset = tx[u].rwset /\ tx'[u].rset = tx[u].rset
        /\ \A i \in LocalFresh(u)' : /\ i \in LocalFresh(u)
                                     /\ Publishes(t, it) => tx[u].rwset[i].key # it.key
        /\ \A i \in RemoteFresh(u)' : /\ i \in RemoteFresh(u)
                                      /\ Publishes(t, it) => tx[u].rset[i].key # it.key
    <2>1. CASE u = t
      <3>1. SameItems(t) BY InstallFields
      <3> QED BY <2>1, <3>1 DEF StillFresh, SameItems
    <2>2. CASE u # t
      <3>1. tx'[u] = tx[u] BY <2>2, InstallFields DEF Alone
      <3>2. LocalFresh(u)' = LocalFresh(u) /\ RemoteFresh(u)' = RemoteFresh(u)
        BY <3>1, OtherViews
      <3>3. /\ \A i \in LocalFresh(u) : node[tx[u].rwset[i].key].lock = u
            /\ \A i \in RemoteFresh(u) : node[tx[u].rset[i].key].lock = u
        BY <1>1, <1>2 DEF Locks
      <3>4. /\ \A i \in LocalFresh(u) : tx[u].rwset[i].key # it.key
            /\ \A i \in RemoteFresh(u) : tx[u].rset[i].key # it.key
        BY <1>1, <2>2, <3>3
      <3> QED BY <3>1, <3>2, <3>4
    <2> QED BY <2>1, <2>2
  <1>4. ASSUME NEW i \in LocalFresh(u)' PROVE tx'[u].rwset[i].seq = TopVer(tx[u].rwset[i].key)'
    <2> PICK k : k = tx[u].rwset[i].key OBVIOUS
    <2>1. k \in Key /\ (k # it.key \/ ~Publishes(t, it)) /\ i \in LocalFresh(u)
      BY <1>2, <1>3, <1>4
    <2>2. tx[u].rwset[i].seq = TopVer(k) BY <1>1, <2>1 DEF StillNewest
    <2>3. TopVer(k)' = TopVer(k) BY <2>1, InstallTop
    <2>4. tx'[u].rwset = tx[u].rwset BY <1>3
    <2> QED BY <2>2, <2>3, <2>4 DEF TopVer
  <1>5. ASSUME NEW i \in RemoteFresh(u)' PROVE tx'[u].rset[i].seq = TopVer(tx[u].rset[i].key)'
    <2> PICK k : k = tx[u].rset[i].key OBVIOUS
    <2>1. k \in Key /\ (k # it.key \/ ~Publishes(t, it)) /\ i \in RemoteFresh(u)
      BY <1>2, <1>3, <1>5
    <2>2. tx[u].rset[i].seq = TopVer(k) BY <1>1, <2>1 DEF StillNewest
    <2>3. TopVer(k)' = TopVer(k) BY <2>1, InstallTop
    <2>4. tx'[u].rset = tx[u].rset BY <1>3
    <2> QED BY <2>2, <2>3, <2>4 DEF TopVer
  <1> QED BY <1>4, <1>5 DEF StillNewest

\* Every step keeps nodes and histories together.
LEMMA NextHist == ASSUME HistInv, [Next]_vars PROVE HistInv'
  <1>1. BooksInv /\ BooksInv' BY NextBooks DEF HistInv
  <1>2. ASSUME NEW t \in Tx, Step(t) \/ Drain(t)
        PROVE  (\A k \in Key : NodeInv(k)' /\ LogInv(k)') /\ (\A u \in Tx : StillNewest(u)')
    <2>1. Alone(t) /\ Preserved(t) BY <1>1, <1>2, StepKinds
    <2>2. CASE NoInstall(t) BY <2>1, <2>2, QuietHist
    <2>3. CASE Installs(t)
      <3>1. PICK it : Target(t, it) /\ Elsewhere(t, it.key) /\ InstallAt(t, it) /\ StillFresh(t, it)
        BY <1>1, <2>3, InstallItem
      <3>2. ASSUME NEW k \in Key PROVE NodeInv(k)'
        <4>1. CASE k = it.key
          <5>1. NodeInv(it.key)' BY <3>1, InstallNode
          <5> QED BY <4>1, <5>1
        <4> QED BY <3>1, <4>1, InstallOtherNode
      <3>3. \A k \in Key : LogInv(k)' BY <3>1, InstallLog
      <3>4. \A u \in Tx : StillNewest(u)' BY <3>1, InstallNewest
      <3> QED BY <3>2, <3>3, <3>4
    <2>4. CASE Drains(t)
      <3>1. \A u \in Tx : SameItems(u) /\ SameEnd(u) /\ tx'[u].pc = tx[u].pc
        BY <2>1, <2>4, OtherViews DEF Drains, Alone
      <3> QED BY <2>4, <3>1, CalmHist DEF Drains
    <2> QED BY <1>1, <1>2, <2>2, <2>3, <2>4, StepKinds
  <1>3. ASSUME UNCHANGED vars
        PROVE  (\A k \in Key : NodeInv(k)' /\ LogInv(k)') /\ (\A u \in Tx : StillNewest(u)')
    <2>1. \A u \in Tx : SameItems(u) /\ SameEnd(u) /\ tx'[u].pc = tx[u].pc
      BY <1>3 DEF vars, SameItems, SameEnd
    <2>2. SameVersions /\ \A k \in Key : node'[k].lock = node[k].lock
      BY <1>3 DEF vars, SameVersions
    <2> QED BY <2>1, <2>2, CalmHist
  <1>4. (\A k \in Key : NodeInv(k)' /\ LogInv(k)') /\ (\A u \in Tx : StillNewest(u)')
    BY <1>2, <1>3 DEF Next, Terminated
  <1> QED BY <1>1, <1>4 DEF HistInv

\* The loader leaves one version, or none.
LEMMA InitHist == ASSUME Init PROVE HistInv
  <1>1. BooksInv BY InitBooks
  <1>2. \A t \in Tx : tx[t].pc = Idle BY DEF Init
  <1>3. \A t \in Tx : LocalFresh(t) = {} /\ RemoteFresh(t) = {} /\ \A k \in Key : ~Working(t, k)
    BY <1>2 DEF LocalFresh, RemoteFresh, LocalHeld, RemoteHeld, Working, Idle
  <1>4. ASSUME NEW k \in Key PROVE NodeInv(k) /\ LogInv(k)
    <2>1. CASE k \in Absent
      <3>1. /\ node[k].seq = 0 /\ node[k].value = Null /\ node[k].old = <<>> /\ log[k] = <<>>
        BY <2>1 DEF Init
      <3> QED BY <1>3, <3>1 DEF NodeInv, Settled, Chain, TopVer, LogInv
    <2>2. CASE k \notin Absent
      <3>1. /\ node[k].seq = 2 /\ node[k].value = Loaded /\ node[k].old = <<>>
            /\ log[k] = <<[ver |-> 2, by |-> Loaded]>>
        BY <2>2 DEF Init
      <3>2. /\ Len(log[k]) = 1 /\ DOMAIN log[k] = {1} /\ log[k] # <<>>
            /\ log[k][1] = [ver |-> 2, by |-> Loaded]
        BY <3>1
      <3>3. NodeInv(k) BY <1>3, <3>1, <3>2 DEF NodeInv, Settled, Chain, TopVer
      <3>4. LogInv(k) BY <3>2 DEF LogInv, Entry
      <3> QED BY <3>3, <3>4
    <2> QED BY <2>1, <2>2
  <1> QED BY <1>1, <1>3, <1>4 DEF HistInv, StillNewest

\* Nodes and histories belong together, in every reachable state.
THEOREM HistInvariance == Spec => []HistInv
  <1>1. Init => HistInv BY InitHist
  <1>2. HistInv /\ [Next]_vars => HistInv' BY NextHist
  <1> QED BY <1>1, <1>2, PTL DEF Spec

-----------------------------------------------------------------------------
(* Versions.                                                                 *)

\* A step changes no version, or it is a step of an install.
AtTarget(t, it) ==
  Target(t, it) /\ Elsewhere(t, it.key) /\ InstallAt(t, it) /\ StillFresh(t, it)
LEMMA NextVersions ==
  ASSUME BooksInv, [Next]_vars
  PROVE  SameVersions \/ \E t \in Tx : \E it : AtTarget(t, it)
  <1>1. CASE UNCHANGED vars BY <1>1 DEF vars, SameVersions
  <1>2. ASSUME NEW t \in Tx, Step(t) \/ Drain(t)
        PROVE  SameVersions \/ \E it : AtTarget(t, it)
    BY <1>2, StepKinds, InstallItem DEF NoInstall, Drains, AtTarget
  <1> QED BY <1>1, <1>2 DEF Next, Terminated

\* The commit timestamp against the version it replaces: get(), write() and
\* delete_() have raised it to what they read and end() has added one; of the
\* sequence numbers of remote items it is the maximum.
LEMMA PublishAbove ==
  ASSUME HistInv, NEW t \in Tx, NEW it, Target(t, it), Publishes(t, it)
  PROVE  /\ it.key \in Ordered => TopVer(it.key) <= tx[t].timestamp
         /\ it.key \in Strict => TopVer(it.key) < tx[t].timestamp
  <1>1. /\ LockInv /\ Planned(t) /\ Times(t) /\ Control(t) /\ BooksInv
        /\ tx[t].pc \in Stamped /\ it.w
    BY DEF HistInv, BooksInv, Booked, LockInv, Target, CommitPhase, Stamped
  <1>2. it.seq = TopVer(it.key) /\ tx[t].timestamp \in Nat /\ it.seq \in Nat
    <2>1. tx[t].stage[PartOf[it.key]] # 2 /\ tx[t].timestamp \in Nat
      BY <1>1, Fields DEF Publishes
    <2>2. it.seq \in Nat BY DEF Target, Item
    <2> QED BY <2>1, <2>2, TargetNode
  <1>3. CASE \E i \in LocalWrites(t) : it = tx[t].rwset[i]
    <2>1. PICK i \in LocalWrites(t) : it = tx[t].rwset[i] BY <1>3
    <2>2. i \in DOMAIN tx[t].rwset /\ IsLocal(t, it.key) /\ Does(t, it.key, it.kind)
      BY <1>1, <2>1 DEF LocalWrites, Control, Planned
    <2>3. it.kind # "ins" => it.seq < tx[t].timestamp BY <1>1, <1>2, <2>1, <2>2 DEF Times
    <2>4. it.key \in Ordered => it.kind # "ins" BY <2>2 DEF Ordered
    <2> QED BY <1>2, <2>3, <2>4 DEF Strict
  <1>4. CASE \E i \in RemoteWrites(t) : it = tx[t].rset[i]
    <2>1. PICK i \in RemoteWrites(t) : it = tx[t].rset[i] BY <1>4
    <2>2. i \in DOMAIN tx[t].rset /\ ~IsLocal(t, it.key) /\ Does(t, it.key, it.kind)
      BY <1>1, <2>1 DEF RemoteWrites, Control, Planned
    <2>3. tx[t].timestamp >= it.seq BY <1>1, <2>1, <2>2 DEF Times
    <2>4. it.kind = "upd" \/ it.kind = "ins"
      <3>1. it.kind # "get" /\ it.kind # "del" /\ it.kind # "ro"
        BY <1>1, <2>1, <2>2 DEF Planned
      <3>2. it.kind \in Kind BY DEF Target, Item
      <3> QED BY <3>1, <3>2 DEF Kind
    <2>5. it.key \notin Strict BY <2>2, <2>4 DEF Strict
    <2> QED BY <1>2, <2>3, <2>5
  <1> QED BY <1>3, <1>4 DEF Target, Wrote

\* Where the newest version is the largest, a larger one keeps the order.
LEMMA InOrderTop ==
  ASSUME LockInv, NEW k \in Key, InOrder(k), NEW j \in DOMAIN log[k]
  PROVE  log[k][j].ver <= TopVer(k)
  <1>1. /\ DOMAIN log[k] = 1..Len(log[k]) /\ Len(log[k]) \in Nat
        /\ \A i \in DOMAIN log[k] : log[k][i].ver \in Nat
    BY TopVersion
  <1>2. Len(log[k]) > 0 BY <1>1
  <1>3. TopVer(k) = log[k][Len(log[k])].ver /\ Len(log[k]) \in DOMAIN log[k] BY <1>2, TopVersion
  <1>4. CASE j = Len(log[k]) BY <1>1, <1>3, <1>4
  <1>5. CASE j # Len(log[k])
    <2>1. j < Len(log[k]) BY <1>1, <1>5
    <2> QED BY <1>3, <2>1 DEF InOrder
  <1> QED BY <1>4, <1>5

\* A history that grows by one version.
LEMMA PublishOrder ==
  ASSUME LockInv, NEW k \in Key, NEW e, Extended(k, e), InOrder(k)
  PROVE  /\ e.ver \in Nat /\ e.ver >= TopVer(k) => InOrder(k)'
         /\ e.ver \in Nat /\ e.ver > TopVer(k) /\ Grows(k) => Grows(k)'
  <1> DEFINE n == Len(log[k])
  <1>1. /\ n \in Nat /\ DOMAIN log'[k] = 1..(n + 1) /\ DOMAIN log[k] = 1..n
        /\ \A j \in 1..n : log'[k][j] = log[k][j]
        /\ log'[k][n + 1] = e
    BY DEF Extended
  <1>2. \A j \in 1..n : log[k][j].ver <= TopVer(k) /\ log[k][j].ver \in Nat
    BY <1>1, InOrderTop, TopVersion
  <1>3. TopVer(k) \in Nat BY TopVersion
  <1>4. \A i, j \in 1..(n + 1) : i < j => i \in 1..n /\ (j \in 1..n \/ j = n + 1) BY <1>1
  <1>5. ASSUME e.ver \in Nat, e.ver >= TopVer(k), NEW i \in 1..(n + 1), NEW j \in 1..(n + 1), i < j
        PROVE  log'[k][i].ver <= log'[k][j].ver
    <2>1. i \in 1..n /\ (j \in 1..n \/ j = n + 1) BY <1>4, <1>5
    <2>2. CASE j \in 1..n BY <1>1, <1>5, <2>1, <2>2 DEF InOrder
    <2>3. CASE j = n + 1
      <3>1. log[k][i].ver <= TopVer(k) /\ log[k][i].ver \in Nat /\ log'[k][i] = log[k][i]
        BY <1>1, <1>2, <2>1
      <3> QED BY <1>1, <1>3, <1>5, <2>3, <3>1
    <2> QED BY <2>1, <2>2, <2>3
  <1>6. ASSUME e.ver \in Nat, e.ver > TopVer(k), Grows(k), NEW i \in 1..(n + 1),
               NEW j \in 1..(n + 1), i < j
        PROVE  log'[k][i].ver < log'[k][j].ver
    <2>1. i \in 1..n /\ (j \in 1..n \/ j = n + 1) BY <1>4, <1>6
    <2>2. CASE j \in 1..n BY <1>1, <1>6, <2>1, <2>2 DEF Grows
    <2>3. CASE j = n + 1
      <3>1. log[k][i].ver <= TopVer(k) /\ log[k][i].ver \in Nat /\ log'[k][i] = log[k][i]
        BY <1>1, <1>2, <2>1
      <3> QED BY <1>1, <1>3, <1>6, <2>3, <3>1
    <2> QED BY <2>1, <2>2, <2>3
  <1> QED BY <1>1, <1>5, <1>6 DEF InOrder, Grows

\* A record that is never deleted keeps its history through an install.
LEMMA InstallWhole ==
  ASSUME HistInv, NEW t \in Tx, NEW it, AtTarget(t, it), it.key \in Intact, Whole(it.key)
  PROVE  Whole(it.key)'
  <1> PICK k : k = it.key OBVIOUS
  <1>1. /\ k \in Key /\ Target(t, it) /\ InstallAt(t, it) /\ LockInv /\ BooksInv /\ Planned(t)
    BY DEF AtTarget, Target, HistInv, BooksInv, Booked
  <1>2. it.kind # "del"
    BY <1>1 DEF Target, Wrote, Planned, LocalWrites, RemoteWrites, Intact
  <1>3. /\ Len(log[k]) \in Nat /\ Len(node[k].old) \in Nat /\ t # Null
    BY <1>1, TopVersion, ConstantAssumption
  <1>4. CASE SwapsAny(t, it)
    <2>1. log' = log /\ tx[t].stage[PartOf[it.key]] = 0 BY <1>4 DEF SwapsAny, Swaps
    <2>2. node[it.key].seq # 1 /\ Settled(it.key)
      <3>1. ~(node[it.key].seq = 1 /\ Hidden(it.key, t)) BY DEF Whole, Hidden
      <3> QED BY <1>1, <2>1, <3>1, TargetNode
    <2>3. Len(log[it.key]) > 0 /\ Len(log[it.key]) \in DOMAIN log[it.key]
      BY <1>1, TopVersion DEF Whole
    <2>4. node[it.key].value # Null BY <2>2, <2>3 DEF Settled, Whole
    <2>5. /\ node'[it.key].seq = 1 /\ node'[it.key].value = t
          /\ Len(node'[it.key].old) = Len(node[it.key].old) + 1
      BY <1>1, <1>2, <1>4, <2>4, SwapChain
    <2> QED BY <1>3, <2>1, <2>2, <2>5 DEF Whole
  <1>5. CASE Publishes(t, it)
    <2>1. /\ tx[t].stage[PartOf[k]] = 1 /\ node'[k].seq = tx[t].timestamp
          /\ tx[t].timestamp >= 2 /\ tx[t].timestamp \in Nat /\ node'[k].old = node[k].old
          /\ Extended(k, [ver |-> tx[t].timestamp, by |-> node[k].value])
      BY <1>1, <1>5, PublishLog
    <2>2. node[k].seq = 1 BY <1>1, <2>1, TargetNode
    <2>3. Len(node[k].old) = Len(log[k]) /\ node[k].value # Null BY <2>2 DEF Whole
    <2> DEFINE n == Len(log[k])
    <2>4. /\ n \in Nat /\ DOMAIN log'[k] = 1..(n + 1) /\ DOMAIN log[k] = 1..n
          /\ \A j \in 1..n : log'[k][j] = log[k][j] /\ Len(log'[k]) = n + 1
          /\ log'[k][n + 1].by = node[k].value
      BY <2>1 DEF Extended
    <2>5. ASSUME NEW j \in DOMAIN log'[k] PROVE log'[k][j].by # Null
      <3>1. CASE j = n + 1 BY <2>3, <2>4, <3>1
      <3>2. CASE j \in 1..n BY <2>4, <3>2 DEF Whole
      <3>3. j \in 1..n \/ j = n + 1 BY <2>4
      <3> QED BY <3>1, <3>2, <3>3
    <2>6. Len(log'[k]) = n + 1 BY <2>1 DEF Extended
    <2>7. node'[k].seq # 1 /\ Len(log'[k]) > 0 /\ Len(node'[k].old) + 1 = Len(log'[k])
      BY <2>1, <2>3, <2>4, <2>6
    <2>8. Whole(k)' BY <2>5, <2>7 DEF Whole
    <2> QED BY <2>8 DEF Whole
  <1>6. CASE UnlocksAny(t, it)
    BY <1>1, <1>6 DEF UnlocksAny, Unlocks, NodeTo, Whole
  <1>7. CASE Hides(t, it)
    <2>1. Settled(it.key) /\ node[it.key].value = Null BY <1>1, <1>7, TargetNode DEF Hides
    <2>2. Len(log[it.key]) > 0 /\ Len(log[it.key]) \in DOMAIN log[it.key]
      BY <1>1, TopVersion DEF Whole
    <2> QED BY <2>1, <2>2 DEF Settled, Whole
  <1> QED BY <1>1, <1>4, <1>5, <1>6, <1>7 DEF InstallAt

\* Every step keeps the order of the versions and the histories.
LEMMA NextOrder == ASSUME OrderInv, [Next]_vars PROVE OrderInv'
  <1>1. HistInv /\ HistInv' /\ BooksInv /\ LockInv BY NextHist DEF OrderInv, HistInv, BooksInv
  <1>2. CASE SameVersions
    BY <1>1, <1>2 DEF OrderInv, SameVersions, InOrder, Grows, Whole, Ordered, Strict, Intact
  <1>3. ASSUME NEW t \in Tx, NEW it, AtTarget(t, it) PROVE OrderInv'
    <2>1. Target(t, it) /\ InstallAt(t, it) /\ it.key \in Key BY <1>3 DEF AtTarget, Target
    <2>2. ASSUME NEW h \in Key, h # it.key
          PROVE  /\ InOrder(h) => InOrder(h)' /\ (Grows(h) => Grows(h)')
                 /\ Whole(h) => Whole(h)'
      <3>1. node'[h] = node[h] /\ log'[h] = log[h] BY <2>1, <2>2, InstallFields
      <3> QED BY <3>1 DEF InOrder, Grows, Whole
    <2> PICK k : k = it.key OBVIOUS
    <2>3. /\ k \in Ordered /\ InOrder(k) => InOrder(k)'
          /\ k \in Strict /\ InOrder(k) /\ Grows(k) => Grows(k)'
      <3>1. CASE Publishes(t, it)
        <4> PICK e : e = [ver |-> tx[t].timestamp, by |-> node[k].value] OBVIOUS
        <4>1. Extended(k, e) /\ e.ver = tx[t].timestamp /\ e.ver \in Nat
          BY <1>1, <2>1, <3>1, PublishLog
        <4>2. TopVer(k) \in Nat BY <1>1, <2>1, TopVersion
        <4>3. /\ k \in Ordered => e.ver >= TopVer(k)
              /\ k \in Strict => e.ver > TopVer(k)
          BY <1>1, <2>1, <3>1, <4>1, <4>2, PublishAbove
        <4> QED BY <1>1, <2>1, <4>1, <4>3, PublishOrder
      <3>2. CASE ~Publishes(t, it)
        <4>1. log'[k] = log[k] BY <2>1, <3>2, InstallTop
        <4> QED BY <4>1 DEF InOrder, Grows
      <3> QED BY <3>1, <3>2
    <2>4. k \in Intact /\ Whole(k) => Whole(k)'
      <3>1. ASSUME it.key \in Intact, Whole(it.key) PROVE Whole(it.key)'
        BY <1>1, <1>3, <3>1, InstallWhole
      <3> QED BY <3>1 DEF Whole
    <2>5. ASSUME NEW h \in Ordered PROVE InOrder(h)'
      BY <2>2, <2>3 DEF OrderInv, Ordered
    <2>6. ASSUME NEW h \in Strict PROVE Grows(h)'
      BY <2>2, <2>3 DEF OrderInv, Strict, Ordered
    <2>7. ASSUME NEW h \in Intact PROVE Whole(h)'
      BY <2>2, <2>4 DEF OrderInv, Intact
    <2> QED BY <1>1, <2>5, <2>6, <2>7 DEF OrderInv, Ordered, Strict, Intact, Does, IsLocal
  <1> QED BY <1>1, <1>2, <1>3, NextVersions

\* No history is out of order at the start.
LEMMA InitOrder == ASSUME Init PROVE OrderInv
  <1>1. ASSUME NEW k \in Key PROVE InOrder(k) /\ Grows(k) /\ (k \in Intact => Whole(k))
    <2>1. CASE k \in Absent
      <3>1. log[k] = <<>> BY <2>1 DEF Init
      <3> QED BY <2>1, <3>1 DEF InOrder, Grows, Intact
    <2>2. CASE k \notin Absent
      <3>1. /\ node[k].seq = 2 /\ node[k].old = <<>>
            /\ log[k] = <<[ver |-> 2, by |-> Loaded]>>
        BY <2>2 DEF Init
      <3>2. Len(log[k]) = 1 /\ DOMAIN log[k] = {1} /\ log[k][1].by = Loaded
        BY <3>1
      <3> QED BY <3>1, <3>2, ConstantAssumption DEF InOrder, Grows, Whole
    <2> QED BY <2>1, <2>2
  <1> QED BY <1>1, InitHist DEF OrderInv, Ordered, Strict, Intact

\* Order and histories, in every reachable state.
THEOREM OrderInvariance == Spec => []OrderInv
  <1>1. Init => OrderInv BY InitOrder
  <1>2. OrderInv /\ [Next]_vars => OrderInv' BY NextOrder
  <1> QED BY <1>1, <1>2, PTL DEF Spec

\* No version carries a smaller timestamp than the one it replaces, for records
\* that are not inserted at their own machine.
THEOREM NotShrinking ==
  ASSUME Ordered = Key PROVE Spec => []VersionsDoNotShrink
  <1>1. ASSUME OrderInv PROVE VersionsDoNotShrink
    <2>1. SUFFICES ASSUME NEW k \in Key, NEW j \in 2..Len(log[k])
                   PROVE  log[k][j - 1].ver <= log[k][j].ver
      BY DEF VersionsDoNotShrink
    <2>2. InOrder(k) /\ DOMAIN log[k] = 1..Len(log[k]) /\ Len(log[k]) \in Nat
      BY <1>1, TopVersion DEF OrderInv, HistInv, BooksInv
    <2>3. j - 1 \in DOMAIN log[k] /\ j \in DOMAIN log[k] /\ j - 1 < j BY <2>2
    <2> QED BY <2>2, <2>3 DEF InOrder
  <1> QED BY <1>1, OrderInvariance, PTL

\* The timestamps of versions increase, for records that only transactions of
\* their own machine update or delete.
THEOREM Growing ==
  ASSUME Strict = Key PROVE Spec => []VersionsGrow
  <1>1. ASSUME OrderInv PROVE VersionsGrow
    <2>1. SUFFICES ASSUME NEW k \in Key, NEW j \in 2..Len(log[k])
                   PROVE  log[k][j - 1].ver < log[k][j].ver
      BY DEF VersionsGrow
    <2>2. Grows(k) /\ DOMAIN log[k] = 1..Len(log[k]) /\ Len(log[k]) \in Nat
      BY <1>1, TopVersion DEF OrderInv, HistInv, BooksInv
    <2>3. j - 1 \in DOMAIN log[k] /\ j \in DOMAIN log[k] /\ j - 1 < j BY <2>2
    <2> QED BY <2>2, <2>3 DEF Grows
  <1> QED BY <1>1, OrderInvariance, PTL

\* A readable record links exactly its history, if it is never deleted.
THEOREM HistoryKept ==
  ASSUME Intact = Key PROVE Spec => []ChainIsHistory
  <1>1. ASSUME OrderInv PROVE ChainIsHistory
    <2>1. SUFFICES ASSUME NEW k \in Key, node[k].seq # 1
                   PROVE  /\ Len(node[k].old) + 1 = Len(log[k])
                          /\ log[k][Len(log[k])] = [ver |-> node[k].seq, by |-> node[k].value]
                          /\ \A j \in DOMAIN node[k].old :
                               node[k].old[j] = log[k][Len(log[k]) - j]
      BY DEF ChainIsHistory
    <2>2. Whole(k) /\ Settled(k) /\ LockInv
      BY <1>1, <2>1 DEF OrderInv, HistInv, BooksInv, NodeInv
    <2> DEFINE n == Len(log[k])
    <2>3. /\ n \in Nat /\ n > 0 /\ n \in DOMAIN log[k] /\ log[k][n] \in Version
          /\ TopVer(k) = log[k][n].ver
      BY <2>2, TopVersion DEF Whole
    <2>4. log[k][n].ver = node[k].seq /\ log[k][n].by = node[k].value
      BY <2>2, <2>3 DEF Settled
    <2>5. log[k][n] = [ver |-> node[k].seq, by |-> node[k].value]
      BY <2>3, <2>4 DEF Version
    <2>6. ASSUME NEW j \in DOMAIN node[k].old PROVE node[k].old[j] = log[k][n - j]
      <3>1. node[k].old[j] = log[k][(n - 1) + 1 - j] BY <2>2 DEF Settled, Chain
      <3>2. j \in Nat
        <4>1. node[k].old \in Seq(Version) BY <2>2, TopVersion
        <4> QED BY <4>1
      <3>3. (n - 1) + 1 - j = n - j BY <2>3, <3>2
      <3> QED BY <3>1, <3>3
    <2> QED BY <2>1, <2>2, <2>5, <2>6 DEF Whole
  <1> QED BY <1>1, OrderInvariance, PTL
=============================================================================
