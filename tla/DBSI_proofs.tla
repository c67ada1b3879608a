---------------------------- MODULE DBSI_proofs ----------------------------
(***************************************************************************)
(* Proofs about DBSI, for any number of records, transactions and machines *)
(* and any programs: the types, who holds which lock when, and which commit*)
(* timestamps are open.  DBSI_history_proofs builds on these.              *)
(*                                                                         *)
(* The first part states what each action does to the transaction that     *)
(* takes it, field by field (the lemmas ...Effect); everything after it    *)
(* reasons about fields only.                                              *)
(***************************************************************************)
EXTENDS DBSI, FiniteSetTheorems, TLAPS

\* The phases of execution, and those that wait for replies.
ReadPhase == {"exec", "val", "chk", "old", "ochk"}
RpcPhase  == {"lock_remote", "commit_remote", "release_remote"}

\* The phases outside end().
Free == {"idle", "ro_done", "stopped"} \cup ReadPhase

\* The phases with a commit timestamp.
Stamped == {"commit", "commit_remote", "report", "committed"}

-----------------------------------------------------------------------------
(* What an action does to the transaction that takes it.                    *)

\* Only t's own state changes.
Alone(t) == /\ tx' \in [Tx -> TxState]
            /\ \A u \in Tx : u # t => tx'[u] = tx[u]

\* The fields that execution works on, and the fields that end() works on.
SameData(t) ==
  /\ tx'[t].prog = tx[t].prog /\ tx'[t].rwset = tx[t].rwset
  /\ tx'[t].rset = tx[t].rset /\ tx'[t].seq = tx[t].seq /\ tx'[t].val = tx[t].val
  /\ tx'[t].chain = tx[t].chain /\ tx'[t].snap = tx[t].snap
SameEnd(t) ==
  /\ tx'[t].current = tx[t].current /\ tx'[t].i = tx[t].i
  /\ tx'[t].todo = tx[t].todo /\ tx'[t].ok = tx[t].ok
  /\ tx'[t].swapped = tx[t].swapped /\ tx'[t].commit_ts = tx[t].commit_ts
SameClocks == UNCHANGED <<next, open, vec>>

\* The labels the actions assign are program counters.
LEMMA Phases ==
  /\ Free \subseteq PC /\ RpcPhase \subseteq PC /\ Stamped \subseteq PC
  /\ {"lock_all", "release_all", "aborted"} \subseteq PC
BY DEF Free, ReadPhase, RpcPhase, Stamped, PC, Finished

\* Become(t, x) changes the state of t to x and of nobody else.
LEMMA Becomes ==
  ASSUME SITypeOK, NEW t \in Tx, NEW x \in TxState, Become(t, x)
  PROVE  Alone(t) /\ tx'[t] = x
BY DEF Become, SITypeOK, Alone

\* The constant versions are versions.
LEMMA Versions == NoVer \in Ver /\ Busy \in Ver /\ First \in Ver
BY SIAssumption DEF NoVer, Busy, First, Ver

\* An unfinished program has a next operation on some record.
LEMMA Current ==
  ASSUME SITypeOK, NEW t \in Tx, tx[t].prog # <<>>
  PROVE  /\ tx[t] \in TxState /\ CurKey(t) \in Key /\ CurOp(t).kind \in Kind
         /\ Tail(tx[t].prog) \in Seq(Op) /\ node[CurKey(t)] \in MemNode
  <1>1. tx[t] \in TxState BY DEF SITypeOK
  <1>2. tx[t].prog \in Seq(Op) BY <1>1 DEF TxState
  <1>3. Head(tx[t].prog) \in Op BY <1>2
  <1>4. CurKey(t) \in Key /\ CurOp(t).kind \in Kind BY <1>3 DEF CurKey, CurOp, Op
  <1> QED BY <1>1, <1>2, <1>4 DEF SITypeOK

\* Got, by the three cases of its result: an entry of the snapshot, an item of
\* the rwset, an item of the remote set.
GotItem(t, s, v) == [key |-> CurKey(t), seq |-> s, by |-> v, kind |-> CurOp(t).kind,
                     w |-> CurOp(t).kind # "get"]
GotRead(t, s, v) == [key |-> CurKey(t), ver |-> s, by |-> v]
Gets(t, s, v) ==
  /\ Alone(t) /\ SameEnd(t) /\ tx'[t].prog = Tail(tx[t].prog)
  /\ \/ /\ CurOp(t).kind = "ro" /\ tx'[t].pc \in {"exec", "ro_done"}
        /\ tx'[t].snap = tx[t].snap \cup {GotRead(t, s, v)}
        /\ tx'[t].rwset = tx[t].rwset /\ tx'[t].rset = tx[t].rset
     \/ /\ CurOp(t).kind # "ro" /\ IsLocal(t, CurKey(t)) /\ tx'[t].pc = "exec"
        /\ tx'[t].rwset = Append(tx[t].rwset, GotItem(t, s, v))
        /\ tx'[t].rset = tx[t].rset /\ tx'[t].snap = tx[t].snap
     \/ /\ CurOp(t).kind # "ro" /\ ~IsLocal(t, CurKey(t)) /\ tx'[t].pc = "exec"
        /\ tx'[t].rset = Append(tx[t].rset, GotItem(t, s, v))
        /\ tx'[t].rwset = tx[t].rwset /\ tx'[t].snap = tx[t].snap

\* A read that ends (Got) adds exactly one entry to one of the three sets.
LEMMA GotEffect ==
  ASSUME SITypeOK, NEW t \in Tx, tx[t].prog # <<>>, NEW s \in Ver, NEW v \in Val,
         Become(t, Got(t, s, v))
  PROVE  Gets(t, s, v)
  <1> DEFINE it == GotItem(t, s, v)
             r == GotRead(t, s, v)
             a == [tx[t] EXCEPT !.pc = IF Len(tx[t].prog) = 1 THEN "ro_done" ELSE "exec",
                                !.prog = Tail(@), !.snap = @ \cup {r}]
             b == [tx[t] EXCEPT !.pc = "exec", !.prog = Tail(@), !.rwset = Append(@, it)]
             c == [tx[t] EXCEPT !.pc = "exec", !.prog = Tail(@), !.rset = Append(@, it)]
  <1>1. /\ tx[t] \in TxState /\ CurKey(t) \in Key /\ CurOp(t).kind \in Kind
        /\ Tail(tx[t].prog) \in Seq(Op)
    BY Current
  <1>2. it \in Item /\ r \in [key : Key, ver : Ver, by : Val]
    BY <1>1 DEF Item, GotItem, GotRead
  <1>3. \/ CurOp(t).kind = "ro" /\ Become(t, a)
        \/ CurOp(t).kind # "ro" /\ IsLocal(t, CurKey(t)) /\ Become(t, b)
        \/ CurOp(t).kind # "ro" /\ ~IsLocal(t, CurKey(t)) /\ Become(t, c)
    BY <1>1 DEF Got, GotItem, GotRead, TxState
  <1> HIDE DEF it, r
  <1>4. Append(tx[t].rwset, it) \in Seq(Item) /\ Append(tx[t].rset, it) \in Seq(Item)
    BY <1>1, <1>2 DEF TxState
  <1>5. tx[t].snap \cup {r} \in SUBSET [key : Key, ver : Ver, by : Val]
    BY <1>1, <1>2 DEF TxState
  <1>6. {"exec", "ro_done"} \subseteq PC BY Phases DEF Free, ReadPhase
  <1>7. CASE CurOp(t).kind = "ro" /\ Become(t, a)
    <2>1. a \in TxState BY <1>1, <1>5, <1>6 DEF TxState
    <2>2. Alone(t) /\ tx'[t] = a BY <1>7, <2>1, Becomes
    <2> QED BY <1>1, <1>7, <2>2 DEF Gets, SameEnd, TxState, r
  <1>8. CASE CurOp(t).kind # "ro" /\ IsLocal(t, CurKey(t)) /\ Become(t, b)
    <2>1. b \in TxState BY <1>1, <1>4, <1>6 DEF TxState
    <2>2. Alone(t) /\ tx'[t] = b BY <1>8, <2>1, Becomes
    <2> QED BY <1>1, <1>8, <2>2 DEF Gets, SameEnd, TxState, it
  <1>9. CASE CurOp(t).kind # "ro" /\ ~IsLocal(t, CurKey(t)) /\ Become(t, c)
    <2>1. c \in TxState BY <1>1, <1>4, <1>6 DEF TxState
    <2>2. Alone(t) /\ tx'[t] = c BY <1>9, <2>1, Becomes
    <2> QED BY <1>1, <1>9, <2>2 DEF Gets, SameEnd, TxState, it
  <1> HIDE DEF a, b, c
  <1> QED BY <1>3, <1>7, <1>8, <1>9

\* A step of a read that adds nothing to the sets or to the snapshot.
Loads(t) == /\ Alone(t) /\ SameEnd(t) /\ tx'[t].rwset = tx[t].rwset
            /\ tx'[t].rset = tx[t].rset /\ tx'[t].snap = tx[t].snap

\* get(), first access: only pc and seq change, seq to the number found.
LEMMA ReadSeqEffect ==
  ASSUME SITypeOK, NEW t \in Tx, ReadSeq(t)
  PROVE  \/ /\ CurOp(t).kind = "ro" /\ node[CurKey(t)].seq = NoVer
            /\ Gets(t, Busy, Null)
         \/ /\ Loads(t) /\ tx'[t].prog = tx[t].prog
            /\ CurOp(t).kind # "ro" \/ node[CurKey(t)].seq # NoVer
            /\ tx'[t].seq = node[CurKey(t)].seq
            /\ tx'[t].pc = IF ReadsNewest(t) \/ Sees(t, node[CurKey(t)].seq)
                           THEN "val" ELSE "old"
  <1> DEFINE s == node[CurKey(t)].seq
             p == IF ReadsNewest(t) \/ Sees(t, s) THEN "val" ELSE "old"
             x == [tx[t] EXCEPT !.seq = s, !.pc = p]
  <1>1. tx[t].prog # <<>> BY DEF ReadSeq
  <1>2. tx[t] \in TxState /\ s \in Ver BY <1>1, Current DEF MemNode
  <1>3. CASE CurOp(t).kind = "ro" /\ s = NoVer /\ Become(t, Got(t, Busy, Null))
    <2>1. Null \in Val BY DEF Val
    <2> QED BY <1>1, <1>3, <2>1, GotEffect, Versions
  <1>4. CASE (CurOp(t).kind # "ro" \/ s # NoVer) /\ Become(t, x)
    <2>1. p \in PC BY Phases DEF Free, ReadPhase
    <2> HIDE DEF p, s
    <2>2. x \in TxState BY <1>2, <2>1 DEF TxState
    <2>3. Alone(t) /\ tx'[t] = x BY <1>4, <2>2, Becomes
    <2> QED BY <1>2, <1>4, <2>3 DEF Loads, SameEnd, TxState, s, p
  <1> QED BY <1>3, <1>4 DEF ReadSeq

\* Second access: the value is remembered, or the operation is over.
LEMMA ReadValueEffect ==
  ASSUME SITypeOK, NEW t \in Tx, ReadValue(t), tx[t].prog # <<>>
  PROVE  /\ Loads(t) /\ tx'[t].seq = tx[t].seq
         /\ \/ /\ tx'[t].pc = "chk" /\ tx'[t].prog = tx[t].prog
               /\ tx'[t].val = node[CurKey(t)].value
               /\ tx'[t].val # Null \/ ReadsNewest(t)
            \/ /\ tx'[t].pc = "exec" /\ tx'[t].prog = Tail(tx[t].prog)
               /\ CurOp(t).kind # "ro"
            \/ tx'[t].pc = "stopped" /\ tx'[t].prog = tx[t].prog
  <1> DEFINE v == node[CurKey(t)].value
             x == [tx[t] EXCEPT !.pc = "chk", !.val = v]
             y == [tx[t] EXCEPT !.pc = "exec", !.prog = Tail(@)]
             z == [tx[t] EXCEPT !.pc = "stopped"]
  <1>1. tx[t] \in TxState /\ v \in Val /\ Tail(tx[t].prog) \in Seq(Op)
    BY Current DEF MemNode
  <1>2. {"chk", "exec", "stopped"} \subseteq PC BY Phases DEF Free, ReadPhase
  <1>3. \/ (v # Null \/ ReadsNewest(t)) /\ Become(t, x)
        \/ CurOp(t).kind # "ro" /\ Become(t, y)
        \/ Become(t, z)
    BY DEF ReadValue
  <1> HIDE DEF v
  <1>4. x \in TxState /\ y \in TxState /\ z \in TxState BY <1>1, <1>2 DEF TxState
  <1>5. Alone(t) /\ (\/ tx'[t] = x /\ (v # Null \/ ReadsNewest(t))
                     \/ (tx'[t] = y /\ CurOp(t).kind # "ro") \/ tx'[t] = z)
    <2> HIDE DEF x, y, z
    <2> QED BY <1>3, <1>4, Becomes
  <1> QED BY <1>1, <1>5 DEF Loads, SameEnd, TxState, v

\* Third access: back to the start, on to the old versions, or done.
LEMMA ReadCheckEffect ==
  ASSUME SITypeOK, NEW t \in Tx, ReadCheck(t), tx[t].prog # <<>>
  PROVE  \/ Loads(t) /\ tx'[t].pc = "exec" /\ tx'[t].prog = tx[t].prog
         \/ /\ tx[t].seq # Busy /\ node[CurKey(t)].seq = tx[t].seq
            /\ Gets(t, IF tx[t].val = Null THEN NoVer ELSE tx[t].seq, tx[t].val)
  <1> DEFINE x == [tx[t] EXCEPT !.pc = "exec"]
             s == IF tx[t].val = Null THEN NoVer ELSE tx[t].seq
  <1>1. tx[t] \in TxState BY Current
  <1>2. s \in Ver /\ tx[t].val \in Val BY <1>1, Versions DEF TxState
  <1>3. CASE Become(t, x)
    <2>1. "exec" \in PC BY Phases DEF Free, ReadPhase
    <2>2. x \in TxState BY <1>1, <2>1 DEF TxState
    <2>3. Alone(t) /\ tx'[t] = x BY <1>3, <2>2, Becomes
    <2> QED BY <1>1, <2>3 DEF Loads, SameEnd, TxState
  <1>4. CASE /\ tx[t].seq # Busy /\ node[CurKey(t)].seq = tx[t].seq
             /\ Become(t, Got(t, s, tx[t].val))
    <2> HIDE DEF s
    <2> QED BY <1>2, <1>4, GotEffect DEF s
  <1> QED BY <1>3, <1>4 DEF ReadCheck

\* The walk finds nothing, or the first old version the start vector covers.
Walks(t, chain) ==
  \/ /\ \A j \in DOMAIN chain : ~Sees(t, chain[j].ver)
     /\ Gets(t, Busy, Null)
  \/ \E j \in DOMAIN chain :
       /\ Sees(t, chain[j].ver) /\ \A h \in 1..(j - 1) : ~Sees(t, chain[h].ver)
       /\ Gets(t, chain[j].ver, chain[j].by)

\* A set of numbers that is not empty has a least one (from the well-foundedness
\* of the strict subset ordering, applied to initial segments).
LEMMA Least ==
  ASSUME NEW S, S \subseteq Nat, S # {}
  PROVE  \E m \in S : \A n \in S : m <= n
  <1> DEFINE R == StrictSubsetOrdering(Nat)
             T == {1..n : n \in S}
  <1>1. IsWellFoundedOn(R, FiniteSubsetsOf(Nat))
    BY FS_StrictSubsetOrderingWellFounded
  <1>2. \A n \in S : IsFiniteSet(1..n) /\ 1..n \subseteq Nat BY FS_Interval
  <1>3. T \subseteq FiniteSubsetsOf(Nat) BY <1>2 DEF FiniteSubsetsOf
  <1>4. T # {} OBVIOUS
  <1>5. PICK x \in T : \A y \in T : ~(<<y, x>> \in R)
    <2> HIDE DEF R, T
    <2> QED BY <1>1, <1>3, <1>4, WFMin
  <1>6. PICK m \in S : x = 1..m BY <1>5
  <1>7. ASSUME NEW n \in S, n < m PROVE FALSE
    <2>1. n \in Nat /\ m \in Nat OBVIOUS
    <2>2. 1..n \subseteq 1..m /\ m \in 1..m /\ m \notin 1..n BY <1>7, <2>1
    <2>3. 1..n # 1..m BY <2>2
    <2>4. <<1..n, 1..m>> \in R BY <1>2, <2>2, <2>3 DEF StrictSubsetOrdering
    <2> QED BY <1>5, <1>6, <2>4
  <1>8. \A n \in S : n \in Nat /\ m \in Nat OBVIOUS
  <1> QED BY <1>6, <1>7, <1>8

\* The walk over a list of old versions ends with a version of the list or none.
LEMMA WalkEffect ==
  ASSUME SITypeOK, NEW t \in Tx, tx[t].prog # <<>>, NEW chain \in Seq(Version),
         Become(t, Walk(t, chain))
  PROVE  Walks(t, chain)
  <1> DEFINE all == {j \in DOMAIN chain : Sees(t, chain[j].ver)}
             seen == {j \in DOMAIN chain : /\ Sees(t, chain[j].ver)
                                           /\ \A h \in 1..(j - 1) : ~Sees(t, chain[h].ver)}
  <1>1. all # {} => seen # {}
    <2> SUFFICES ASSUME all # {} PROVE seen # {} OBVIOUS
    <2>1. all \subseteq Nat OBVIOUS
    <2>2. PICK m \in all : \A n \in all : m <= n
      <3> HIDE DEF all
      <3> QED BY <2>1, Least
    <2>3. \A h \in 1..(m - 1) : h \in DOMAIN chain /\ h < m BY <2>1, <2>2
    <2>4. m \in seen BY <2>1, <2>2, <2>3
    <2> QED BY <2>4
  <1>2. CASE seen = {} /\ Become(t, Got(t, Busy, Null))
    <2>1. Null \in Val BY DEF Val
    <2>2. Gets(t, Busy, Null) BY <1>2, <2>1, GotEffect, Versions
    <2> QED BY <1>1, <1>2, <2>2 DEF Walks
  <1>3. ASSUME NEW j \in seen, Become(t, Got(t, chain[j].ver, chain[j].by))
        PROVE  Walks(t, chain)
    <2>1. chain[j] \in Version BY <1>3
    <2>2. chain[j].ver \in Ver /\ chain[j].by \in Val BY <2>1 DEF Version
    <2>3. Gets(t, chain[j].ver, chain[j].by) BY <1>3, <2>2, GotEffect
    <2> QED BY <1>3, <2>3 DEF Walks
  <1>4. seen # {} => (CHOOSE j \in seen : TRUE) \in seen OBVIOUS
  <1>5. Become(t, IF seen = {} THEN Got(t, Busy, Null)
                  ELSE Got(t, chain[CHOOSE j \in seen : TRUE].ver,
                           chain[CHOOSE j \in seen : TRUE].by))
    BY DEF Walk
  <1> HIDE DEF all, seen
  <1> QED BY <1>2, <1>3, <1>4, <1>5

\* get() walks at once, get_ro() remembers the list.
LEMMA ReadOldEffect ==
  ASSUME SITypeOK, NEW t \in Tx, ReadOld(t), tx[t].prog # <<>>
  PROVE  \/ CurOp(t).kind # "ro" /\ Walks(t, node[CurKey(t)].old)
         \/ /\ Loads(t) /\ tx'[t].pc = "ochk" /\ tx'[t].prog = tx[t].prog
            /\ tx'[t].seq = tx[t].seq /\ tx'[t].chain = node[CurKey(t)].old
            /\ CurOp(t).kind = "ro"
  <1> DEFINE c == node[CurKey(t)].old
             x == [tx[t] EXCEPT !.pc = "ochk", !.chain = c]
  <1>1. tx[t] \in TxState /\ c \in Seq(Version) BY Current DEF MemNode
  <1>2. \/ CurOp(t).kind # "ro" /\ Become(t, Walk(t, c))
        \/ CurOp(t).kind = "ro" /\ Become(t, x)
    BY DEF ReadOld
  <1> HIDE DEF c
  <1>3. CASE CurOp(t).kind # "ro" /\ Become(t, Walk(t, c))
    BY <1>1, <1>3, WalkEffect DEF c
  <1>4. CASE CurOp(t).kind = "ro" /\ Become(t, x)
    <2>1. "ochk" \in PC BY Phases DEF Free, ReadPhase
    <2>2. x \in TxState BY <1>1, <2>1 DEF TxState
    <2>3. Alone(t) /\ tx'[t] = x BY <1>4, <2>2, Becomes
    <2> QED BY <1>1, <1>4, <2>3 DEF Loads, SameEnd, TxState, c
  <1> QED BY <1>2, <1>3, <1>4

\* get_ro() looks at seq again, then walks the list it remembered.
LEMMA RoOldCheckEffect ==
  ASSUME SITypeOK, NEW t \in Tx, RoOldCheck(t), tx[t].prog # <<>>
  PROVE  \/ Loads(t) /\ tx'[t].pc = "exec" /\ tx'[t].prog = tx[t].prog
         \/ node[CurKey(t)].seq = tx[t].seq /\ Walks(t, tx[t].chain)
  <1> DEFINE x == [tx[t] EXCEPT !.pc = "exec"]
  <1>1. tx[t] \in TxState BY Current
  <1>2. CASE Become(t, x)
    <2>1. "exec" \in PC BY Phases DEF Free, ReadPhase
    <2>2. x \in TxState BY <1>1, <2>1 DEF TxState
    <2>3. Alone(t) /\ tx'[t] = x BY <1>2, <2>2, Becomes
    <2> QED BY <1>1, <2>3 DEF Loads, SameEnd, TxState
  <1>3. CASE node[CurKey(t)].seq = tx[t].seq /\ Become(t, Walk(t, tx[t].chain))
    <2>1. tx[t].chain \in Seq(Version) BY <1>1 DEF TxState
    <2> QED BY <1>3, <2>1, WalkEffect
  <1> QED BY <1>2, <1>3 DEF RoOldCheck

\* insert() adds an item with the number it finds.
LEMMA InsertEffect ==
  ASSUME SITypeOK, NEW t \in Tx, Insert(t)
  PROVE  Gets(t, node[CurKey(t)].seq, node[CurKey(t)].value)
  <1>1. tx[t].prog # <<>> BY DEF Insert
  <1>2. node[CurKey(t)].seq \in Ver /\ node[CurKey(t)].value \in Val
    BY <1>1, Current DEF MemNode
  <1> QED BY <1>1, <1>2, GotEffect DEF Insert

\* delete_() of a record that the transaction has in its rwset.
Marks(t, j) ==
  /\ Alone(t) /\ SameEnd(t) /\ tx'[t].prog = Tail(tx[t].prog) /\ tx'[t].pc = "exec"
  /\ tx'[t].rset = tx[t].rset /\ tx'[t].snap = tx[t].snap
  /\ tx[t].rwset[j].key = CurKey(t)
  /\ tx'[t].rwset = [tx[t].rwset EXCEPT ![j] = [@ EXCEPT !.kind = "del", !.w = TRUE]]

\* delete_() adds an item, or marks the item it has as a deletion.
LEMMA DeleteEffect ==
  ASSUME SITypeOK, NEW t \in Tx, Delete(t)
  PROVE  \/ Gets(t, node[CurKey(t)].seq, node[CurKey(t)].value)
         \/ \E j \in DOMAIN tx[t].rwset : Marks(t, j)
  <1> DEFINE k == CurKey(t)
             it(j) == [tx[t].rwset[j] EXCEPT !.kind = "del", !.w = TRUE]
             rw(j) == [tx[t].rwset EXCEPT ![j] = it(j)]
             x(j) == [tx[t] EXCEPT !.prog = Tail(@), !.rwset = rw(j)]
  <1>1. tx[t].prog # <<>> /\ tx[t].pc = "exec" BY DEF Delete
  <1>2. /\ tx[t] \in TxState /\ Tail(tx[t].prog) \in Seq(Op)
        /\ node[k].seq \in Ver /\ node[k].value \in Val
    BY <1>1, Current DEF MemNode
  <1>3. CASE Become(t, Got(t, node[k].seq, node[k].value))
    BY <1>1, <1>2, <1>3, GotEffect
  <1>4. ASSUME NEW j \in DOMAIN tx[t].rwset, tx[t].rwset[j].key = k, Become(t, x(j))
        PROVE  Marks(t, j)
    <2>1. tx[t].rwset \in Seq(Item) BY <1>2 DEF TxState
    <2>2. tx[t].rwset[j] \in Item BY <1>4, <2>1
    <2>3. it(j) \in Item BY <2>2 DEF Item, Kind
    <2> HIDE DEF it
    <2>4. rw(j) \in Seq(Item) BY <2>1, <2>3
    <2> HIDE DEF rw
    <2>5. x(j) \in TxState BY <1>2, <2>4 DEF TxState
    <2>6. Alone(t) /\ tx'[t] = x(j) BY <1>4, <2>5, Becomes
    <2> QED BY <1>1, <1>2, <1>4, <2>6 DEF Marks, SameEnd, TxState, rw, it
  <1>5. \/ Become(t, Got(t, node[k].seq, node[k].value))
        \/ \E j \in DOMAIN tx[t].rwset : tx[t].rwset[j].key = k /\ Become(t, x(j))
    BY <1>2 DEF Delete, TxState
  <1> HIDE DEF x, k
  <1> QED BY <1>3, <1>4, <1>5 DEF k

\* A step of end(): the fields it works on get these values.
EndTo(t, pc, current, i, todo, ok, swapped, ts) ==
  /\ Alone(t) /\ SameData(t) /\ tx'[t].pc = pc
  /\ tx'[t].current = current /\ tx'[t].i = i /\ tx'[t].todo = todo
  /\ tx'[t].ok = ok /\ tx'[t].swapped = swapped /\ tx'[t].commit_ts = ts

\* A step of end() that assigns pc, loop index, todo and ok has just that effect.
LEMMA EndUpdate ==
  ASSUME SITypeOK, NEW t \in Tx, NEW pc \in PC, NEW current \in Nat, NEW i \in Nat,
         NEW todo \in SUBSET Nat, NEW ok \in BOOLEAN, NEW swapped \in SUBSET Part,
         NEW ts \in Ver,
         Become(t, [tx[t] EXCEPT !.pc = pc, !.current = current, !.i = i,
                      !.todo = todo, !.ok = ok, !.swapped = swapped, !.commit_ts = ts])
  PROVE  EndTo(t, pc, current, i, todo, ok, swapped, ts)
  <1> DEFINE x == [tx[t] EXCEPT !.pc = pc, !.current = current, !.i = i,
                     !.todo = todo, !.ok = ok, !.swapped = swapped, !.commit_ts = ts]
  <1>1. tx[t] \in TxState BY DEF SITypeOK
  <1>2. x \in TxState BY <1>1 DEF TxState
  <1>3. Alone(t) /\ tx'[t] = x BY <1>2, Becomes
  <1> QED BY <1>1, <1>3 DEF EndTo, SameData, TxState

\* The types of the fields, for the lemmas below.
LEMMA Fields ==
  ASSUME SITypeOK, NEW t \in Tx
  PROVE  /\ tx[t] \in TxState /\ tx[t].pc \in PC /\ tx[t].current \in Nat
         /\ tx[t].i \in Nat /\ tx[t].i + 1 \in Nat /\ 1 \in Nat
         /\ tx[t].todo \in SUBSET Nat /\ {} \in SUBSET Nat
         /\ RemoteWrites(t) \in SUBSET Nat /\ tx[t].ok \in BOOLEAN
         /\ tx[t].swapped \in SUBSET Part /\ tx[t].commit_ts \in Ver
         /\ tx[t].rwset \in Seq(Item) /\ tx[t].rset \in Seq(Item)
  <1>1. tx[t] \in TxState BY DEF SITypeOK
  <1> QED BY <1>1 DEF TxState, RemoteWrites

\* end() sends the lock requests.
LEMMA EndEffect ==
  ASSUME SITypeOK, NEW t \in Tx, End(t)
  PROVE  EndTo(t, "lock_remote", tx[t].current, tx[t].i, RemoteWrites(t), tx[t].ok,
               tx[t].swapped, tx[t].commit_ts)
  <1>1. Become(t, [tx[t] EXCEPT !.pc = "lock_remote", !.current = tx[t].current,
                     !.i = tx[t].i, !.todo = RemoteWrites(t), !.ok = tx[t].ok,
                     !.swapped = tx[t].swapped, !.commit_ts = tx[t].commit_ts])
    BY Fields DEF End, TxState
  <1>2. "lock_remote" \in PC BY Phases DEF RpcPhase
  <1> QED BY <1>1, <1>2, Fields, EndUpdate

\* After the local installs the write-back requests are sent.
LEMMA CommitRemoteEffect ==
  ASSUME SITypeOK, NEW t \in Tx, CommitRemote(t)
  PROVE  EndTo(t, "commit_remote", tx[t].current, tx[t].i, RemoteWrites(t), tx[t].ok,
               tx[t].swapped, tx[t].commit_ts)
  <1>1. Become(t, [tx[t] EXCEPT !.pc = "commit_remote", !.current = tx[t].current,
             !.i = tx[t].i, !.todo = RemoteWrites(t), !.ok = tx[t].ok,
             !.swapped = tx[t].swapped, !.commit_ts = tx[t].commit_ts])
    BY Fields DEF CommitRemote, TxState
  <1>2. "commit_remote" \in PC BY Phases DEF RpcPhase, Stamped
  <1> QED BY <1>1, <1>2, Fields, EndUpdate

\* The last write-back reply leads to the report.
LEMMA CommitRepliesEffect ==
  ASSUME SITypeOK, NEW t \in Tx, CommitReplies(t)
  PROVE  EndTo(t, "report", tx[t].current, tx[t].i, tx[t].todo, tx[t].ok,
               tx[t].swapped, tx[t].commit_ts)
  <1>1. Become(t, [tx[t] EXCEPT !.pc = "report", !.current = tx[t].current,
             !.i = tx[t].i, !.todo = tx[t].todo, !.ok = tx[t].ok,
             !.swapped = tx[t].swapped, !.commit_ts = tx[t].commit_ts])
    BY Fields DEF CommitReplies, TxState
  <1>2. "report" \in PC BY Phases DEF RpcPhase, Stamped
  <1> QED BY <1>1, <1>2, Fields, EndUpdate

\* commit_ts() closes the timestamp and nothing else.
LEMMA CommitTsEffect ==
  ASSUME SITypeOK, NEW t \in Tx, CommitTs(t)
  PROVE  EndTo(t, "committed", tx[t].current, tx[t].i, tx[t].todo, tx[t].ok,
               tx[t].swapped, tx[t].commit_ts)
  <1>1. Become(t, [tx[t] EXCEPT !.pc = "committed", !.current = tx[t].current,
             !.i = tx[t].i, !.todo = tx[t].todo, !.ok = tx[t].ok,
             !.swapped = tx[t].swapped, !.commit_ts = tx[t].commit_ts])
    BY Fields DEF CommitTs, TxState
  <1>2. "committed" \in PC BY Phases DEF RpcPhase, Stamped
  <1> QED BY <1>1, <1>2, Fields, EndUpdate

\* After the last release reply the local locks are next.
LEMMA ReleaseRepliesEffect ==
  ASSUME SITypeOK, NEW t \in Tx, ReleaseReplies(t)
  PROVE  EndTo(t, "release_all", tx[t].current, 1, tx[t].todo, tx[t].ok,
               tx[t].swapped, tx[t].commit_ts)
  <1>1. Become(t, [tx[t] EXCEPT !.pc = "release_all", !.current = tx[t].current,
             !.i = 1, !.todo = tx[t].todo, !.ok = tx[t].ok,
             !.swapped = tx[t].swapped, !.commit_ts = tx[t].commit_ts])
    BY Fields DEF ReleaseReplies, TxState
  <1>2. "release_all" \in PC BY Phases DEF RpcPhase, Stamped
  <1> QED BY <1>1, <1>2, Fields, EndUpdate

\* get_commit_ts() takes the next timestamp of the machine and opens it.
LEMMA GetCommitTsEffect ==
  ASSUME SITypeOK, NEW t \in Tx, GetCommitTs(t)
  PROVE  EndTo(t, "commit", tx[t].current, 1, tx[t].todo, tx[t].ok,
               tx[t].swapped, <<Home[t], next[Home[t]]>>)
  <1> DEFINE ts == <<Home[t], next[Home[t]]>>
  <1>1. ts \in Ver BY SIAssumption DEF SITypeOK, Ver
  <1>2. Become(t, [tx[t] EXCEPT !.pc = "commit", !.i = 1, !.commit_ts = ts])
    BY DEF GetCommitTs
  <1> HIDE DEF ts
  <1>3. Become(t, [tx[t] EXCEPT !.pc = "commit", !.current = tx[t].current,
             !.i = 1, !.todo = tx[t].todo, !.ok = tx[t].ok,
             !.swapped = tx[t].swapped, !.commit_ts = ts])
    BY <1>2, Fields DEF TxState
  <1>4. "commit" \in PC BY Phases DEF Stamped
  <1>5. EndTo(t, "commit", tx[t].current, 1, tx[t].todo, tx[t].ok, tx[t].swapped, ts)
    BY <1>1, <1>3, <1>4, Fields, EndUpdate
  <1> QED BY <1>5 DEF ts

\* The jump to ABORT, with the bookkeeping of the last lock taken.
LEMMA AbortEffect ==
  ASSUME SITypeOK, NEW t \in Tx, NEW c \in Nat,
         Abort(t, [tx[t] EXCEPT !.current = c]) \/ (c = tx[t].current /\ Abort(t, tx[t]))
  PROVE  EndTo(t, "release_remote", c, tx[t].i, RemoteWrites(t), tx[t].ok,
               tx[t].swapped, tx[t].commit_ts)
  <1>1. Become(t, [tx[t] EXCEPT !.pc = "release_remote", !.current = c,
             !.i = tx[t].i, !.todo = RemoteWrites(t), !.ok = tx[t].ok,
             !.swapped = tx[t].swapped, !.commit_ts = tx[t].commit_ts])
    BY Fields DEF Abort, TxState
  <1>2. "release_remote" \in PC BY Phases DEF RpcPhase
  <1> QED BY <1>1, <1>2, Fields, EndUpdate

\* The lock replies lead on to LockAllSet or to the release requests.
LEMMA LockRepliesEffect ==
  ASSUME SITypeOK, NEW t \in Tx, LockReplies(t)
  PROVE  \/ /\ tx[t].ok
            /\ EndTo(t, "lock_all", tx[t].current, 1, tx[t].todo, tx[t].ok,
                     tx[t].swapped, tx[t].commit_ts)
         \/ EndTo(t, "release_remote", tx[t].current, tx[t].i, RemoteWrites(t), tx[t].ok,
                  tx[t].swapped, tx[t].commit_ts)
  <1>1. CASE Abort(t, tx[t]) BY <1>1, Fields, AbortEffect
  <1>2. CASE tx[t].ok /\ Become(t, [tx[t] EXCEPT !.pc = "lock_all", !.i = 1])
    <2>1. Become(t, [tx[t] EXCEPT !.pc = "lock_all", !.current = tx[t].current,
               !.i = 1, !.todo = tx[t].todo, !.ok = tx[t].ok,
               !.swapped = tx[t].swapped, !.commit_ts = tx[t].commit_ts])
      BY <1>2, Fields DEF TxState
    <2> QED BY <1>2, <2>1, Fields, Phases, EndUpdate
  <1> QED BY <1>1, <1>2 DEF LockReplies

\* LockAllSet: skip an item that is not written, fail on a lock, take the lock and
\* fail on the version, take the lock and go on.
LEMMA LockAllSetEffect ==
  ASSUME SITypeOK, NEW t \in Tx, LockAllSet(t), NEW it, it = tx[t].rwset[tx[t].i]
  PROVE  \/ /\ ~it.w /\ UNCHANGED node
            /\ EndTo(t, "lock_all", tx[t].current, tx[t].i + 1, tx[t].todo, tx[t].ok,
                     tx[t].swapped, tx[t].commit_ts)
         \/ /\ UNCHANGED node
            /\ EndTo(t, "release_remote", tx[t].current, tx[t].i, RemoteWrites(t),
                     tx[t].ok, tx[t].swapped, tx[t].commit_ts)
         \/ /\ it.w /\ node[it.key].lock = NoTx
            /\ node' = [node EXCEPT ![it.key].lock = t]
            /\ \/ EndTo(t, "release_remote", tx[t].i, tx[t].i, RemoteWrites(t),
                        tx[t].ok, tx[t].swapped, tx[t].commit_ts)
               \/ /\ node[it.key].seq = it.seq
                  /\ EndTo(t, "lock_all", tx[t].i, tx[t].i + 1, tx[t].todo, tx[t].ok,
                           tx[t].swapped, tx[t].commit_ts)
  <1>1. ASSUME NEW c \in Nat,
               \/ Become(t, [[tx[t] EXCEPT !.current = c] EXCEPT !.i = @ + 1])
               \/ c = tx[t].current /\ Become(t, [tx[t] EXCEPT !.i = @ + 1])
        PROVE  tx[t].pc = "lock_all" =>
                 EndTo(t, "lock_all", c, tx[t].i + 1, tx[t].todo, tx[t].ok,
                       tx[t].swapped, tx[t].commit_ts)
    <2>1. Become(t, [tx[t] EXCEPT !.pc = tx[t].pc, !.current = c,
               !.i = tx[t].i + 1, !.todo = tx[t].todo, !.ok = tx[t].ok,
               !.swapped = tx[t].swapped, !.commit_ts = tx[t].commit_ts])
      BY <1>1, Fields DEF TxState
    <2>2. EndTo(t, tx[t].pc, c, tx[t].i + 1, tx[t].todo, tx[t].ok,
                tx[t].swapped, tx[t].commit_ts)
      BY <1>1, <2>1, Fields, EndUpdate
    <2> QED BY <2>2
  <1>2. tx[t].pc = "lock_all" /\ tx[t].i \in Nat /\ tx[t].current \in Nat
    BY Fields DEF LockAllSet
  <1>3. CASE ~it.w /\ Become(t, [tx[t] EXCEPT !.i = @ + 1]) /\ UNCHANGED node
    BY <1>1, <1>2, <1>3
  <1>4. CASE Abort(t, tx[t]) /\ UNCHANGED node
    BY <1>2, <1>4, AbortEffect
  <1>5. CASE /\ it.w /\ node[it.key].lock = NoTx
             /\ node' = [node EXCEPT ![it.key].lock = t]
             /\ \/ Abort(t, [tx[t] EXCEPT !.current = tx[t].i])
                \/ /\ node[it.key].seq = it.seq
                   /\ Become(t, [[tx[t] EXCEPT !.current = tx[t].i] EXCEPT !.i = @ + 1])
    BY <1>1, <1>2, <1>5, AbortEffect
  <1> QED BY <1>3, <1>4, <1>5 DEF LockAllSet

\* ReleaseAllSet frees the record of the item it is at, if that is a write.
LEMMA ReleaseAllSetEffect ==
  ASSUME SITypeOK, NEW t \in Tx, ReleaseAllSet(t), NEW it, it = tx[t].rwset[tx[t].i]
  PROVE  \/ /\ tx[t].i > tx[t].current /\ UNCHANGED node
            /\ EndTo(t, "aborted", tx[t].current, tx[t].i, tx[t].todo, tx[t].ok,
                     tx[t].swapped, tx[t].commit_ts)
         \/ /\ tx[t].i <= tx[t].current
            /\ node' = IF it.w THEN [node EXCEPT ![it.key].lock = NoTx] ELSE node
            /\ EndTo(t, "release_all", tx[t].current, tx[t].i + 1, tx[t].todo, tx[t].ok,
                     tx[t].swapped, tx[t].commit_ts)
  <1>1. tx[t].pc = "release_all" BY DEF ReleaseAllSet
  <1>2. CASE /\ tx[t].i > tx[t].current /\ UNCHANGED node
             /\ Become(t, [tx[t] EXCEPT !.pc = "aborted"])
    <2>1. Become(t, [tx[t] EXCEPT !.pc = "aborted", !.current = tx[t].current,
               !.i = tx[t].i, !.todo = tx[t].todo, !.ok = tx[t].ok,
               !.swapped = tx[t].swapped, !.commit_ts = tx[t].commit_ts])
      BY <1>2, Fields DEF TxState
    <2>2. EndTo(t, "aborted", tx[t].current, tx[t].i, tx[t].todo, tx[t].ok,
                tx[t].swapped, tx[t].commit_ts)
      BY <2>1, Fields, Phases, EndUpdate
    <2> QED BY <1>2, <2>2
  <1>3. CASE /\ tx[t].i <= tx[t].current /\ Become(t, [tx[t] EXCEPT !.i = @ + 1])
             /\ node' = IF it.w THEN [node EXCEPT ![it.key].lock = NoTx] ELSE node
    <2>1. Become(t, [tx[t] EXCEPT !.pc = "release_all", !.current = tx[t].current,
               !.i = tx[t].i + 1, !.todo = tx[t].todo, !.ok = tx[t].ok,
               !.swapped = tx[t].swapped, !.commit_ts = tx[t].commit_ts])
      BY <1>1, <1>3, Fields DEF TxState
    <2>2. EndTo(t, "release_all", tx[t].current, tx[t].i + 1, tx[t].todo, tx[t].ok,
                tx[t].swapped, tx[t].commit_ts)
      BY <2>1, Fields, Phases, EndUpdate
    <2> QED BY <1>3, <2>2
  <1> QED BY <1>2, <1>3 DEF ReleaseAllSet

\* A step writes to the node of k only; its fields get these values.
NodeTo(k, lock, seq, value, old) ==
  /\ node' \in [Key -> MemNode] /\ \A h \in Key : h # k => node'[h] = node[h]
  /\ node'[k].lock = lock /\ node'[k].seq = seq
  /\ node'[k].value = value /\ node'[k].old = old

\* An assignment to the lock of one node is what NodeTo says.
LEMMA LockUpdate ==
  ASSUME SITypeOK, NEW k \in Key, NEW v \in Tx \cup {NoTx},
         node' = [node EXCEPT ![k].lock = v]
  PROVE  NodeTo(k, v, node[k].seq, node[k].value, node[k].old)
  <1>1. node[k] \in MemNode /\ node \in [Key -> MemNode] BY DEF SITypeOK
  <1> QED BY <1>1 DEF NodeTo, MemNode

\* The item a server works on is an item of the sender's remote set.
LEMMA RemoteItem ==
  ASSUME SITypeOK, NEW t \in Tx, NEW i \in DOMAIN tx[t].rset
  PROVE  tx[t].rset[i] \in Item /\ tx[t].rset[i].key \in Key
  <1>1. tx[t].rset \in Seq(Item) BY Fields
  <1>2. tx[t].rset[i] \in Item BY <1>1
  <1> QED BY <1>2 DEF Item

\* The item at a loop index inside the rwset is an item of a record.
LEMMA LocalItem ==
  ASSUME SITypeOK, NEW t \in Tx, NEW i \in DOMAIN tx[t].rwset
  PROVE  tx[t].rwset[i] \in Item /\ tx[t].rwset[i].key \in Key
  <1>1. tx[t].rwset \in Seq(Item) BY Fields
  <1>2. tx[t].rwset[i] \in Item BY <1>1
  <1> QED BY <1>2 DEF Item

\* The items not served yet, when item i is served, and when it fails.
Left(t, i) == tx[t].todo \ {i}
Rest(t, i) ==
  tx[t].todo \
    {j \in tx[t].todo : PartOf[tx[t].rset[j].key] = PartOf[tx[t].rset[i].key]}

\* A compare-and-swap of the lock that succeeds.
TakesLock(t, k) == node[k].lock = NoTx /\ node' = [node EXCEPT ![k].lock = t]

\* lock_rpc_handler: taken and served, or the rest of the server is given up.
LEMMA LockRpcHandlerEffect ==
  ASSUME SITypeOK, NEW t \in Tx, NEW i \in tx[t].todo, LockRpcHandler(t, i),
         NEW it, it = tx[t].rset[i]
  PROVE  \/ /\ UNCHANGED node
            /\ EndTo(t, "lock_remote", tx[t].current, tx[t].i, Rest(t, i),
                     FALSE, tx[t].swapped, tx[t].commit_ts)
         \/ /\ TakesLock(t, it.key)
            /\ \/ EndTo(t, "lock_remote", tx[t].current, tx[t].i,
                        Rest(t, i), FALSE, tx[t].swapped, tx[t].commit_ts)
               \/ /\ node[it.key].seq = it.seq
                  /\ EndTo(t, "lock_remote", tx[t].current, tx[t].i, Left(t, i),
                           tx[t].ok, tx[t].swapped, tx[t].commit_ts)
  <1> DEFINE x == [tx[t] EXCEPT !.todo = Rest(t, i), !.ok = FALSE]
             y == [tx[t] EXCEPT !.todo = Left(t, i)]
  <1>1. tx[t].pc = "lock_remote" BY DEF LockRpcHandler
  <1>2. \/ Become(t, x) /\ UNCHANGED node
        \/ /\ TakesLock(t, it.key)
           /\ Become(t, x) \/ (node[it.key].seq = it.seq /\ Become(t, y))
    BY DEF LockRpcHandler, Rest, Left, TakesLock
  <1>3. Rest(t, i) \in SUBSET Nat /\ Left(t, i) \in SUBSET Nat
    BY Fields DEF Rest, Left
  <1>4. ASSUME Become(t, x)
        PROVE  EndTo(t, "lock_remote", tx[t].current, tx[t].i, Rest(t, i),
                     FALSE, tx[t].swapped, tx[t].commit_ts)
    <2>1. Become(t, [tx[t] EXCEPT !.pc = "lock_remote", !.current = tx[t].current,
               !.i = tx[t].i, !.todo = Rest(t, i), !.ok = FALSE,
               !.swapped = tx[t].swapped, !.commit_ts = tx[t].commit_ts])
      BY <1>1, <1>4, Fields DEF TxState
    <2> QED BY <1>1, <1>3, <2>1, Fields, EndUpdate
  <1>5. ASSUME Become(t, y)
        PROVE  EndTo(t, "lock_remote", tx[t].current, tx[t].i, Left(t, i),
                     tx[t].ok, tx[t].swapped, tx[t].commit_ts)
    <2>1. Become(t, [tx[t] EXCEPT !.pc = "lock_remote", !.current = tx[t].current,
               !.i = tx[t].i, !.todo = Left(t, i), !.ok = tx[t].ok,
               !.swapped = tx[t].swapped, !.commit_ts = tx[t].commit_ts])
      BY <1>1, <1>5, Fields DEF TxState
    <2> QED BY <1>1, <1>3, <2>1, Fields, EndUpdate
  <1> HIDE DEF x, y
  <1> QED BY <1>2, <1>4, <1>5

\* release_rpc_handler frees a lock of the sender only.
LEMMA ReleaseRpcHandlerEffect ==
  ASSUME SITypeOK, NEW t \in Tx, NEW i \in tx[t].todo, ReleaseRpcHandler(t, i)
  PROVE  EndTo(t, "release_remote", tx[t].current, tx[t].i, tx[t].todo \ {i}, tx[t].ok,
               tx[t].swapped, tx[t].commit_ts)
  <1>1. Become(t, [tx[t] EXCEPT !.pc = "release_remote", !.current = tx[t].current,
             !.i = tx[t].i, !.todo = tx[t].todo \ {i}, !.ok = tx[t].ok,
             !.swapped = tx[t].swapped, !.commit_ts = tx[t].commit_ts])
    BY Fields DEF ReleaseRpcHandler, TxState
  <1>2. tx[t].todo \ {i} \in SUBSET Nat BY Fields
  <1>3. "release_remote" \in PC BY Phases DEF RpcPhase
  <1> QED BY <1>1, <1>2, <1>3, Fields, EndUpdate

\* The three steps of an install.
Hides(t, it) ==
  /\ PartOf[it.key] \notin tx[t].swapped
  /\ node[it.key].value = Null /\ node[it.key].seq # Busy
  /\ NodeTo(it.key, node[it.key].lock, Busy, node[it.key].value, node[it.key].old)
  /\ EndTo(t, tx[t].pc, tx[t].current, tx[t].i, tx[t].todo, tx[t].ok,
           tx[t].swapped, tx[t].commit_ts)
  /\ log' = log /\ SameClocks

\* The value switch, with the current value linked under version ver.
Swaps(t, it, ver) ==
  /\ PartOf[it.key] \notin tx[t].swapped
  /\ node[it.key].value # Null \/ node[it.key].seq = Busy
  /\ NodeTo(it.key, node[it.key].lock, Busy, IF it.kind = "del" THEN Null ELSE t,
            IF node[it.key].value = Null THEN <<>>
            ELSE <<[ver |-> ver, by |-> node[it.key].value]>> \o node[it.key].old)
  /\ EndTo(t, tx[t].pc, tx[t].current, tx[t].i, tx[t].todo, tx[t].ok,
           tx[t].swapped \cup {PartOf[it.key]}, tx[t].commit_ts)
  /\ log' = log /\ SameClocks

\* The publication: seq, lock, history; the caller goes on with i and todo.
Publishes(t, it, i, todo) ==
  /\ PartOf[it.key] \in tx[t].swapped
  /\ NodeTo(it.key, NoTx, tx[t].commit_ts, node[it.key].value, node[it.key].old)
  /\ EndTo(t, tx[t].pc, tx[t].current, i, todo, tx[t].ok,
           tx[t].swapped \ {PartOf[it.key]}, tx[t].commit_ts)
  /\ log' \in [Key -> Seq(Version)]
  /\ \A k \in Key : k # it.key => log'[k] = log[k]
  /\ log'[it.key] = Append(log[it.key], [ver |-> tx[t].commit_ts, by |-> t])
  /\ SameClocks

\* The three parts of an install have these effects.
LEMMA HideEffect ==
  ASSUME SITypeOK, NEW t \in Tx, NEW it \in Item, Hide(t, it)
  PROVE  Hides(t, it)
  <1>1. it.key \in Key /\ node[it.key] \in MemNode /\ node \in [Key -> MemNode]
    BY DEF Item, SITypeOK
  <1>2. NodeTo(it.key, node[it.key].lock, Busy, node[it.key].value, node[it.key].old)
    BY <1>1, Versions DEF Hide, NodeTo, MemNode
  <1>3. EndTo(t, tx[t].pc, tx[t].current, tx[t].i, tx[t].todo, tx[t].ok,
              tx[t].swapped, tx[t].commit_ts)
    BY DEF EndTo, SameData, Alone, Hide, SITypeOK
  <1> QED BY <1>2, <1>3 DEF Hide, Hides, SameClocks

\* See Swaps.
LEMMA SwapEffect ==
  ASSUME SITypeOK, NEW t \in Tx, NEW it \in Item, NEW ver \in Ver, Swap(t, it, ver)
  PROVE  Swaps(t, it, ver)
  <1> DEFINE k == it.key
             cur == node[k].value
             val == IF it.kind = "del" THEN Null ELSE t
             old == IF cur = Null THEN <<>>
                    ELSE <<[ver |-> ver, by |-> cur]>> \o node[k].old
             nd == [node[k] EXCEPT !.seq = Busy, !.value = val, !.old = old]
  <1>1. k \in Key /\ node[k] \in MemNode /\ node \in [Key -> MemNode]
    BY DEF Item, SITypeOK
  <1>2. val \in Val BY DEF Val
  <1>3. old \in Seq(Version)
    <2>1. [ver |-> ver, by |-> cur] \in Version BY <1>1 DEF Version, MemNode
    <2>2. node[k].old \in Seq(Version) BY <1>1 DEF MemNode
    <2> HIDE DEF cur
    <2> QED BY <2>1, <2>2
  <1>4. node' = [node EXCEPT ![k] = nd] BY <1>1 DEF Swap, MemNode
  <1>5. NodeTo(k, node[k].lock, Busy, val, old)
    <2> HIDE DEF val, old
    <2>1. /\ nd \in MemNode /\ nd.lock = node[k].lock /\ nd.seq = Busy
          /\ nd.value = val /\ nd.old = old
      BY <1>1, <1>2, <1>3, Versions DEF MemNode
    <2> HIDE DEF nd, k
    <2> QED BY <1>1, <1>4, <2>1 DEF NodeTo
  <1>6. PartOf[k] \in Part BY <1>1, SIAssumption
  <1>7. EndTo(t, tx[t].pc, tx[t].current, tx[t].i, tx[t].todo, tx[t].ok,
              tx[t].swapped \cup {PartOf[k]}, tx[t].commit_ts)
    <2>1. Become(t, [tx[t] EXCEPT !.pc = tx[t].pc, !.current = tx[t].current,
               !.i = tx[t].i, !.todo = tx[t].todo, !.ok = tx[t].ok,
               !.swapped = tx[t].swapped \cup {PartOf[k]}, !.commit_ts = tx[t].commit_ts])
      BY Fields DEF Swap, TxState
    <2>2. tx[t].swapped \cup {PartOf[k]} \in SUBSET Part BY <1>6, Fields
    <2> HIDE DEF k
    <2> QED BY <2>1, <2>2, Fields, EndUpdate
  <1> HIDE DEF nd
  <1> QED BY <1>5, <1>7 DEF Swap, Swaps, SameClocks

\* See Publishes.
LEMMA PublishEffect ==
  ASSUME SITypeOK, NEW t \in Tx, NEW it \in Item, NEW i \in Nat, NEW todo \in SUBSET Nat,
         Publish(t, it, [tx[t] EXCEPT !.i = i, !.todo = todo])
  PROVE  Publishes(t, it, i, todo)
  <1> DEFINE k == it.key
             e == [ver |-> tx[t].commit_ts, by |-> t]
  <1>1. /\ k \in Key /\ node[k] \in MemNode /\ node \in [Key -> MemNode]
        /\ log \in [Key -> Seq(Version)] /\ tx[t].commit_ts \in Ver
    BY Fields DEF Item, SITypeOK
  <1>2. NodeTo(k, NoTx, tx[t].commit_ts, node[k].value, node[k].old)
    <2> DEFINE nd == [node[k] EXCEPT !.seq = tx[t].commit_ts, !.lock = NoTx]
    <2>1. node' = [node EXCEPT ![k] = nd] BY <1>1 DEF Publish, MemNode
    <2>2. /\ nd \in MemNode /\ nd.lock = NoTx /\ nd.seq = tx[t].commit_ts
          /\ nd.value = node[k].value /\ nd.old = node[k].old
      BY <1>1 DEF MemNode
    <2> HIDE DEF nd, k
    <2> QED BY <1>1, <2>1, <2>2 DEF NodeTo
  <1>3. e \in Version BY <1>1 DEF Version, Val
  <1>4. log' = [log EXCEPT ![k] = Append(@, e)] BY DEF Publish
  <1>5. EndTo(t, tx[t].pc, tx[t].current, i, todo, tx[t].ok,
              tx[t].swapped \ {PartOf[k]}, tx[t].commit_ts)
    <2>1. Become(t, [tx[t] EXCEPT !.pc = tx[t].pc, !.current = tx[t].current,
               !.i = i, !.todo = todo, !.ok = tx[t].ok,
               !.swapped = tx[t].swapped \ {PartOf[k]}, !.commit_ts = tx[t].commit_ts])
      BY Fields DEF Publish, TxState
    <2>2. tx[t].swapped \ {PartOf[k]} \in SUBSET Part BY Fields
    <2> HIDE DEF k
    <2> QED BY <2>1, <2>2, Fields, EndUpdate
  <1>6. log' \in [Key -> Seq(Version)] /\ log'[k] = Append(log[k], e)
    <2> HIDE DEF e, k
    <2> QED BY <1>1, <1>3, <1>4
  <1>7. \A h \in Key : h # k => log'[h] = log[h] BY <1>1, <1>4
  <1>8. PartOf[k] \in tx[t].swapped /\ SameClocks BY DEF Publish, SameClocks
  <1> QED BY <1>2, <1>5, <1>6, <1>7, <1>8 DEF Publishes

\* CommitLocalWrite skips an item that is not written, or installs it.
LEMMA CommitLocalWriteEffect ==
  ASSUME SITypeOK, NEW t \in Tx, CommitLocalWrite(t), NEW it, it = tx[t].rwset[tx[t].i]
  PROVE  /\ it \in Item
         /\ \/ /\ ~it.w /\ UNCHANGED <<node, log, next, open, vec>>
               /\ EndTo(t, "commit", tx[t].current, tx[t].i + 1, tx[t].todo, tx[t].ok,
                        tx[t].swapped, tx[t].commit_ts)
            \/ /\ it.w
               /\ Hides(t, it) \/ Swaps(t, it, it.seq)
                  \/ Publishes(t, it, tx[t].i + 1, tx[t].todo)
  <1>1. tx[t].pc = "commit" /\ tx[t].i \in DOMAIN tx[t].rwset BY DEF CommitLocalWrite
  <1>2. it \in Item BY <1>1, LocalItem
  <1>3. it.seq \in Ver BY <1>2 DEF Item
  <1>4. CASE /\ ~it.w /\ UNCHANGED <<node, log, next, open, vec>>
             /\ Become(t, [tx[t] EXCEPT !.i = @ + 1])
    <2>1. Become(t, [tx[t] EXCEPT !.pc = "commit", !.current = tx[t].current,
               !.i = tx[t].i + 1, !.todo = tx[t].todo, !.ok = tx[t].ok,
               !.swapped = tx[t].swapped, !.commit_ts = tx[t].commit_ts])
      BY <1>1, <1>4, Fields DEF TxState
    <2>2. EndTo(t, "commit", tx[t].current, tx[t].i + 1, tx[t].todo, tx[t].ok,
                tx[t].swapped, tx[t].commit_ts)
      BY <1>1, <2>1, Fields, EndUpdate
    <2> QED BY <1>2, <1>4, <2>2
  <1>5. CASE it.w /\ Hide(t, it) BY <1>2, <1>5, HideEffect
  <1>6. CASE it.w /\ Swap(t, it, it.seq) BY <1>2, <1>3, <1>6, SwapEffect
  <1>7. CASE it.w /\ Publish(t, it, [tx[t] EXCEPT !.i = @ + 1])
    <2>1. [tx[t] EXCEPT !.i = @ + 1] = [tx[t] EXCEPT !.i = tx[t].i + 1, !.todo = tx[t].todo]
      BY Fields DEF TxState
    <2>2. Publish(t, it, [tx[t] EXCEPT !.i = tx[t].i + 1, !.todo = tx[t].todo])
      BY <1>7, <2>1
    <2>3. Publishes(t, it, tx[t].i + 1, tx[t].todo) BY <1>2, <2>2, Fields, PublishEffect
    <2> QED BY <1>2, <1>7, <2>3
  <1> QED BY <1>4, <1>5, <1>6, <1>7 DEF CommitLocalWrite

\* commit_rpc_handler2 installs the next item of a server.
LEMMA CommitRpcHandlerEffect ==
  ASSUME SITypeOK, NEW t \in Tx, NEW i \in tx[t].todo, i \in DOMAIN tx[t].rset,
         CommitRpcHandler(t, i), NEW it, it = tx[t].rset[i]
  PROVE  /\ it \in Item
         /\ Hides(t, it) \/ Swaps(t, it, node[it.key].seq)
            \/ Publishes(t, it, tx[t].i, tx[t].todo \ {i})
  <1>1. it \in Item /\ it.key \in Key BY RemoteItem
  <1>2. node[it.key].seq \in Ver BY <1>1 DEF SITypeOK, MemNode
  <1>3. CASE Hide(t, it) BY <1>1, <1>3, HideEffect
  <1>4. CASE Swap(t, it, node[it.key].seq) BY <1>1, <1>2, <1>4, SwapEffect
  <1>5. CASE Publish(t, it, [tx[t] EXCEPT !.todo = @ \ {i}])
    <2>1. [tx[t] EXCEPT !.todo = @ \ {i}]
            = [tx[t] EXCEPT !.i = tx[t].i, !.todo = tx[t].todo \ {i}]
      BY Fields DEF TxState
    <2>2. Publish(t, it, [tx[t] EXCEPT !.i = tx[t].i, !.todo = tx[t].todo \ {i}])
      BY <1>5, <2>1
    <2>3. tx[t].todo \ {i} \in SUBSET Nat BY Fields
    <2>4. Publishes(t, it, tx[t].i, tx[t].todo \ {i})
      BY <1>1, <2>2, <2>3, Fields, PublishEffect
    <2> QED BY <1>1, <2>4
  <1> QED BY <1>3, <1>4, <1>5 DEF CommitRpcHandler

-----------------------------------------------------------------------------
(* Who holds which lock.  The books of a transaction are its sets, the loop  *)
(* indices and the requests under way.                                       *)

\* The local items to be written.
LocalWrites(t) == {i \in DOMAIN tx[t].rwset : tx[t].rwset[i].w}

\* Items whose records t has locked: in the rwset; in the remote set, where a
\* failed request leaves it open which ones are; and those that certainly are.
LocalHeld(t) ==
  {i \in LocalWrites(t) :
     \/ tx[t].pc \in {"lock_all", "release_remote"} /\ i <= tx[t].current
     \/ tx[t].pc = "commit" /\ tx[t].i <= i
     \/ tx[t].pc = "release_all" /\ tx[t].i <= i /\ i <= tx[t].current}
RemoteMayHold(t) ==
  {i \in RemoteWrites(t) :
     \/ tx[t].pc \in {"lock_remote", "lock_all", "commit"}
     \/ tx[t].pc \in {"commit_remote", "release_remote"} /\ i \in tx[t].todo}
RemoteHeld(t) ==
  {i \in RemoteWrites(t) :
     \/ tx[t].pc = "lock_remote" /\ tx[t].ok /\ i \notin tx[t].todo
     \/ tx[t].pc \in {"lock_all", "commit"}
     \/ tx[t].pc = "commit_remote" /\ i \in tx[t].todo}

\* Where items live, which requests are under way, how far the loops have come.
Control(t) ==
  /\ tx[t].pc \in ReadPhase \ {"exec"} => tx[t].prog # <<>>
  /\ \A i \in DOMAIN tx[t].rwset : IsLocal(t, tx[t].rwset[i].key)
  /\ \A i \in DOMAIN tx[t].rset : ~IsLocal(t, tx[t].rset[i].key)
  /\ tx[t].todo \subseteq RemoteWrites(t)
  /\ tx[t].pc \notin RpcPhase => tx[t].todo = {}
  /\ tx[t].i > 0 /\ tx[t].current <= Len(tx[t].rwset)
  /\ tx[t].pc \in Free \cup {"lock_remote"} => tx[t].current = 0
  /\ tx[t].pc = "lock_all" =>
       /\ tx[t].current < tx[t].i
       /\ \A j \in LocalWrites(t) : j < tx[t].i => j <= tx[t].current

\* Every lock of t is on its books, and what the books say is locked is locked
\* by t, once.
Locks(t) ==
  /\ \A k \in Key : node[k].lock = t =>
       \/ \E i \in LocalHeld(t) : tx[t].rwset[i].key = k
       \/ \E i \in RemoteMayHold(t) : tx[t].rset[i].key = k
  /\ \A i \in LocalHeld(t) : node[tx[t].rwset[i].key].lock = t
  /\ \A i \in RemoteHeld(t) : node[tx[t].rset[i].key].lock = t
  /\ \A i, j \in LocalHeld(t) :
       tx[t].rwset[i].key = tx[t].rwset[j].key => i = j
  /\ \A i, j \in RemoteHeld(t) :
       tx[t].rset[i].key = tx[t].rset[j].key => i = j

\* The inductive invariant of the locks.
LockInv == SITypeOK /\ \A t \in Tx : Control(t) /\ Locks(t)

\* What a step of t may do to the locks.
LockStep(t) ==
  \A k \in Key : \/ node'[k].lock = node[k].lock
                 \/ node[k].lock = NoTx /\ node'[k].lock = t
                 \/ node[k].lock = t /\ node'[k].lock = NoTx

\* What is shown of every step of t.
Preserved(t) == SITypeOK' /\ Alone(t) /\ Control(t)' /\ Locks(t)' /\ LockStep(t)

\* The types of the variables other than tx.
StoreTypes ==
  /\ node' \in [Key -> MemNode] /\ log' \in [Key -> Seq(Version)]
  /\ next' \in [Part -> Nat] /\ open' \in [Part -> SUBSET Nat]
  /\ vec' \in [Tx -> [Part -> Nat]]

\* They hold after a step that leaves those variables alone.
LEMMA StoreUnchanged ==
  ASSUME SITypeOK, UNCHANGED <<node, log, next, open, vec>> PROVE StoreTypes
BY DEF SITypeOK, StoreTypes

\* A step between two phases outside end() that keeps local items in the rwset
\* and remote ones in the remote set preserves the invariant.
LEMMA Quiet ==
  ASSUME LockInv, NEW t \in Tx, Alone(t), tx[t].pc \in Free, tx'[t].pc \in Free,
         tx'[t].todo = tx[t].todo, tx'[t].i = tx[t].i, tx'[t].current = 0,
         tx'[t].pc \in ReadPhase \ {"exec"} => tx'[t].prog # <<>>,
         \A i \in DOMAIN tx'[t].rwset : IsLocal(t, tx'[t].rwset[i].key),
         \A i \in DOMAIN tx'[t].rset : ~IsLocal(t, tx'[t].rset[i].key),
         UNCHANGED node, StoreTypes
  PROVE  Preserved(t)
  <1>1. SITypeOK' BY DEF Alone, StoreTypes, SITypeOK
  <1>2. /\ LocalHeld(t) = {} /\ RemoteMayHold(t) = {}
        /\ LocalHeld(t)' = {} /\ RemoteHeld(t)' = {} /\ RemoteMayHold(t)' = {}
    BY DEF Free, ReadPhase, LocalHeld, RemoteHeld, RemoteMayHold
  <1>3. Locks(t)'
    <2>1. \A k \in Key : node[k].lock # t BY <1>2 DEF LockInv, Locks
    <2> QED BY <1>2, <2>1 DEF Locks
  <1>4. Control(t)'
    <2>1. tx'[t].todo = {} BY DEF LockInv, Control, Free, ReadPhase, RpcPhase
    <2>2. tx'[t].i > 0 BY DEF LockInv, Control
    <2>3. Len(tx'[t].rwset) \in Nat BY DEF Alone, TxState
    <2>4. tx'[t].pc # "lock_all" BY DEF Free, ReadPhase
    <2> QED BY <2>1, <2>2, <2>3, <2>4 DEF Control, IsLocal
  <1> QED BY <1>1, <1>3, <1>4 DEF Preserved, LockStep

\* A read step that adds nothing.
LEMMA LoadsPreserves ==
  ASSUME LockInv, NEW t \in Tx, Loads(t), tx[t].pc \in ReadPhase,
         tx'[t].pc \in ReadPhase \cup {"stopped"},
         tx'[t].pc \in ReadPhase \ {"exec"} => tx'[t].prog # <<>>,
         UNCHANGED <<node, log, next, open, vec>>
  PROVE  Preserved(t)
  <1>1. tx[t].pc \in Free /\ tx'[t].pc \in Free BY DEF Free
  <1>2. StoreTypes BY StoreUnchanged DEF LockInv
  <1>3. Control(t) BY DEF LockInv
  <1>4. /\ \A i \in DOMAIN tx'[t].rwset : IsLocal(t, tx'[t].rwset[i].key)
        /\ \A i \in DOMAIN tx'[t].rset : ~IsLocal(t, tx'[t].rset[i].key)
    BY <1>3 DEF Control, Loads
  <1>5. /\ tx'[t].current = 0 /\ tx'[t].todo = tx[t].todo /\ tx'[t].i = tx[t].i
    BY <1>1, <1>3 DEF Control, Loads, SameEnd
  <1> QED BY <1>1, <1>2, <1>4, <1>5, Quiet DEF Loads

\* An item of a set after an item was added is the new one or an old one.
LEMMA Appended ==
  ASSUME NEW q \in Seq(Item), NEW it
  PROVE  \A i \in DOMAIN Append(q, it) :
           \/ Append(q, it)[i] = it
           \/ i \in DOMAIN q /\ Append(q, it)[i] = q[i]
OBVIOUS

\* Adding an item puts it into the set of its machine.
LEMMA GetsPreserves ==
  ASSUME LockInv, NEW t \in Tx, NEW s, NEW v, Gets(t, s, v), tx[t].pc \in ReadPhase,
         UNCHANGED <<node, log, next, open, vec>>
  PROVE  Preserved(t)
  <1>1. tx[t].pc \in Free /\ tx'[t].pc \in Free /\ tx'[t].pc \notin ReadPhase \ {"exec"}
    BY DEF Free, ReadPhase, Gets
  <1>2. StoreTypes BY StoreUnchanged DEF LockInv
  <1>3. Control(t) /\ tx[t].rwset \in Seq(Item) /\ tx[t].rset \in Seq(Item)
    BY Fields DEF LockInv
  <1>4. GotItem(t, s, v).key = CurKey(t) BY DEF GotItem
  <1>5. /\ \A i \in DOMAIN tx'[t].rwset : IsLocal(t, tx'[t].rwset[i].key)
        /\ \A i \in DOMAIN tx'[t].rset : ~IsLocal(t, tx'[t].rset[i].key)
    <2> DEFINE it == GotItem(t, s, v)
    <2>1. /\ \A i \in DOMAIN tx[t].rwset : IsLocal(t, tx[t].rwset[i].key)
          /\ \A i \in DOMAIN tx[t].rset : ~IsLocal(t, tx[t].rset[i].key)
      BY <1>3 DEF Control
    <2>2. CASE tx'[t].rwset = tx[t].rwset /\ tx'[t].rset = tx[t].rset BY <2>1, <2>2
    <2> HIDE DEF it
    <2>3. CASE /\ IsLocal(t, CurKey(t)) /\ tx'[t].rset = tx[t].rset
               /\ tx'[t].rwset = Append(tx[t].rwset, it)
      BY <1>3, <1>4, <2>1, <2>3, Appended DEF it
    <2>4. CASE /\ ~IsLocal(t, CurKey(t)) /\ tx'[t].rwset = tx[t].rwset
               /\ tx'[t].rset = Append(tx[t].rset, it)
      BY <1>3, <1>4, <2>1, <2>4, Appended DEF it
    <2> QED BY <2>2, <2>3, <2>4 DEF Gets, it
  <1>6. tx'[t].current = 0 /\ tx'[t].todo = tx[t].todo /\ tx'[t].i = tx[t].i
    BY <1>1, <1>3 DEF Control, Gets, SameEnd
  <1> QED BY <1>1, <1>2, <1>5, <1>6, Quiet DEF Gets

\* An entry of a start vector covers commits that have ended, or the loaded data.
LEMMA StartVector ==
  ASSUME SITypeOK, NEW v \in StartVectors
  PROVE  v \in [Part -> Nat] /\ \A p \in Part : v[p] \in Covers(p)
  <1>1. \A p \in Part : Covers(p) \subseteq Nat BY DEF Covers
  <1>2. UNION {Covers(p) : p \in Part} \subseteq Nat BY <1>1
  <1>3. \A p \in Part : v[p] \in Covers(p) BY DEF StartVectors
  <1>4. v \in [Part -> UNION {Covers(p) : p \in Part}] BY DEF StartVectors
  <1> QED BY <1>2, <1>3, <1>4

\* A start resets the sets and changes the vector of t only.
LEMMA BeginEffect ==
  ASSUME SITypeOK, NEW t \in Tx, Begin(t)
  PROVE  /\ Alone(t) /\ tx[t].pc = "idle" /\ tx'[t].pc = "exec"
         /\ tx'[t].prog \in Programs[t]
         /\ tx'[t].rwset = <<>> /\ tx'[t].rset = <<>> /\ tx'[t].snap = tx[t].snap
         /\ tx'[t].current = 0 /\ tx'[t].i = tx[t].i /\ tx'[t].todo = tx[t].todo
         /\ tx'[t].swapped = tx[t].swapped /\ tx'[t].commit_ts = tx[t].commit_ts
         /\ \E v \in StartVectors : vec' = [vec EXCEPT ![t] = v]
         /\ vec' \in [Tx -> [Part -> Nat]] /\ UNCHANGED <<node, log, next, open>>
  <1>1. PICK p \in Programs[t], v \in StartVectors :
          /\ Become(t, [tx[t] EXCEPT !.pc = "exec", !.prog = p, !.rwset = <<>>,
                                     !.rset = <<>>, !.current = 0])
          /\ vec' = [vec EXCEPT ![t] = v]
    BY DEF Begin
  <1> DEFINE x == [tx[t] EXCEPT !.pc = "exec", !.prog = p, !.rwset = <<>>,
                                !.rset = <<>>, !.current = 0]
  <1>2. tx[t] \in TxState BY DEF SITypeOK
  <1>3. p \in Seq(Op) /\ <<>> \in Seq(Item) BY SIAssumption
  <1>4. "exec" \in PC BY Phases DEF Free, ReadPhase
  <1>5. x \in TxState BY <1>2, <1>3, <1>4 DEF TxState
  <1>6. Alone(t) /\ tx'[t] = x BY <1>1, <1>5, Becomes
  <1>7. vec' \in [Tx -> [Part -> Nat]] BY <1>1, StartVector DEF SITypeOK
  <1>8. tx[t].pc = "idle" /\ UNCHANGED <<node, log, next, open>> BY DEF Begin
  <1> QED BY <1>1, <1>2, <1>6, <1>7, <1>8 DEF TxState

\* _begin() and local_ro_begin() reset the sets and take no lock.
LEMMA BeginPreserves ==
  ASSUME LockInv, NEW t \in Tx, Begin(t) PROVE Preserved(t)
  <1>1. SITypeOK BY DEF LockInv
  <1>2. /\ Alone(t) /\ tx[t].pc = "idle" /\ tx'[t].pc = "exec"
        /\ tx'[t].rwset = <<>> /\ tx'[t].rset = <<>> /\ tx'[t].current = 0
        /\ tx'[t].i = tx[t].i /\ tx'[t].todo = tx[t].todo
        /\ vec' \in [Tx -> [Part -> Nat]] /\ UNCHANGED <<node, log, next, open>>
    BY <1>1, BeginEffect
  <1>3. StoreTypes BY <1>1, <1>2 DEF SITypeOK, StoreTypes
  <1> QED BY <1>2, <1>3, Quiet DEF Free, ReadPhase

\* In the middle of a read there is an operation to work on.
LEMMA InRead ==
  ASSUME LockInv, NEW t \in Tx,
         tx[t].pc \in ReadPhase \ {"exec"} \/ Insert(t) \/ ReadSeq(t) \/ Delete(t)
  PROVE  tx[t].prog # <<>> /\ tx[t].pc \in ReadPhase
BY DEF LockInv, Control, Insert, ReadSeq, Delete, ReadPhase

\* Every step of get(), get_ro(), insert() and delete_() preserves the invariant.
LEMMA ReadPreserves ==
  ASSUME LockInv, NEW t \in Tx, Read(t) PROVE Preserved(t)
  <1>1. SITypeOK BY DEF LockInv
  <1>2. UNCHANGED <<node, log, next, open, vec>> /\ tx[t].prog # <<>> /\ tx[t].pc \in ReadPhase
    BY InRead DEF Read, ReadSeq, ReadValue, ReadCheck, ReadOld, RoOldCheck, Insert,
                  Delete, ReadPhase
  <1>3. CASE ReadSeq(t)
    <2>1. CASE Gets(t, Busy, Null) BY <1>2, <2>1, GetsPreserves
    <2>2. CASE /\ Loads(t) /\ tx'[t].prog = tx[t].prog /\ tx'[t].pc \in {"val", "old"}
      BY <1>2, <2>2, LoadsPreserves DEF ReadPhase
    <2> QED BY <1>1, <1>3, <2>1, <2>2, ReadSeqEffect
  <1>4. CASE ReadValue(t)
    <2>1. /\ Loads(t)
          /\ \/ tx'[t].pc = "chk" /\ tx'[t].prog = tx[t].prog
             \/ tx'[t].pc \in {"exec", "stopped"}
      BY <1>1, <1>2, <1>4, ReadValueEffect
    <2> QED BY <1>2, <2>1, LoadsPreserves DEF ReadPhase
  <1>5. CASE ReadCheck(t)
    <2>1. CASE Loads(t) /\ tx'[t].pc = "exec"
      BY <1>2, <2>1, LoadsPreserves DEF ReadPhase
    <2> QED BY <1>1, <1>2, <1>5, <2>1, ReadCheckEffect, GetsPreserves
  <1>6. ASSUME NEW c, Walks(t, c) PROVE Preserved(t)
    BY <1>2, <1>6, GetsPreserves DEF Walks
  <1>7. CASE ReadOld(t)
    <2>1. CASE Loads(t) /\ tx'[t].pc = "ochk" /\ tx'[t].prog = tx[t].prog
      BY <1>2, <2>1, LoadsPreserves DEF ReadPhase
    <2> QED BY <1>1, <1>2, <1>6, <1>7, <2>1, ReadOldEffect
  <1>8. CASE RoOldCheck(t)
    <2>1. CASE Loads(t) /\ tx'[t].pc = "exec"
      BY <1>2, <2>1, LoadsPreserves DEF ReadPhase
    <2> QED BY <1>1, <1>2, <1>6, <1>8, <2>1, RoOldCheckEffect
  <1>9. CASE Insert(t) BY <1>1, <1>2, <1>9, InsertEffect, GetsPreserves
  <1>10. ASSUME NEW j \in DOMAIN tx[t].rwset, Marks(t, j) PROVE Preserved(t)
    <2> DEFINE it == [tx[t].rwset[j] EXCEPT !.kind = "del", !.w = TRUE]
    <2>1. tx[t].rwset \in Seq(Item) /\ tx[t].rwset[j] \in Item BY <1>1, Fields, LocalItem
    <2>2. it.key = tx[t].rwset[j].key BY <2>1 DEF Item
    <2>3. tx'[t].rwset = [tx[t].rwset EXCEPT ![j] = it] BY <1>10 DEF Marks
    <2> HIDE DEF it
    <2>4. /\ DOMAIN tx'[t].rwset = DOMAIN tx[t].rwset
          /\ \A i \in DOMAIN tx[t].rwset : tx'[t].rwset[i].key = tx[t].rwset[i].key
      BY <2>1, <2>2, <2>3
    <2>5. Control(t) BY DEF LockInv
    <2>6. /\ \A i \in DOMAIN tx'[t].rwset : IsLocal(t, tx'[t].rwset[i].key)
          /\ \A i \in DOMAIN tx'[t].rset : ~IsLocal(t, tx'[t].rset[i].key)
      BY <1>10, <2>4, <2>5 DEF Control, Marks
    <2>7. tx[t].pc \in Free /\ tx'[t].pc \in Free /\ tx'[t].pc = "exec"
      BY <1>2, <1>10 DEF Free, ReadPhase, Marks
    <2>8. tx'[t].current = 0 /\ tx'[t].todo = tx[t].todo /\ tx'[t].i = tx[t].i /\ Alone(t)
      BY <1>10, <2>5, <2>7 DEF Control, Marks, SameEnd
    <2>9. StoreTypes BY <1>1, <1>2, StoreUnchanged
    <2> QED BY <1>2, <2>6, <2>7, <2>8, <2>9, Quiet
  <1>11. CASE Delete(t) BY <1>1, <1>2, <1>10, <1>11, DeleteEffect, GetsPreserves
  <1> QED BY <1>3, <1>4, <1>5, <1>7, <1>8, <1>9, <1>11 DEF Read

\* The steps of end() leave both sets alone; what Control asks of the rest.
HoldStep(t) ==
  /\ Alone(t) /\ SameData(t)
  /\ tx'[t].todo \subseteq RemoteWrites(t)
  /\ tx'[t].pc \notin RpcPhase => tx'[t].todo = {}
  /\ tx'[t].i > 0 /\ tx'[t].current <= Len(tx[t].rwset)
  /\ tx'[t].pc \notin Free
  /\ tx'[t].pc = "lock_remote" => tx'[t].current = 0
  /\ tx'[t].pc = "lock_all" =>
       /\ tx'[t].current < tx'[t].i
       /\ \A j \in LocalWrites(t) : j < tx'[t].i => j <= tx'[t].current

\* A step of end() as HoldStep describes it keeps Control.
LEMMA HoldStepControl ==
  ASSUME LockInv, NEW t \in Tx, HoldStep(t)
  PROVE  /\ LocalWrites(t)' = LocalWrites(t) /\ RemoteWrites(t)' = RemoteWrites(t)
         /\ Control(t)'
  <1>1. LocalWrites(t)' = LocalWrites(t) /\ RemoteWrites(t)' = RemoteWrites(t)
    BY DEF HoldStep, SameData, LocalWrites, RemoteWrites
  <1>2. /\ \A i \in DOMAIN tx[t].rwset : IsLocal(t, tx[t].rwset[i].key)
        /\ \A i \in DOMAIN tx[t].rset : ~IsLocal(t, tx[t].rset[i].key)
    BY DEF LockInv, Control
  <1>3. Control(t)'
    BY <1>1, <1>2 DEF Control, HoldStep, SameData, Free, IsLocal
  <1> QED BY <1>1, <1>3

\* The items on the books name records.
LEMMA HeldKeys ==
  ASSUME LockInv, NEW t \in Tx
  PROVE  /\ \A i \in LocalHeld(t) : tx[t].rwset[i].key \in Key
         /\ \A i \in RemoteMayHold(t) : tx[t].rset[i].key \in Key
         /\ \A i \in RemoteHeld(t) : tx[t].rset[i].key \in Key
  <1>1. SITypeOK BY DEF LockInv
  <1>2. /\ \A i \in DOMAIN tx[t].rwset : tx[t].rwset[i].key \in Key
        /\ \A i \in DOMAIN tx[t].rset : tx[t].rset[i].key \in Key
    BY <1>1, LocalItem, RemoteItem
  <1> QED BY <1>2 DEF LocalHeld, LocalWrites, RemoteHeld, RemoteMayHold, RemoteWrites

\* A step of end() that changes no lock preserves the invariant when it leaves
\* the held items as they are, promises no more and forgets none.
LEMMA SameHeld ==
  ASSUME LockInv, NEW t \in Tx, HoldStep(t), StoreTypes,
         \A k \in Key : node'[k].lock = node[k].lock,
         LocalHeld(t)' = LocalHeld(t), RemoteHeld(t)' \subseteq RemoteHeld(t),
         RemoteMayHold(t) \subseteq RemoteMayHold(t)'
  PROVE  Preserved(t)
  <1>1. SITypeOK' BY DEF HoldStep, Alone, StoreTypes, SITypeOK
  <1>2. tx'[t].rwset = tx[t].rwset /\ tx'[t].rset = tx[t].rset BY DEF HoldStep, SameData
  <1>3. Locks(t) BY DEF LockInv
  <1>4. Locks(t)' BY <1>2, <1>3, HeldKeys DEF Locks
  <1>5. Control(t)' BY HoldStepControl
  <1> QED BY <1>1, <1>4, <1>5 DEF Preserved, LockStep, HoldStep

\* Taking a free lock preserves the invariant when one item on that record, and
\* no other, comes onto the books.
LEMMA TakeLock ==
  ASSUME LockInv, NEW t \in Tx, HoldStep(t), StoreTypes,
         NEW k \in Key, node[k].lock = NoTx, node'[k].lock = t,
         \A h \in Key : h # k => node'[h].lock = node[h].lock,
         LocalHeld(t) \subseteq LocalHeld(t)',
         RemoteMayHold(t) \subseteq RemoteMayHold(t)',
         \A i \in LocalHeld(t)' \ LocalHeld(t) : tx[t].rwset[i].key = k,
         \A i, j \in LocalHeld(t)' \ LocalHeld(t) : i = j,
         \A i \in RemoteHeld(t)' \ RemoteHeld(t) : tx[t].rset[i].key = k,
         \A i, j \in RemoteHeld(t)' \ RemoteHeld(t) : i = j,
         \/ \E i \in LocalHeld(t)' : tx[t].rwset[i].key = k
         \/ \E i \in RemoteMayHold(t)' : tx[t].rset[i].key = k
  PROVE  Preserved(t)
  <1>1. SITypeOK' BY DEF HoldStep, Alone, StoreTypes, SITypeOK
  <1>2. tx'[t].rwset = tx[t].rwset /\ tx'[t].rset = tx[t].rset BY DEF HoldStep, SameData
  <1>3. Locks(t) /\ t # NoTx BY SIAssumption DEF LockInv
  <1>4. /\ \A i \in LocalHeld(t) : tx[t].rwset[i].key # k /\ tx[t].rwset[i].key \in Key
        /\ \A i \in RemoteHeld(t) : tx[t].rset[i].key # k /\ tx[t].rset[i].key \in Key
    BY <1>3, HeldKeys DEF Locks
  <1>5. \A h \in Key : node'[h].lock = t =>
          \/ \E i \in LocalHeld(t)' : tx[t].rwset[i].key = h
          \/ \E i \in RemoteMayHold(t)' : tx[t].rset[i].key = h
    BY <1>3 DEF Locks
  <1>6. /\ \A i \in LocalHeld(t)' : node'[tx[t].rwset[i].key].lock = t
        /\ \A i \in RemoteHeld(t)' : node'[tx[t].rset[i].key].lock = t
    BY <1>3, <1>4 DEF Locks
  <1>7. \A i, j \in LocalHeld(t)' : tx[t].rwset[i].key = tx[t].rwset[j].key => i = j
    BY <1>3, <1>4 DEF Locks
  <1>8. \A i, j \in RemoteHeld(t)' : tx[t].rset[i].key = tx[t].rset[j].key => i = j
    BY <1>3, <1>4 DEF Locks
  <1>9. Locks(t)' BY <1>2, <1>5, <1>6, <1>7, <1>8 DEF Locks
  <1>10. Control(t)' BY HoldStepControl
  <1> QED BY <1>1, <1>9, <1>10 DEF Preserved, LockStep, HoldStep

\* Freeing a lock that t holds preserves the invariant when exactly the items on
\* that record leave the books.
LEMMA GiveBack ==
  ASSUME LockInv, NEW t \in Tx, HoldStep(t), StoreTypes,
         NEW k \in Key, node[k].lock = t, node'[k].lock = NoTx,
         \A h \in Key : h # k => node'[h].lock = node[h].lock,
         LocalHeld(t)' = {j \in LocalHeld(t) : tx[t].rwset[j].key # k},
         RemoteHeld(t)' \subseteq {j \in RemoteHeld(t) : tx[t].rset[j].key # k},
         \A j \in RemoteMayHold(t) : tx[t].rset[j].key # k => j \in RemoteMayHold(t)'
  PROVE  Preserved(t)
  <1>1. SITypeOK' BY DEF HoldStep, Alone, StoreTypes, SITypeOK
  <1>2. tx'[t].rwset = tx[t].rwset /\ tx'[t].rset = tx[t].rset BY DEF HoldStep, SameData
  <1>3. Locks(t) /\ t # NoTx BY SIAssumption DEF LockInv
  <1>4. \A h \in Key : node'[h].lock = t =>
          \/ \E i \in LocalHeld(t)' : tx[t].rwset[i].key = h
          \/ \E i \in RemoteMayHold(t)' : tx[t].rset[i].key = h
    <2> SUFFICES ASSUME NEW h \in Key, node'[h].lock = t
                 PROVE  \/ \E i \in LocalHeld(t)' : tx[t].rwset[i].key = h
                        \/ \E i \in RemoteMayHold(t)' : tx[t].rset[i].key = h
      OBVIOUS
    <2>1. h # k /\ node[h].lock = t BY <1>3
    <2>2. CASE \E i \in LocalHeld(t) : tx[t].rwset[i].key = h BY <2>1, <2>2
    <2>3. CASE \E i \in RemoteMayHold(t) : tx[t].rset[i].key = h BY <2>1, <2>3
    <2> QED BY <1>3, <2>1, <2>2, <2>3 DEF Locks
  <1>5. /\ \A i \in LocalHeld(t)' : node'[tx[t].rwset[i].key].lock = t
        /\ \A i \in RemoteHeld(t)' : node'[tx[t].rset[i].key].lock = t
    BY <1>3, HeldKeys DEF Locks
  <1>6. /\ \A i, j \in LocalHeld(t)' :
             tx[t].rwset[i].key = tx[t].rwset[j].key => i = j
        /\ \A i, j \in RemoteHeld(t)' :
             tx[t].rset[i].key = tx[t].rset[j].key => i = j
    BY <1>3 DEF Locks
  <1>7. Locks(t)' BY <1>2, <1>4, <1>5, <1>6 DEF Locks
  <1>8. Control(t)' BY HoldStepControl
  <1> QED BY <1>1, <1>7, <1>8 DEF Preserved, LockStep, HoldStep

\* The arithmetic of the loop indices.
LEMMA Indices ==
  ASSUME LockInv, NEW t \in Tx
  PROVE  /\ tx[t].i \in Nat /\ tx[t].i > 0 /\ tx[t].i + 1 \in Nat
         /\ tx[t].current \in Nat /\ Len(tx[t].rwset) \in Nat
         /\ DOMAIN tx[t].rwset = 1..Len(tx[t].rwset)
         /\ tx[t].current <= Len(tx[t].rwset)
         /\ \A j \in LocalWrites(t) : j \in Nat /\ 1 <= j /\ j <= Len(tx[t].rwset)
  <1>1. SITypeOK /\ Control(t) BY DEF LockInv
  <1>2. tx[t].rwset \in Seq(Item) /\ tx[t].i \in Nat /\ tx[t].current \in Nat
    BY <1>1, Fields
  <1> QED BY SMTT(30), <1>1, <1>2 DEF Control, LocalWrites

\* What a step of end() must satisfy to keep Control, on the values it assigns.
LEMMA EndHoldStep ==
  ASSUME LockInv, NEW t \in Tx, NEW pc, NEW c, NEW i, NEW todo, NEW ok, NEW sw, NEW ts,
         EndTo(t, pc, c, i, todo, ok, sw, ts), pc \notin Free,
         todo \subseteq RemoteWrites(t), pc \notin RpcPhase => todo = {},
         i > 0, c <= Len(tx[t].rwset), pc = "lock_remote" => c = 0,
         pc = "lock_all" => /\ c < i
                            /\ \A j \in LocalWrites(t) : j < i => j <= c
  PROVE  /\ HoldStep(t) /\ Control(t)' /\ tx'[t].pc = pc /\ tx'[t].current = c
         /\ tx'[t].i = i /\ tx'[t].todo = todo /\ tx'[t].ok = ok
         /\ LocalWrites(t)' = LocalWrites(t) /\ RemoteWrites(t)' = RemoteWrites(t)
  <1>1. HoldStep(t) BY DEF EndTo, HoldStep
  <1> QED BY <1>1, HoldStepControl DEF EndTo

\* lock_remote() sends the lock requests.
LEMMA EndPreserves ==
  ASSUME LockInv, NEW t \in Tx, End(t) PROVE Preserved(t)
  <1>1. /\ SITypeOK /\ Control(t) /\ tx[t].pc = "exec"
        /\ UNCHANGED <<node, log, next, open, vec>>
    BY DEF LockInv, End
  <1>2. tx[t].current = 0 BY <1>1 DEF Control, Free, ReadPhase
  <1>3. /\ HoldStep(t) /\ tx'[t].pc = "lock_remote" /\ tx'[t].todo = RemoteWrites(t)
        /\ RemoteWrites(t)' = RemoteWrites(t)
    BY <1>1, <1>2, EndEffect, EndHoldStep, Indices DEF Free, ReadPhase, RpcPhase
  <1>4. LocalHeld(t)' = {} /\ RemoteHeld(t)' = {} BY <1>3 DEF LocalHeld, RemoteHeld
  <1>5. LocalHeld(t) = {} /\ RemoteMayHold(t) = {} BY <1>1 DEF LocalHeld, RemoteMayHold
  <1> QED BY <1>1, <1>3, <1>4, <1>5, SameHeld, StoreUnchanged

\* The jump to ABORT keeps every lock on the books until it is released.
LEMMA AbortPreserves ==
  ASSUME LockInv, NEW t \in Tx, tx[t].pc \in {"lock_remote", "lock_all"},
         EndTo(t, "release_remote", tx[t].current, tx[t].i, RemoteWrites(t), tx[t].ok,
               tx[t].swapped, tx[t].commit_ts),
         UNCHANGED <<node, log, next, open, vec>>
  PROVE  Preserved(t)
  <1>1. SITypeOK /\ Control(t) BY DEF LockInv
  <1>2. /\ HoldStep(t) /\ tx'[t].pc = "release_remote" /\ tx'[t].todo = RemoteWrites(t)
        /\ tx'[t].current = tx[t].current
        /\ RemoteWrites(t)' = RemoteWrites(t) /\ LocalWrites(t)' = LocalWrites(t)
    BY EndHoldStep, Indices DEF Free, ReadPhase, RpcPhase
  <1>3. RemoteHeld(t)' = {} /\ RemoteMayHold(t)' = RemoteWrites(t)
    BY <1>2 DEF RemoteHeld, RemoteMayHold
  <1>4. LocalHeld(t)' = {i \in LocalWrites(t) : i <= tx[t].current}
    BY <1>2 DEF LocalHeld
  <1>5. LocalHeld(t) = {i \in LocalWrites(t) : i <= tx[t].current}
    <2>1. CASE tx[t].pc = "lock_remote"
      <3>1. tx[t].current = 0 BY <1>1, <2>1 DEF Control
      <3> QED BY <2>1, <3>1, Indices DEF LocalHeld
    <2>2. CASE tx[t].pc = "lock_all" BY <2>2 DEF LocalHeld
    <2> QED BY <2>1, <2>2
  <1>6. RemoteMayHold(t) \subseteq RemoteWrites(t) BY DEF RemoteMayHold
  <1> QED BY <1>1, <1>2, <1>3, <1>4, <1>5, <1>6, SameHeld, StoreUnchanged

\* _check_res(): on success all remote writes are locked.
LEMMA LockRepliesPreserves ==
  ASSUME LockInv, NEW t \in Tx, LockReplies(t) PROVE Preserved(t)
  <1>1. /\ SITypeOK /\ Control(t) /\ tx[t].pc = "lock_remote" /\ tx[t].todo = {}
        /\ UNCHANGED <<node, log, next, open, vec>>
    BY DEF LockInv, LockReplies
  <1>2. CASE EndTo(t, "release_remote", tx[t].current, tx[t].i, RemoteWrites(t), tx[t].ok,
                   tx[t].swapped, tx[t].commit_ts)
    BY <1>1, <1>2, AbortPreserves
  <1>3. CASE /\ tx[t].ok
             /\ EndTo(t, "lock_all", tx[t].current, 1, tx[t].todo, tx[t].ok,
                      tx[t].swapped, tx[t].commit_ts)
    <2>1. tx[t].current = 0 BY <1>1 DEF Control
    <2>2. /\ tx[t].current < 1 /\ tx[t].current <= Len(tx[t].rwset) /\ 1 > 0
          /\ \A j \in LocalWrites(t) : j < 1 => j <= tx[t].current
          /\ "lock_all" \notin Free /\ "lock_all" # "lock_remote"
          /\ tx[t].todo \subseteq RemoteWrites(t)
      BY <1>1, <2>1, Indices DEF Free, ReadPhase
    <2>3. /\ HoldStep(t) /\ tx'[t].pc = "lock_all" /\ tx'[t].current = tx[t].current
          /\ RemoteWrites(t)' = RemoteWrites(t) /\ LocalWrites(t)' = LocalWrites(t)
      <3>1. /\ Alone(t) /\ SameData(t) /\ tx'[t].pc = "lock_all" /\ tx'[t].i = 1
            /\ tx'[t].current = tx[t].current /\ tx'[t].todo = {}
        BY <1>1, <1>3 DEF EndTo
      <3>2. HoldStep(t) BY <2>2, <3>1 DEF HoldStep
      <3> QED BY <3>1, <3>2, HoldStepControl
    <2>4. LocalHeld(t) = {} /\ LocalHeld(t)' = {}
      BY <1>1, <2>1, <2>3, Indices DEF LocalHeld
    <2>5. /\ RemoteHeld(t) = RemoteWrites(t) /\ RemoteHeld(t)' = RemoteWrites(t)
          /\ RemoteMayHold(t) = RemoteWrites(t) /\ RemoteMayHold(t)' = RemoteWrites(t)
      BY <1>1, <1>3, <2>3 DEF RemoteHeld, RemoteMayHold
    <2> QED BY <1>1, <2>3, <2>4, <2>5, SameHeld, StoreUnchanged
  <1> QED BY <1>1, <1>2, <1>3, LockRepliesEffect

\* What assigning one node's lock does.
LEMMA LockValue ==
  ASSUME LockInv, NEW k \in Key, NEW v \in Tx \cup {NoTx},
         node' = [node EXCEPT ![k].lock = v], UNCHANGED <<log, next, open, vec>>
  PROVE  /\ StoreTypes /\ node'[k].lock = v
         /\ \A h \in Key : h # k => node'[h].lock = node[h].lock
  <1>1. SITypeOK BY DEF LockInv
  <1>2. NodeTo(k, v, node[k].seq, node[k].value, node[k].old) BY <1>1, LockUpdate
  <1> QED BY <1>1, <1>2 DEF NodeTo, StoreTypes, SITypeOK

\* LockAllSet: the lock just taken was free, so it is none of those t holds
\* already, and `current' now covers it.
LEMMA LockAllSetPreserves ==
  ASSUME LockInv, NEW t \in Tx, LockAllSet(t) PROVE Preserved(t)
  <1> DEFINE n == tx[t].i
             it == tx[t].rwset[n]
  <1>1. /\ SITypeOK /\ Control(t) /\ tx[t].pc = "lock_all" /\ n \in DOMAIN tx[t].rwset
        /\ UNCHANGED <<log, next, open, vec>>
    BY DEF LockInv, LockAllSet
  <1>2. /\ tx[t].todo = {} /\ tx[t].current < n
        /\ \A j \in LocalWrites(t) : j < n => j <= tx[t].current
    BY <1>1 DEF Control, RpcPhase
  <1>3. it.key \in Key BY <1>1, LocalItem
  <1>4. LocalHeld(t) = {j \in LocalWrites(t) : j <= tx[t].current} BY <1>1 DEF LocalHeld
  <1>5. CASE /\ ~it.w /\ UNCHANGED node
             /\ EndTo(t, "lock_all", tx[t].current, n + 1, tx[t].todo, tx[t].ok,
                      tx[t].swapped, tx[t].commit_ts)
    <2>1. n \notin LocalWrites(t) BY <1>5 DEF LocalWrites
    <2>2. tx[t].current < n + 1 /\ \A j \in LocalWrites(t) : j < n + 1 => j <= tx[t].current
      BY <1>2, <2>1, Indices
    <2>3. /\ HoldStep(t) /\ tx'[t].pc = "lock_all" /\ tx'[t].current = tx[t].current
          /\ RemoteWrites(t)' = RemoteWrites(t) /\ LocalWrites(t)' = LocalWrites(t)
      BY <1>2, <1>5, <2>2, EndHoldStep, Indices DEF Free, ReadPhase, RpcPhase
    <2>4. /\ LocalHeld(t)' = LocalHeld(t) /\ RemoteHeld(t)' = RemoteHeld(t)
          /\ RemoteMayHold(t)' = RemoteMayHold(t)
      BY <1>1, <2>3 DEF LocalHeld, RemoteHeld, RemoteMayHold
    <2> QED BY <1>1, <1>5, <2>3, <2>4, SameHeld, StoreUnchanged
  <1>6. CASE /\ UNCHANGED node
             /\ EndTo(t, "release_remote", tx[t].current, n, RemoteWrites(t),
                      tx[t].ok, tx[t].swapped, tx[t].commit_ts)
    BY <1>1, <1>6, AbortPreserves
  <1>7. CASE /\ it.w /\ node[it.key].lock = NoTx
             /\ node' = [node EXCEPT ![it.key].lock = t]
             /\ \/ EndTo(t, "release_remote", n, n, RemoteWrites(t),
                         tx[t].ok, tx[t].swapped, tx[t].commit_ts)
                \/ EndTo(t, "lock_all", n, n + 1, tx[t].todo, tx[t].ok,
                         tx[t].swapped, tx[t].commit_ts)
    <2>1. n \in LocalWrites(t) /\ n <= Len(tx[t].rwset) BY <1>1, <1>7, Indices DEF LocalWrites
    <2>2. n < n + 1 /\ \A j \in LocalWrites(t) : j < n + 1 => j <= n
      BY <1>2, Indices
    <2>3. /\ HoldStep(t) /\ tx'[t].pc \in {"lock_all", "release_remote"}
          /\ tx'[t].current = n
          /\ tx'[t].pc = "release_remote" => tx'[t].todo = RemoteWrites(t)
          /\ RemoteWrites(t)' = RemoteWrites(t) /\ LocalWrites(t)' = LocalWrites(t)
      <3>1. CASE EndTo(t, "release_remote", n, n, RemoteWrites(t),
                       tx[t].ok, tx[t].swapped, tx[t].commit_ts)
        BY <2>1, <3>1, EndHoldStep, Indices DEF Free, ReadPhase, RpcPhase
      <3>2. CASE EndTo(t, "lock_all", n, n + 1, tx[t].todo, tx[t].ok,
                       tx[t].swapped, tx[t].commit_ts)
        BY <1>2, <2>1, <2>2, <3>2, EndHoldStep, Indices DEF Free, ReadPhase, RpcPhase
      <3> QED BY <1>7, <3>1, <3>2
    <2>4. LocalHeld(t)' = {j \in LocalWrites(t) : j <= n} BY <2>3 DEF LocalHeld
    <2>5. LocalHeld(t)' = LocalHeld(t) \cup {n} BY <1>2, <1>4, <2>1, <2>4, Indices
    <2>6. RemoteHeld(t)' \subseteq RemoteHeld(t) /\ RemoteMayHold(t)' = RemoteMayHold(t)
      BY <1>1, <2>3 DEF RemoteHeld, RemoteMayHold
    <2>7. /\ StoreTypes /\ node'[it.key].lock = t
          /\ \A h \in Key : h # it.key => node'[h].lock = node[h].lock
      BY <1>1, <1>3, <1>7, LockValue
    <2>8. /\ \A i \in LocalHeld(t)' \ LocalHeld(t) : i = n
          /\ n \in LocalHeld(t)' /\ RemoteHeld(t)' \ RemoteHeld(t) = {}
      BY <2>5, <2>6
    <2> QED BY <1>3, <1>7, <2>3, <2>5, <2>6, <2>7, <2>8, TakeLock
  <1> QED BY <1>1, <1>5, <1>6, <1>7, LockAllSetEffect

\* The timestamp service's steps keep the types.
LEMMA ClockTypes ==
  ASSUME SITypeOK, NEW p \in Part, NEW c, TakeTs(p) \/ EndTs(p, c)
  PROVE  /\ next' \in [Part -> Nat] /\ open' \in [Part -> SUBSET Nat] /\ vec' = vec
  <1>1. next[p] \in Nat /\ next[p] + 1 \in Nat /\ open[p] \subseteq Nat BY DEF SITypeOK
  <1>2. open[p] \cup {next[p]} \in SUBSET Nat /\ open[p] \ {c} \in SUBSET Nat BY <1>1
  <1> QED BY <1>1, <1>2 DEF SITypeOK, TakeTs, EndTs

\* After LockAllSet every local write is locked.
LEMMA GetCommitTsPreserves ==
  ASSUME LockInv, NEW t \in Tx, GetCommitTs(t) PROVE Preserved(t)
  <1>1. /\ SITypeOK /\ Control(t) /\ tx[t].pc = "lock_all" /\ tx[t].todo = {}
        /\ tx[t].i \notin DOMAIN tx[t].rwset /\ UNCHANGED <<node, log>>
    BY DEF LockInv, GetCommitTs, Control, RpcPhase
  <1>2. StoreTypes
    <2>1. Home[t] \in Part BY SIAssumption
    <2> QED BY <1>1, <2>1, ClockTypes DEF GetCommitTs, StoreTypes, SITypeOK
  <1>3. /\ Alone(t) /\ SameData(t) /\ tx'[t].pc = "commit" /\ tx'[t].i = 1
        /\ tx'[t].current = tx[t].current /\ tx'[t].todo = {}
    BY <1>1, GetCommitTsEffect DEF EndTo
  <1>4. HoldStep(t) BY <1>3, Indices DEF HoldStep, Free, ReadPhase, RpcPhase
  <1>5. LocalWrites(t)' = LocalWrites(t) /\ RemoteWrites(t)' = RemoteWrites(t)
    BY <1>4, HoldStepControl
  <1>6. \A j \in LocalWrites(t) : j >= 1 /\ j <= tx[t].current
    BY <1>1, Indices DEF Control
  <1>7. LocalHeld(t)' = LocalWrites(t) BY <1>3, <1>5, <1>6 DEF LocalHeld
  <1>8. LocalHeld(t) = LocalWrites(t) BY <1>1, <1>6 DEF LocalHeld
  <1>9. RemoteHeld(t)' = RemoteHeld(t) /\ RemoteMayHold(t)' = RemoteMayHold(t)
    BY <1>1, <1>3, <1>5 DEF RemoteHeld, RemoteMayHold
  <1> QED BY <1>1, <1>2, <1>4, <1>7, <1>8, <1>9, SameHeld

\* After CommitLocalWrite only remote locks are left.
LEMMA CommitRemotePreserves ==
  ASSUME LockInv, NEW t \in Tx, CommitRemote(t) PROVE Preserved(t)
  <1>1. /\ SITypeOK /\ tx[t].pc = "commit" /\ tx[t].i \notin DOMAIN tx[t].rwset
        /\ UNCHANGED <<node, log, next, open, vec>>
    BY DEF LockInv, CommitRemote
  <1>2. /\ HoldStep(t) /\ tx'[t].pc = "commit_remote" /\ tx'[t].todo = RemoteWrites(t)
        /\ RemoteWrites(t)' = RemoteWrites(t)
    BY <1>1, CommitRemoteEffect, EndHoldStep, Indices DEF Free, ReadPhase, RpcPhase
  <1>3. \A j \in LocalWrites(t) : ~(tx[t].i <= j) BY <1>1, Indices
  <1>4. LocalHeld(t)' = {} /\ LocalHeld(t) = {} BY <1>1, <1>2, <1>3 DEF LocalHeld
  <1>5. RemoteHeld(t)' = RemoteHeld(t) /\ RemoteMayHold(t)' = RemoteMayHold(t)
    BY <1>1, <1>2 DEF RemoteHeld, RemoteMayHold
  <1> QED BY <1>1, <1>2, <1>4, <1>5, SameHeld, StoreUnchanged

\* After the write-backs t holds no lock.
LEMMA CommitRepliesPreserves ==
  ASSUME LockInv, NEW t \in Tx, CommitReplies(t) PROVE Preserved(t)
  <1>1. /\ SITypeOK /\ tx[t].pc = "commit_remote" /\ tx[t].todo = {}
        /\ UNCHANGED <<node, log, next, open, vec>>
    BY DEF LockInv, CommitReplies
  <1>2. HoldStep(t) /\ tx'[t].pc = "report"
    BY <1>1, CommitRepliesEffect, EndHoldStep, Indices DEF Free, ReadPhase, RpcPhase
  <1>3. /\ LocalHeld(t)' = {} /\ LocalHeld(t) = {}
        /\ RemoteHeld(t)' = {} /\ RemoteMayHold(t) = {}
    BY <1>1, <1>2 DEF LocalHeld, RemoteHeld, RemoteMayHold
  <1> QED BY <1>1, <1>2, <1>3, SameHeld, StoreUnchanged

\* The report touches no lock.
LEMMA CommitTsPreserves ==
  ASSUME LockInv, NEW t \in Tx, CommitTs(t) PROVE Preserved(t)
  <1>1. /\ SITypeOK /\ tx[t].pc = "report" /\ tx[t].todo = {} /\ UNCHANGED <<node, log>>
    BY DEF LockInv, CommitTs, Control, RpcPhase
  <1>2. StoreTypes
    <2>1. Home[t] \in Part BY SIAssumption
    <2> QED BY <1>1, <2>1, ClockTypes DEF CommitTs, StoreTypes, SITypeOK
  <1>3. HoldStep(t) /\ tx'[t].pc = "committed"
    BY <1>1, CommitTsEffect, EndHoldStep, Indices DEF Free, ReadPhase, RpcPhase
  <1>4. /\ LocalHeld(t)' = {} /\ LocalHeld(t) = {}
        /\ RemoteHeld(t)' = {} /\ RemoteMayHold(t) = {}
    BY <1>1, <1>3 DEF LocalHeld, RemoteHeld, RemoteMayHold
  <1> QED BY <1>1, <1>2, <1>3, <1>4, SameHeld

\* After release_remote() only local locks are left.
LEMMA ReleaseRepliesPreserves ==
  ASSUME LockInv, NEW t \in Tx, ReleaseReplies(t) PROVE Preserved(t)
  <1>1. /\ SITypeOK /\ tx[t].pc = "release_remote" /\ tx[t].todo = {}
        /\ UNCHANGED <<node, log, next, open, vec>>
    BY DEF LockInv, ReleaseReplies
  <1>2. /\ Alone(t) /\ SameData(t) /\ tx'[t].pc = "release_all" /\ tx'[t].i = 1
        /\ tx'[t].current = tx[t].current /\ tx'[t].todo = {}
    BY <1>1, ReleaseRepliesEffect DEF EndTo
  <1>3. HoldStep(t) BY <1>2, Indices DEF HoldStep, Free, ReadPhase, RpcPhase
  <1>4. LocalWrites(t)' = LocalWrites(t) BY <1>3, HoldStepControl
  <1>5. LocalHeld(t)' = LocalHeld(t) BY <1>1, <1>2, <1>4, Indices DEF LocalHeld
  <1>6. RemoteHeld(t)' = {} /\ RemoteMayHold(t) = {}
    BY <1>1, <1>2 DEF RemoteHeld, RemoteMayHold
  <1> QED BY <1>1, <1>3, <1>5, <1>6, SameHeld, StoreUnchanged

\* ReleaseAllSet: lock = 0 is written without a comparison, but only to locks
\* of t, and when the loop ends none is left.
LEMMA ReleaseAllSetPreserves ==
  ASSUME LockInv, NEW t \in Tx, ReleaseAllSet(t) PROVE Preserved(t)
  <1> DEFINE n == tx[t].i
             it == tx[t].rwset[n]
  <1>1. /\ SITypeOK /\ Locks(t) /\ tx[t].pc = "release_all" /\ tx[t].todo = {}
        /\ UNCHANGED <<log, next, open, vec>>
    BY DEF LockInv, ReleaseAllSet, Control, RpcPhase
  <1>2. /\ LocalHeld(t) = {j \in LocalWrites(t) : n <= j /\ j <= tx[t].current}
        /\ RemoteHeld(t) = {} /\ RemoteMayHold(t) = {}
    BY <1>1 DEF LocalHeld, RemoteHeld, RemoteMayHold
  <1>3. CASE /\ n > tx[t].current /\ UNCHANGED node
             /\ EndTo(t, "aborted", tx[t].current, n, tx[t].todo, tx[t].ok,
                      tx[t].swapped, tx[t].commit_ts)
    <2>1. HoldStep(t) /\ tx'[t].pc = "aborted"
      BY <1>1, <1>3, EndHoldStep, Indices DEF Free, ReadPhase, RpcPhase
    <2>2. LocalHeld(t)' = {} /\ RemoteHeld(t)' = {} BY <2>1 DEF LocalHeld, RemoteHeld
    <2>3. LocalHeld(t) = {} BY <1>2, <1>3, Indices
    <2> QED BY <1>1, <1>2, <1>3, <2>1, <2>2, <2>3, SameHeld, StoreUnchanged
  <1>4. CASE /\ n <= tx[t].current
             /\ node' = IF it.w THEN [node EXCEPT ![it.key].lock = NoTx] ELSE node
             /\ EndTo(t, "release_all", tx[t].current, n + 1, tx[t].todo, tx[t].ok,
                      tx[t].swapped, tx[t].commit_ts)
    <2>1. /\ HoldStep(t) /\ tx'[t].pc = "release_all" /\ tx'[t].current = tx[t].current
          /\ tx'[t].i = n + 1 /\ LocalWrites(t)' = LocalWrites(t)
      BY <1>1, <1>4, EndHoldStep, Indices DEF Free, ReadPhase, RpcPhase
    <2>2. LocalHeld(t)' = {j \in LocalWrites(t) : n + 1 <= j /\ j <= tx[t].current}
      BY <2>1 DEF LocalHeld
    <2>3. LocalHeld(t)' = LocalHeld(t) \ {n} BY <1>2, <2>2, Indices
    <2>4. RemoteHeld(t)' = {} BY <2>1 DEF RemoteHeld
    <2>5. n \in DOMAIN tx[t].rwset /\ it.key \in Key
      <3>1. n \in DOMAIN tx[t].rwset BY <1>4, Indices
      <3> QED BY <1>1, <3>1, LocalItem
    <2>6. CASE ~it.w
      <3>1. n \notin LocalHeld(t) BY <1>2, <2>6 DEF LocalWrites
      <3> QED BY <1>1, <1>2, <1>4, <2>1, <2>3, <2>4, <2>6, <3>1, SameHeld, StoreUnchanged
    <2>7. CASE it.w
      <3>1. n \in LocalHeld(t) BY <1>2, <1>4, <2>5, <2>7, Indices DEF LocalWrites
      <3>2. node[it.key].lock = t BY <1>1, <3>1 DEF Locks
      <3>3. LocalHeld(t)' = {j \in LocalHeld(t) : tx[t].rwset[j].key # it.key}
        BY <1>1, <2>3, <3>1 DEF Locks
      <3>4. /\ StoreTypes /\ node'[it.key].lock = NoTx
            /\ \A h \in Key : h # it.key => node'[h].lock = node[h].lock
        BY <1>1, <1>4, <2>5, <2>7, LockValue
      <3> QED BY <1>2, <2>1, <2>4, <2>5, <3>2, <3>3, <3>4, GiveBack
    <2> QED BY <2>6, <2>7
  <1> QED BY <1>1, <1>3, <1>4, ReleaseAllSetEffect

\* The item a server works on is a remote write of the sender.
LEMMA NextAtItem ==
  ASSUME LockInv, NEW t \in Tx, NEW i \in tx[t].todo
  PROVE  /\ i \in RemoteWrites(t) /\ i \in DOMAIN tx[t].rset
         /\ tx[t].rset[i] \in Item /\ tx[t].rset[i].key \in Key
         /\ ~IsLocal(t, tx[t].rset[i].key)
  <1>1. SITypeOK /\ Control(t) BY DEF LockInv
  <1>2. i \in RemoteWrites(t) BY <1>1 DEF Control
  <1>3. i \in DOMAIN tx[t].rset BY <1>2 DEF RemoteWrites
  <1> QED BY <1>1, <1>2, <1>3, RemoteItem DEF Control

\* The first steps of an install change neither locks nor books.
LEMMA InstallPreserves ==
  ASSUME LockInv, NEW t \in Tx, tx[t].pc \in {"commit", "commit_remote"},
         NEW it \in Item, NEW ver, Hides(t, it) \/ Swaps(t, it, ver)
  PROVE  Preserved(t)
  <1>1. SITypeOK /\ Control(t) /\ it.key \in Key BY DEF LockInv, Item
  <1>2. /\ Alone(t) /\ SameData(t) /\ tx'[t].pc = tx[t].pc
        /\ tx'[t].current = tx[t].current /\ tx'[t].i = tx[t].i
        /\ tx'[t].todo = tx[t].todo /\ tx'[t].ok = tx[t].ok
    BY DEF Hides, Swaps, EndTo
  <1>3. StoreTypes /\ \A k \in Key : node'[k].lock = node[k].lock
    BY <1>1 DEF Hides, Swaps, NodeTo, SITypeOK, StoreTypes, SameClocks
  <1>4. HoldStep(t) BY <1>1, <1>2 DEF HoldStep, Control, Free, ReadPhase, RpcPhase
  <1>5. LocalWrites(t)' = LocalWrites(t) /\ RemoteWrites(t)' = RemoteWrites(t)
    BY <1>4, HoldStepControl
  <1>6. /\ LocalHeld(t)' = LocalHeld(t) /\ RemoteHeld(t)' = RemoteHeld(t)
        /\ RemoteMayHold(t)' = RemoteMayHold(t)
    BY <1>2, <1>5 DEF LocalHeld, RemoteHeld, RemoteMayHold
  <1> QED BY <1>3, <1>4, <1>6, SameHeld

\* CommitLocalWrite: the lock freed after an install is one of t, and the local
\* items still to be installed are still locked.
LEMMA CommitLocalWritePreserves ==
  ASSUME LockInv, NEW t \in Tx, CommitLocalWrite(t) PROVE Preserved(t)
  <1> DEFINE n == tx[t].i
             it == tx[t].rwset[n]
  <1>1. /\ SITypeOK /\ Control(t) /\ Locks(t) /\ tx[t].pc = "commit"
        /\ n \in DOMAIN tx[t].rwset /\ tx[t].todo = {}
    BY DEF LockInv, CommitLocalWrite, Control, RpcPhase
  <1>2. it \in Item /\ it.key \in Key BY <1>1, LocalItem
  <1>3. LocalHeld(t) = {j \in LocalWrites(t) : n <= j} BY <1>1 DEF LocalHeld
  <1>4. ASSUME NEW sw, EndTo(t, "commit", tx[t].current, n + 1, tx[t].todo, tx[t].ok,
                             sw, tx[t].commit_ts)
        PROVE  /\ HoldStep(t) /\ LocalHeld(t)' = LocalHeld(t) \ {n}
               /\ RemoteHeld(t)' = RemoteHeld(t) /\ RemoteMayHold(t)' = RemoteMayHold(t)
    <2>1. /\ HoldStep(t) /\ tx'[t].pc = "commit" /\ tx'[t].i = n + 1
          /\ LocalWrites(t)' = LocalWrites(t) /\ RemoteWrites(t)' = RemoteWrites(t)
      BY <1>1, <1>4, EndHoldStep, Indices DEF Free, ReadPhase, RpcPhase
    <2>2. LocalHeld(t)' = {j \in LocalWrites(t) : n + 1 <= j} BY <2>1 DEF LocalHeld
    <2>3. LocalHeld(t)' = LocalHeld(t) \ {n} BY <1>3, <2>2, Indices
    <2> QED BY <1>1, <2>1, <2>3 DEF RemoteHeld, RemoteMayHold
  <1>5. CASE /\ ~it.w /\ UNCHANGED <<node, log, next, open, vec>>
             /\ EndTo(t, "commit", tx[t].current, n + 1, tx[t].todo, tx[t].ok,
                      tx[t].swapped, tx[t].commit_ts)
    <2>1. n \notin LocalHeld(t) BY <1>3, <1>5 DEF LocalWrites
    <2> QED BY <1>1, <1>4, <1>5, <2>1, SameHeld, StoreUnchanged
  <1>6. CASE Hides(t, it) \/ Swaps(t, it, it.seq) BY <1>1, <1>2, <1>6, InstallPreserves
  <1>7. CASE it.w /\ Publishes(t, it, n + 1, tx[t].todo)
    <2>1. EndTo(t, "commit", tx[t].current, n + 1, tx[t].todo, tx[t].ok,
                tx[t].swapped \ {PartOf[it.key]}, tx[t].commit_ts)
      BY <1>1, <1>7 DEF Publishes
    <2>2. /\ StoreTypes /\ node'[it.key].lock = NoTx
          /\ \A h \in Key : h # it.key => node'[h].lock = node[h].lock
      BY <1>1, <1>7 DEF Publishes, NodeTo, StoreTypes, SITypeOK, SameClocks
    <2>3. n \in LocalHeld(t) BY <1>1, <1>3, <1>7, Indices DEF LocalWrites
    <2>4. node[it.key].lock = t BY <1>1, <2>3 DEF Locks
    <2>5. LocalHeld(t) \ {n} = {j \in LocalHeld(t) : tx[t].rwset[j].key # it.key}
      BY <1>1, <2>3 DEF Locks
    <2>6. \A j \in RemoteHeld(t) : tx[t].rset[j].key # it.key
      <3>1. IsLocal(t, it.key) BY <1>1 DEF Control
      <3>2. \A j \in RemoteHeld(t) : ~IsLocal(t, tx[t].rset[j].key)
        BY <1>1 DEF Control, RemoteHeld, RemoteWrites
      <3> QED BY <3>1, <3>2
    <2>7. /\ HoldStep(t) /\ LocalHeld(t)' = LocalHeld(t) \ {n}
          /\ RemoteHeld(t)' = RemoteHeld(t) /\ RemoteMayHold(t)' = RemoteMayHold(t)
      BY <1>4, <2>1
    <2> QED BY <1>2, <2>2, <2>4, <2>5, <2>6, <2>7, GiveBack
  <1> QED BY <1>1, <1>5, <1>6, <1>7, CommitLocalWriteEffect

\* commit_rpc_handler2: as CommitLocalWrite, for the items of one server.
LEMMA CommitRpcHandlerPreserves ==
  ASSUME LockInv, NEW t \in Tx, NEW i \in tx[t].todo, CommitRpcHandler(t, i)
  PROVE  Preserved(t)
  <1> DEFINE it == tx[t].rset[i]
  <1>1. SITypeOK /\ Control(t) /\ Locks(t) /\ tx[t].pc = "commit_remote"
    BY DEF LockInv, CommitRpcHandler
  <1>2. i \in RemoteWrites(t) /\ i \in DOMAIN tx[t].rset /\ it \in Item /\ it.key \in Key
    BY NextAtItem
  <1>3. CASE Hides(t, it) \/ Swaps(t, it, node[it.key].seq)
    BY <1>1, <1>2, <1>3, InstallPreserves
  <1>4. CASE Publishes(t, it, tx[t].i, tx[t].todo \ {i})
    <2>1. /\ RemoteHeld(t) = tx[t].todo /\ RemoteMayHold(t) = tx[t].todo /\ LocalHeld(t) = {}
      BY <1>1 DEF RemoteHeld, RemoteMayHold, LocalHeld, Control
    <2>2. EndTo(t, "commit_remote", tx[t].current, tx[t].i, tx[t].todo \ {i}, tx[t].ok,
                tx[t].swapped \ {PartOf[it.key]}, tx[t].commit_ts)
      BY <1>1, <1>4 DEF Publishes
    <2>3. tx[t].todo \ {i} \subseteq RemoteWrites(t) BY <1>1 DEF Control
    <2>4. /\ HoldStep(t) /\ tx'[t].pc = "commit_remote" /\ tx'[t].todo = tx[t].todo \ {i}
          /\ RemoteWrites(t)' = RemoteWrites(t)
      BY <2>2, <2>3, EndHoldStep, Indices DEF Free, ReadPhase, RpcPhase
    <2>5. /\ RemoteHeld(t)' = tx[t].todo \ {i} /\ RemoteMayHold(t)' = tx[t].todo \ {i}
          /\ LocalHeld(t)' = {}
      BY <2>3, <2>4 DEF RemoteHeld, RemoteMayHold, LocalHeld
    <2>6. /\ StoreTypes /\ node'[it.key].lock = NoTx
          /\ \A h \in Key : h # it.key => node'[h].lock = node[h].lock
      BY <1>1, <1>4 DEF Publishes, NodeTo, StoreTypes, SITypeOK, SameClocks
    <2>7. node[it.key].lock = t BY <1>1, <2>1 DEF Locks
    <2>8. \A j \in tx[t].todo : tx[t].rset[j].key = it.key => j = i
      BY <1>1, <2>1 DEF Locks
    <2> QED BY <1>2, <2>1, <2>4, <2>5, <2>6, <2>7, <2>8, GiveBack
  <1> QED BY <1>1, <1>2, <1>3, <1>4, CommitRpcHandlerEffect

\* release_rpc_handler: the compare-and-swap frees nothing that others hold, and
\* what it leaves alone t did not hold.
LEMMA ReleaseRpcHandlerPreserves ==
  ASSUME LockInv, NEW t \in Tx, NEW i \in tx[t].todo, ReleaseRpcHandler(t, i)
  PROVE  Preserved(t)
  <1> DEFINE k == tx[t].rset[i].key
  <1>1. /\ SITypeOK /\ Control(t) /\ Locks(t) /\ tx[t].pc = "release_remote"
        /\ UNCHANGED <<log, next, open, vec>>
    BY DEF LockInv, ReleaseRpcHandler
  <1>2. k \in Key /\ ~IsLocal(t, k) BY NextAtItem
  <1>3. tx[t].todo \ {i} \subseteq RemoteWrites(t) BY <1>1 DEF Control
  <1>4. /\ HoldStep(t) /\ tx'[t].pc = "release_remote" /\ tx'[t].todo = tx[t].todo \ {i}
        /\ tx'[t].current = tx[t].current
        /\ RemoteWrites(t)' = RemoteWrites(t) /\ LocalWrites(t)' = LocalWrites(t)
    <2> DEFINE left == tx[t].todo \ {i}
    <2>1. EndTo(t, "release_remote", tx[t].current, tx[t].i, left, tx[t].ok,
                tx[t].swapped, tx[t].commit_ts)
      BY <1>1, ReleaseRpcHandlerEffect
    <2> HIDE DEF left
    <2>2. left \subseteq RemoteWrites(t) BY <1>3 DEF left
    <2>3. /\ HoldStep(t) /\ tx'[t].pc = "release_remote" /\ tx'[t].todo = left
          /\ tx'[t].current = tx[t].current
          /\ RemoteWrites(t)' = RemoteWrites(t) /\ LocalWrites(t)' = LocalWrites(t)
      BY <2>1, <2>2, EndHoldStep, Indices DEF Free, ReadPhase, RpcPhase
    <2> QED BY <2>3 DEF left
  <1>5. /\ RemoteHeld(t)' = {} /\ LocalHeld(t)' = LocalHeld(t)
        /\ RemoteMayHold(t)' = RemoteMayHold(t) \ {i}
    BY <1>1, <1>4 DEF RemoteHeld, RemoteMayHold, LocalHeld
  <1>6. \A j \in LocalHeld(t) : tx[t].rwset[j].key # k
    <2>1. \A j \in LocalHeld(t) : IsLocal(t, tx[t].rwset[j].key)
      BY <1>1 DEF Control, LocalHeld, LocalWrites
    <2> QED BY <1>2, <2>1
  <1>7. CASE node[k].lock = t
    <2>1. node' = [node EXCEPT ![k].lock = NoTx] BY <1>7 DEF ReleaseRpcHandler
    <2>2. /\ StoreTypes /\ node'[k].lock = NoTx
          /\ \A h \in Key : h # k => node'[h].lock = node[h].lock
      BY <1>1, <1>2, <2>1, LockValue
    <2>3. LocalHeld(t)' = {j \in LocalHeld(t) : tx[t].rwset[j].key # k}
      BY <1>5, <1>6
    <2>4. \A j \in RemoteMayHold(t) : tx[t].rset[j].key # k => j \in RemoteMayHold(t)'
      BY <1>5
    <2> HIDE DEF k
    <2> QED BY <1>2, <1>4, <1>5, <1>7, <2>2, <2>3, <2>4, GiveBack
  <1>8. CASE node[k].lock # t
    <2>1. UNCHANGED node BY <1>8 DEF ReleaseRpcHandler
    <2>2. \A h \in Key : node[h].lock = t =>
            \/ \E j \in LocalHeld(t)' : tx[t].rwset[j].key = h
            \/ \E j \in RemoteMayHold(t)' : tx[t].rset[j].key = h
      <3>1. \A h \in Key : node[h].lock = t => h # k BY <1>8
      <3> QED BY <1>1, <1>5, <3>1 DEF Locks
    <2>3. tx'[t].rwset = tx[t].rwset /\ tx'[t].rset = tx[t].rset
      BY <1>4 DEF HoldStep, SameData
    <2> HIDE DEF k
    <2>4. Locks(t)' BY <1>1, <1>5, <2>1, <2>2, <2>3 DEF Locks
    <2>5. StoreTypes BY <1>1, <2>1, StoreUnchanged
    <2>6. SITypeOK' BY <1>4, <2>5 DEF HoldStep, Alone, StoreTypes, SITypeOK
    <2>7. Control(t)' /\ Alone(t) BY <1>4, HoldStepControl DEF HoldStep
    <2> QED BY <2>1, <2>4, <2>6, <2>7 DEF Preserved, LockStep
  <1> QED BY <1>7, <1>8

\* lock_rpc_handler: a failure in the middle of a request leaves locks behind,
\* all of them on items the release request will name.
LEMMA LockRpcHandlerPreserves ==
  ASSUME LockInv, NEW t \in Tx, NEW i \in tx[t].todo, LockRpcHandler(t, i)
  PROVE  Preserved(t)
  <1> DEFINE it == tx[t].rset[i]
  <1>1. /\ SITypeOK /\ Control(t) /\ Locks(t) /\ tx[t].pc = "lock_remote"
        /\ tx[t].current = 0 /\ UNCHANGED <<log, next, open, vec>>
    BY DEF LockInv, LockRpcHandler, Control
  <1>2. i \in RemoteWrites(t) /\ it.key \in Key BY NextAtItem
  <1>3. /\ LocalHeld(t) = {} /\ RemoteMayHold(t) = RemoteWrites(t)
        /\ RemoteHeld(t) = {j \in RemoteWrites(t) : tx[t].ok /\ j \notin tx[t].todo}
    BY <1>1 DEF LocalHeld, RemoteMayHold, RemoteHeld
  <1>4. ASSUME NEW todo, NEW ok, todo \subseteq tx[t].todo,
               EndTo(t, "lock_remote", tx[t].current, tx[t].i, todo, ok,
                     tx[t].swapped, tx[t].commit_ts)
        PROVE  /\ HoldStep(t) /\ LocalHeld(t)' = {} /\ RemoteMayHold(t)' = RemoteWrites(t)
               /\ RemoteHeld(t)' = {j \in RemoteWrites(t) : ok /\ j \notin todo}
    <2>1. todo \subseteq RemoteWrites(t) BY <1>1, <1>4 DEF Control
    <2>2. /\ HoldStep(t) /\ tx'[t].pc = "lock_remote" /\ tx'[t].todo = todo /\ tx'[t].ok = ok
          /\ RemoteWrites(t)' = RemoteWrites(t)
      BY <1>1, <1>4, <2>1, EndHoldStep, Indices DEF Free, ReadPhase, RpcPhase
    <2> QED BY <2>2 DEF LocalHeld, RemoteMayHold, RemoteHeld
  <1>5. \/ /\ UNCHANGED node
           /\ EndTo(t, "lock_remote", tx[t].current, tx[t].i, Rest(t, i), FALSE,
                    tx[t].swapped, tx[t].commit_ts)
        \/ /\ TakesLock(t, it.key)
           /\ \/ EndTo(t, "lock_remote", tx[t].current, tx[t].i, Rest(t, i), FALSE,
                       tx[t].swapped, tx[t].commit_ts)
              \/ EndTo(t, "lock_remote", tx[t].current, tx[t].i, Left(t, i), tx[t].ok,
                       tx[t].swapped, tx[t].commit_ts)
    BY <1>1, LockRpcHandlerEffect
  <1>6. Rest(t, i) \subseteq tx[t].todo /\ Left(t, i) \subseteq tx[t].todo BY DEF Rest, Left
  <1>7. CASE /\ UNCHANGED node
             /\ EndTo(t, "lock_remote", tx[t].current, tx[t].i, Rest(t, i), FALSE,
                      tx[t].swapped, tx[t].commit_ts)
    <2>1. /\ HoldStep(t) /\ LocalHeld(t)' = {} /\ RemoteMayHold(t)' = RemoteWrites(t)
          /\ RemoteHeld(t)' = {}
      BY <1>4, <1>6, <1>7
    <2> QED BY <1>1, <1>3, <1>7, <2>1, SameHeld, StoreUnchanged
  <1>8. CASE /\ TakesLock(t, it.key)
             /\ \/ EndTo(t, "lock_remote", tx[t].current, tx[t].i, Rest(t, i), FALSE,
                         tx[t].swapped, tx[t].commit_ts)
                \/ EndTo(t, "lock_remote", tx[t].current, tx[t].i, Left(t, i), tx[t].ok,
                         tx[t].swapped, tx[t].commit_ts)
    <2>1. /\ HoldStep(t) /\ LocalHeld(t)' = {} /\ RemoteMayHold(t)' = RemoteWrites(t)
          /\ \/ RemoteHeld(t)' = {}
             \/ RemoteHeld(t)' = {j \in RemoteWrites(t) : tx[t].ok /\ j \notin Left(t, i)}
      BY <1>4, <1>6, <1>8
    <2>2. RemoteHeld(t)' \subseteq RemoteHeld(t) \cup {i} BY <1>3, <2>1 DEF Left
    <2>3. /\ StoreTypes /\ node'[it.key].lock = t
          /\ \A h \in Key : h # it.key => node'[h].lock = node[h].lock
      BY <1>1, <1>2, <1>8, LockValue DEF TakesLock
    <2> QED BY <1>2, <1>3, <1>8, <2>1, <2>2, <2>3, TakeLock DEF TakesLock
  <1> QED BY <1>5, <1>7, <1>8

-----------------------------------------------------------------------------
\* Every action preserves the invariant.
LEMMA StepPreserves ==
  ASSUME LockInv, NEW t \in Tx, Step(t) PROVE Preserved(t)
  <1>1. CASE Begin(t) BY <1>1, BeginPreserves
  <1>2. CASE Read(t) BY <1>2, ReadPreserves
  <1>3. CASE EndSteps(t)
    BY <1>3, EndPreserves, LockRepliesPreserves, LockAllSetPreserves,
       GetCommitTsPreserves, CommitLocalWritePreserves, CommitRemotePreserves,
       CommitRepliesPreserves, CommitTsPreserves, ReleaseRepliesPreserves,
       ReleaseAllSetPreserves DEF EndSteps
  <1>4. CASE Serve(t)
    BY <1>4, LockRpcHandlerPreserves, CommitRpcHandlerPreserves,
       ReleaseRpcHandlerPreserves DEF Serve
  <1> QED BY <1>1, <1>2, <1>3, <1>4 DEF Step

\* A transaction loses and gains no lock by steps of others: locks of u are
\* neither NoTx nor t, so LockStep(t) leaves them alone.
LEMMA OthersUndisturbed ==
  ASSUME LockInv, NEW t \in Tx, Preserved(t), NEW u \in Tx, u # t
  PROVE  Control(u)' /\ Locks(u)'
  <1>1. tx'[u] = tx[u] BY DEF Preserved, Alone
  <1>2. Control(u) /\ Locks(u) BY DEF LockInv
  <1>3. /\ LocalHeld(u)' = LocalHeld(u) /\ RemoteHeld(u)' = RemoteHeld(u)
        /\ RemoteMayHold(u)' = RemoteMayHold(u)
        /\ LocalWrites(u)' = LocalWrites(u) /\ RemoteWrites(u)' = RemoteWrites(u)
    BY <1>1 DEF LocalHeld, RemoteHeld, RemoteMayHold, LocalWrites, RemoteWrites
  <1>4. Control(u)' BY <1>1, <1>2, <1>3 DEF Control, IsLocal
  <1>5. \A k \in Key : node'[k].lock = u <=> node[k].lock = u
    <2>1. u # NoTx /\ t # NoTx BY SIAssumption
    <2> QED BY <2>1 DEF Preserved, LockStep
  <1>6. Locks(u)' BY <1>1, <1>2, <1>3, <1>5, HeldKeys DEF Locks
  <1> QED BY <1>4, <1>6

\* The loaded store, before any transaction, satisfies the invariant.
LEMMA InitLockInv == ASSUME SIInit PROVE LockInv
  <1>1. SITypeOK
    <2>1. node \in [Key -> MemNode]
      <3>1. ASSUME NEW k \in Key PROVE node[k] \in MemNode
        BY Versions DEF SIInit, MemNode, Val
      <3> QED BY <3>1 DEF SIInit
    <2>2. tx \in [Tx -> TxState]
      <3>1. "idle" \in PC /\ Null \in Val BY DEF PC, Val
      <3> QED BY <3>1, Versions DEF SIInit, TxState
    <2>3. log \in [Key -> Seq(Version)]
      <3>1. <<[ver |-> First, by |-> Loaded]>> \in Seq(Version)
        BY Versions DEF Version, Val
      <3> QED BY <3>1 DEF SIInit
    <2>4. /\ next \in [Part -> Nat] /\ open \in [Part -> SUBSET Nat]
          /\ vec \in [Tx -> [Part -> Nat]]
      BY DEF SIInit, VTInit
    <2> QED BY <2>1, <2>2, <2>3, <2>4 DEF SITypeOK
  <1>2. ASSUME NEW t \in Tx PROVE Control(t) /\ Locks(t)
    <2>1. /\ tx[t].pc = "idle" /\ tx[t].rwset = <<>> /\ tx[t].rset = <<>>
          /\ tx[t].todo = {} /\ tx[t].i = 1 /\ tx[t].current = 0
      BY DEF SIInit
    <2>2. Control(t) BY <2>1 DEF Control, ReadPhase, RpcPhase
    <2>3. \A k \in Key : node[k].lock = NoTx BY DEF SIInit
    <2>4. t # NoTx BY SIAssumption
    <2>5. LocalHeld(t) = {} /\ RemoteHeld(t) = {} /\ RemoteMayHold(t) = {}
      BY <2>1 DEF LocalHeld, RemoteHeld, RemoteMayHold
    <2> QED BY <2>2, <2>3, <2>4, <2>5 DEF Locks
  <1> QED BY <1>1, <1>2 DEF LockInv

\* LockInv is inductive.
LEMMA NextLockInv == ASSUME LockInv, [SINext]_sivars PROVE LockInv'
  <1>1. ASSUME NEW t \in Tx, Step(t) PROVE LockInv'
    <2>1. Preserved(t) BY <1>1, StepPreserves
    <2>2. SITypeOK' /\ Control(t)' /\ Locks(t)' BY <2>1 DEF Preserved
    <2>3. \A u \in Tx : Control(u)' /\ Locks(u)'
      BY <2>1, <2>2, OthersUndisturbed
    <2> QED BY <2>2, <2>3 DEF LockInv
  <1>2. CASE UNCHANGED sivars
    <2>1. node' = node /\ tx' = tx BY <1>2 DEF sivars
    <2>2. SITypeOK' BY <1>2 DEF sivars, LockInv, SITypeOK
    <2>3. ASSUME NEW t \in Tx PROVE Control(t)' /\ Locks(t)'
      <3>1. Control(t) /\ Locks(t) BY DEF LockInv
      <3>2. /\ LocalWrites(t)' = LocalWrites(t) /\ RemoteWrites(t)' = RemoteWrites(t)
            /\ LocalHeld(t)' = LocalHeld(t) /\ RemoteHeld(t)' = RemoteHeld(t)
            /\ RemoteMayHold(t)' = RemoteMayHold(t)
        BY <2>1 DEF LocalWrites, RemoteWrites, LocalHeld, RemoteHeld, RemoteMayHold
      <3>3. Control(t)' BY <2>1, <3>1, <3>2 DEF Control, IsLocal
      <3>4. Locks(t)' BY <2>1, <3>1, <3>2 DEF Locks
      <3> QED BY <3>3, <3>4
    <2> QED BY <2>2, <2>3 DEF LockInv
  <1> QED BY <1>1, <1>2 DEF SINext, Terminated

\* The lock bookkeeping of end() and of the lock, release and commit handlers is
\* right in every reachable state, for any instance.
THEOREM SILockInvariance == SISpec => []LockInv
  <1>1. SIInit => LockInv BY InitLockInv
  <1>2. LockInv /\ [SINext]_sivars => LockInv' BY NextLockInv
  <1> QED BY <1>1, <1>2, PTL DEF SISpec

\* Every reachable state is well typed.
THEOREM SITypeCorrect == SISpec => []SITypeOK
  <1>1. LockInv => SITypeOK BY DEF LockInv
  <1> QED BY <1>1, SILockInvariance, PTL

\* CommitLocalWrite and commit_rpc_handler2 install under the transaction's own
\* lock only, and no lock outlives its transaction, whichever way end() left.
THEOREM UnderLock == SISpec => []InstallsUnderLock
  <1>1. LockInv => InstallsUnderLock
    <2> SUFFICES ASSUME LockInv, NEW t \in Tx
                 PROVE  /\ tx[t].pc = "commit" => \A i \in DOMAIN tx[t].rwset :
                             i >= tx[t].i /\ tx[t].rwset[i].w
                               => node[tx[t].rwset[i].key].lock = t
                        /\ tx[t].pc \in {"commit", "commit_remote"} =>
                             \A i \in RemoteWrites(t) :
                               tx[t].pc = "commit" \/ i \in tx[t].todo
                                 => node[tx[t].rset[i].key].lock = t
                        /\ tx[t].pc \in Finished => \A k \in Key : node[k].lock # t
      BY DEF InstallsUnderLock
    <2>1. Locks(t) BY DEF LockInv
    <2>2. tx[t].i \in Nat /\ \A j \in LocalWrites(t) : j \in Nat BY Indices
    <2>3. tx[t].pc = "commit" => \A i \in DOMAIN tx[t].rwset :
            i >= tx[t].i /\ tx[t].rwset[i].w => i \in LocalHeld(t)
      BY <2>2 DEF LocalHeld, LocalWrites
    <2>4. tx[t].pc \in {"commit", "commit_remote"} => \A i \in RemoteWrites(t) :
            tx[t].pc = "commit" \/ i \in tx[t].todo => i \in RemoteHeld(t)
      BY DEF RemoteHeld
    <2>5. tx[t].pc \in Finished => LocalHeld(t) = {} /\ RemoteMayHold(t) = {}
      BY DEF Finished, LocalHeld, RemoteMayHold
    <2> QED BY <2>1, <2>3, <2>4, <2>5 DEF Locks
  <1> QED BY <1>1, SILockInvariance, PTL

-----------------------------------------------------------------------------
(* The steps by what they do to the clocks and to the versions.              *)

\* The phases between taking a commit timestamp and reporting it.
Installing == {"commit", "commit_remote", "report"}

\* t is about to write, or is writing, an item of record k.
Working(t, k) ==
  \/ tx[t].pc = "commit" /\ tx[t].i \in LocalWrites(t) /\ k = tx[t].rwset[tx[t].i].key
  \/ tx[t].pc = "commit_remote" /\ \E i \in tx[t].todo : NextAt(t, i) /\ k = tx[t].rset[i].key

\* The steps into and within end() leave the sets and the snapshot alone.
InEnd(t) == SameData(t) /\ tx'[t].pc \notin Free

\* The steps that touch neither the clocks nor t's timestamp.
KeepsClocks(t) ==
  /\ SameClocks /\ tx'[t].commit_ts = tx[t].commit_ts
  /\ tx[t].pc \notin {"idle", "committed"} /\ tx'[t].pc \notin {"idle", "committed"}
  /\ tx[t].pc \in Installing <=> tx'[t].pc \in Installing

\* The steps that write to no version of a record.
SameVersions ==
  /\ log' = log
  /\ \A k \in Key : /\ node'[k].seq = node[k].seq /\ node'[k].value = node[k].value
                    /\ node'[k].old = node[k].old
NoInstall(t) ==
  /\ SameVersions /\ tx'[t].swapped = tx[t].swapped /\ \A k \in Key : ~Working(t, k)
  /\ tx[t].pc \in Stamped =>
       tx'[t].pc \in Stamped /\ tx'[t].commit_ts = tx[t].commit_ts
  /\ tx[t].pc \notin {"lock_remote", "lock_all"} =>
       \A k \in Key : node'[k].lock = t => node[k].lock = t

\* The steps that do, on the item of the loop index or on the next one of a server.
Installs(t) ==
  \/ /\ tx[t].pc = "commit" /\ tx[t].i \in LocalWrites(t)
     /\ \E it \in Item :
          /\ it = tx[t].rwset[tx[t].i]
          /\ Hides(t, it) \/ Swaps(t, it, it.seq)
             \/ Publishes(t, it, tx[t].i + 1, tx[t].todo)
  \/ /\ tx[t].pc = "commit_remote"
     /\ \E i \in tx[t].todo, it \in Item :
          /\ NextAt(t, i) /\ it = tx[t].rset[i]
          /\ Hides(t, it) \/ Swaps(t, it, node[it.key].seq)
             \/ Publishes(t, it, tx[t].i, tx[t].todo \ {i})

\* A step between phases of execution, or out of them.
ReadsOnly(t) ==
  Alone(t) /\ SameEnd(t) /\ tx'[t].pc \in ReadPhase \cup {"ro_done", "stopped"}

\* The steps of get(), get_ro(), insert() and delete_() work on t's sets only.
LEMMA ReadFields ==
  ASSUME LockInv, NEW t \in Tx, Read(t)
  PROVE  /\ Alone(t) /\ SameEnd(t) /\ tx[t].pc \in ReadPhase /\ tx[t].prog # <<>>
         /\ tx'[t].pc \in ReadPhase \cup {"ro_done", "stopped"}
         /\ UNCHANGED <<node, log, next, open, vec>>
  <1>1. SITypeOK BY DEF LockInv
  <1>2. UNCHANGED <<node, log, next, open, vec>> /\ tx[t].prog # <<>> /\ tx[t].pc \in ReadPhase
    BY InRead DEF Read, ReadSeq, ReadValue, ReadCheck, ReadOld, RoOldCheck, Insert,
                  Delete, ReadPhase
  <1>3. ASSUME NEW s, NEW v, Gets(t, s, v) PROVE ReadsOnly(t)
    BY <1>3 DEF Gets, ReadPhase, ReadsOnly
  <1>4. ASSUME NEW c, Walks(t, c) PROVE ReadsOnly(t) BY <1>3, <1>4 DEF Walks
  <1>5. ASSUME Loads(t), tx'[t].pc \in ReadPhase \cup {"ro_done", "stopped"}
        PROVE  ReadsOnly(t)
    BY <1>5 DEF Loads, ReadsOnly
  <1>6. ASSUME NEW j, Marks(t, j) PROVE ReadsOnly(t)
    BY <1>6 DEF Marks, ReadPhase, ReadsOnly
  <1>7. {"val", "old", "chk", "ochk", "exec"} \subseteq ReadPhase BY DEF ReadPhase
  <1>8. ReadsOnly(t)
    <2>1. CASE ReadSeq(t) BY <1>1, <1>3, <1>5, <1>7, <2>1, ReadSeqEffect
    <2>2. CASE ReadValue(t) BY <1>1, <1>2, <1>5, <1>7, <2>2, ReadValueEffect
    <2>3. CASE ReadCheck(t) BY <1>1, <1>2, <1>3, <1>5, <1>7, <2>3, ReadCheckEffect
    <2>4. CASE ReadOld(t) BY <1>1, <1>2, <1>4, <1>5, <1>7, <2>4, ReadOldEffect
    <2>5. CASE RoOldCheck(t) BY <1>1, <1>2, <1>4, <1>5, <1>7, <2>5, RoOldCheckEffect
    <2>6. CASE Insert(t) BY <1>1, <1>3, <2>6, InsertEffect
    <2>7. CASE Delete(t) BY <1>1, <1>3, <1>6, <2>7, DeleteEffect
    <2> QED BY <2>1, <2>2, <2>3, <2>4, <2>5, <2>6, <2>7 DEF Read
  <1> QED BY <1>2, <1>8 DEF ReadsOnly

\* A step within end() to phase pc.
EndMove(t, pc) ==
  /\ SameData(t) /\ tx'[t].pc = pc /\ tx'[t].swapped = tx[t].swapped
  /\ tx'[t].commit_ts = tx[t].commit_ts

\* What holds of t after a step that is in end() before and after, and keeps node,
\* or changes one lock in it.
LEMMA EndKinds ==
  ASSUME LockInv, NEW t \in Tx, NEW pc, EndMove(t, pc), SameClocks, log' = log,
         tx[t].pc \notin {"idle", "committed"}, pc \notin Free \cup {"committed"},
         tx[t].pc \in Installing <=> pc \in Installing,
         \A k \in Key : ~Working(t, k),
         \/ UNCHANGED node
         \/ \E k \in Key, v \in {t, NoTx} :
              /\ node' = [node EXCEPT ![k].lock = v]
              /\ v = t => tx[t].pc \in {"lock_remote", "lock_all"}
  PROVE  KeepsClocks(t) /\ NoInstall(t) /\ InEnd(t)
  <1>1. /\ tx'[t].pc = pc /\ tx'[t].swapped = tx[t].swapped
        /\ tx'[t].commit_ts = tx[t].commit_ts /\ InEnd(t)
    BY DEF EndMove, InEnd
  <1>2. KeepsClocks(t) BY <1>1 DEF KeepsClocks, Free
  <1>3. t # NoTx BY SIAssumption
  <1>4. SameVersions /\ (tx[t].pc \notin {"lock_remote", "lock_all"} =>
                           \A k \in Key : node'[k].lock = t => node[k].lock = t)
    <2>1. CASE UNCHANGED node BY <2>1 DEF SameVersions
    <2>2. ASSUME NEW k \in Key, NEW v \in {t, NoTx}, node' = [node EXCEPT ![k].lock = v],
                 v = t => tx[t].pc \in {"lock_remote", "lock_all"}
          PROVE  SameVersions /\ (tx[t].pc \notin {"lock_remote", "lock_all"} =>
                           \A h \in Key : node'[h].lock = t => node[h].lock = t)
      <3>1. NodeTo(k, v, node[k].seq, node[k].value, node[k].old)
        BY <2>2, LockUpdate DEF LockInv
      <3> QED BY <1>3, <2>2, <3>1 DEF SameVersions, NodeTo
    <2> QED BY <2>1, <2>2
  <1>5. tx[t].pc \in Stamped => tx'[t].pc \in Stamped BY <1>1 DEF Stamped, Installing
  <1> QED BY <1>1, <1>2, <1>4, <1>5 DEF NoInstall

\* Reads touch neither.
LEMMA ReadKinds ==
  ASSUME LockInv, NEW t \in Tx, Read(t) PROVE KeepsClocks(t) /\ NoInstall(t)
  <1>1. /\ SameEnd(t) /\ tx[t].pc \in ReadPhase
        /\ tx'[t].pc \in ReadPhase \cup {"ro_done", "stopped"}
        /\ UNCHANGED <<node, log, next, open, vec>>
    BY ReadFields
  <1>2. KeepsClocks(t) BY <1>1 DEF KeepsClocks, SameEnd, SameClocks, ReadPhase, Installing
  <1>3. \A k \in Key : ~Working(t, k) BY <1>1 DEF Working, ReadPhase
  <1> QED BY <1>1, <1>2, <1>3 DEF NoInstall, SameVersions, SameEnd, ReadPhase, Stamped

\* The steps of end() up to the commit timestamp, and the abort path.
LEMMA LockKinds ==
  ASSUME LockInv, NEW t \in Tx,
         \/ End(t) \/ LockReplies(t) \/ LockAllSet(t) \/ ReleaseReplies(t) \/ ReleaseAllSet(t)
         \/ \E i \in tx[t].todo : LockRpcHandler(t, i) \/ ReleaseRpcHandler(t, i)
  PROVE  KeepsClocks(t) /\ NoInstall(t) /\ InEnd(t)
  <1>1. SITypeOK BY DEF LockInv
  <1> DEFINE before == {"exec", "lock_remote", "lock_all", "release_remote", "release_all"}
             after == {"lock_remote", "lock_all", "release_remote", "release_all", "aborted"}
  <1>2. /\ SameClocks /\ log' = log /\ tx[t].pc \in before
    BY DEF End, LockReplies, LockAllSet, ReleaseReplies, ReleaseAllSet, LockRpcHandler,
           ReleaseRpcHandler, SameClocks
  <1>3. \A k \in Key : ~Working(t, k) BY <1>2 DEF Working
  <1>4. \E pc \in after : EndMove(t, pc)
    <2>1. CASE End(t) BY <1>1, <2>1, EndEffect DEF EndTo, EndMove
    <2>2. CASE LockReplies(t) BY <1>1, <2>2, LockRepliesEffect DEF EndTo, EndMove
    <2>3. CASE LockAllSet(t) BY <1>1, <2>3, LockAllSetEffect DEF EndTo, EndMove
    <2>4. CASE ReleaseReplies(t) BY <1>1, <2>4, ReleaseRepliesEffect DEF EndTo, EndMove
    <2>5. CASE ReleaseAllSet(t) BY <1>1, <2>5, ReleaseAllSetEffect DEF EndTo, EndMove
    <2>6. ASSUME NEW i \in tx[t].todo, LockRpcHandler(t, i)
          PROVE  \E pc \in after : EndMove(t, pc)
      BY <1>1, <2>6, LockRpcHandlerEffect DEF EndTo, EndMove
    <2>7. ASSUME NEW i \in tx[t].todo, ReleaseRpcHandler(t, i)
          PROVE  \E pc \in after : EndMove(t, pc)
      BY <1>1, <2>7, ReleaseRpcHandlerEffect DEF EndTo, EndMove
    <2> QED BY <2>1, <2>2, <2>3, <2>4, <2>5, <2>6, <2>7
  <1>5. \/ UNCHANGED node
        \/ \E k \in Key, v \in {t, NoTx} :
              /\ node' = [node EXCEPT ![k].lock = v]
              /\ v = t => tx[t].pc \in {"lock_remote", "lock_all"}
    <2>0. t # NoTx BY SIAssumption
    <2>1. CASE End(t) \/ LockReplies(t) \/ ReleaseReplies(t)
      BY <2>1 DEF End, LockReplies, ReleaseReplies
    <2>2. CASE LockAllSet(t)
      <3>1. tx[t].pc = "lock_all" /\ tx[t].rwset[tx[t].i].key \in Key
        BY <1>1, <2>2, LocalItem DEF LockAllSet
      <3> QED BY <2>2, <3>1 DEF LockAllSet
    <2>3. CASE ReleaseAllSet(t)
      <3>1. tx[t].i > tx[t].current \/ tx[t].rwset[tx[t].i].key \in Key
        BY <1>1, Indices, LocalItem
      <3> DEFINE it == tx[t].rwset[tx[t].i]
      <3>2. tx[t].i \in Nat /\ tx[t].current \in Nat BY Indices
      <3>3. \/ UNCHANGED node
            \/ tx[t].i <= tx[t].current /\ node' = [node EXCEPT ![it.key].lock = NoTx]
        BY <2>3 DEF ReleaseAllSet
      <3>4. tx[t].i <= tx[t].current => it.key \in Key BY <3>1, <3>2
      <3> QED BY <2>0, <3>3, <3>4
    <2>4. ASSUME NEW i \in tx[t].todo, LockRpcHandler(t, i) \/ ReleaseRpcHandler(t, i)
          PROVE  \/ UNCHANGED node
                 \/ \E k \in Key, v \in {t, NoTx} :
                      /\ node' = [node EXCEPT ![k].lock = v]
                      /\ v = t => tx[t].pc \in {"lock_remote", "lock_all"}
      <3>1. tx[t].rset[i].key \in Key BY NextAtItem
      <3> QED BY <2>0, <2>4, <3>1 DEF LockRpcHandler, ReleaseRpcHandler
    <2> QED BY <2>1, <2>2, <2>3, <2>4
  <1>6. PICK pc \in after : EndMove(t, pc) BY <1>4
  <1>7. /\ tx[t].pc \notin {"idle", "committed"} /\ pc \notin Free \cup {"committed"}
        /\ tx[t].pc \in Installing <=> pc \in Installing
    BY <1>2 DEF Installing, Free, ReadPhase
  <1> QED BY <1>2, <1>3, <1>5, <1>6, <1>7, EndKinds

\* The steps of the commit path.
LEMMA CommitKinds ==
  ASSUME LockInv, NEW t \in Tx,
         \/ CommitLocalWrite(t) \/ CommitRemote(t) \/ CommitReplies(t)
         \/ \E i \in tx[t].todo : CommitRpcHandler(t, i)
  PROVE  KeepsClocks(t) /\ (NoInstall(t) \/ Installs(t)) /\ InEnd(t)
  <1>1. SITypeOK BY DEF LockInv
  <1>2. ASSUME NEW it, NEW ver, NEW i, NEW todo, tx[t].pc \in {"commit", "commit_remote"},
               Hides(t, it) \/ Swaps(t, it, ver) \/ Publishes(t, it, i, todo)
        PROVE  KeepsClocks(t) /\ InEnd(t)
    BY <1>2 DEF Hides, Swaps, Publishes, EndTo, KeepsClocks, InEnd, Free, ReadPhase
  <1>3. CASE CommitLocalWrite(t)
    <2> DEFINE it == tx[t].rwset[tx[t].i]
    <2>1. /\ tx[t].pc = "commit" /\ tx[t].i \in DOMAIN tx[t].rwset /\ it \in Item
          /\ tx[t].i \in LocalWrites(t) <=> it.w
      BY <1>1, <1>3, LocalItem DEF CommitLocalWrite, LocalWrites
    <2>2. CASE /\ ~it.w /\ UNCHANGED <<node, log, next, open, vec>>
               /\ EndTo(t, "commit", tx[t].current, tx[t].i + 1, tx[t].todo, tx[t].ok,
                        tx[t].swapped, tx[t].commit_ts)
      <3>1. \A k \in Key : ~Working(t, k) BY <2>1, <2>2 DEF Working
      <3>2. EndMove(t, "commit") /\ SameClocks BY <2>2 DEF EndTo, EndMove, SameClocks
      <3> QED BY <2>1, <2>2, <3>1, <3>2, EndKinds DEF Installing, Free, ReadPhase
    <2>3. CASE it.w /\ (\/ Hides(t, it) \/ Swaps(t, it, it.seq)
                        \/ Publishes(t, it, tx[t].i + 1, tx[t].todo))
      <3>1. KeepsClocks(t) /\ InEnd(t) BY <1>2, <2>1, <2>3
      <3> QED BY <2>1, <2>3, <3>1 DEF Installs
    <2> QED BY <1>1, <1>3, <2>2, <2>3, CommitLocalWriteEffect
  <1>4. CASE CommitRemote(t)
    <2>1. /\ tx[t].pc = "commit" /\ tx[t].i \notin DOMAIN tx[t].rwset
          /\ UNCHANGED <<node, log, next, open, vec>>
      BY <1>4 DEF CommitRemote
    <2>2. \A k \in Key : ~Working(t, k) BY <2>1 DEF Working, LocalWrites
    <2>3. EndMove(t, "commit_remote") /\ SameClocks
      BY <1>1, <1>4, <2>1, CommitRemoteEffect DEF EndTo, EndMove, SameClocks
    <2> QED BY <2>1, <2>2, <2>3, EndKinds DEF Installing, Free, ReadPhase
  <1>5. CASE CommitReplies(t)
    <2>1. /\ tx[t].pc = "commit_remote" /\ tx[t].todo = {}
          /\ UNCHANGED <<node, log, next, open, vec>>
      BY <1>5 DEF CommitReplies
    <2>2. \A k \in Key : ~Working(t, k) BY <2>1 DEF Working
    <2>3. EndMove(t, "report") /\ SameClocks
      BY <1>1, <1>5, <2>1, CommitRepliesEffect DEF EndTo, EndMove, SameClocks
    <2> QED BY <2>1, <2>2, <2>3, EndKinds DEF Installing, Free, ReadPhase
  <1>6. ASSUME NEW i \in tx[t].todo, CommitRpcHandler(t, i)
        PROVE  KeepsClocks(t) /\ Installs(t) /\ InEnd(t)
    <2> DEFINE it == tx[t].rset[i]
    <2>1. tx[t].pc = "commit_remote" /\ NextAt(t, i) BY <1>6 DEF CommitRpcHandler
    <2>2. i \in DOMAIN tx[t].rset /\ it \in Item BY NextAtItem
    <2>3. \/ Hides(t, it) \/ Swaps(t, it, node[it.key].seq)
          \/ Publishes(t, it, tx[t].i, tx[t].todo \ {i})
      BY <1>1, <1>6, <2>2, CommitRpcHandlerEffect
    <2>4. KeepsClocks(t) /\ InEnd(t) BY <1>2, <2>1, <2>3
    <2> QED BY <2>1, <2>2, <2>3, <2>4 DEF Installs
  <1> QED BY <1>3, <1>4, <1>5, <1>6

\* Every step is of one kind in each respect.
LEMMA StepKinds ==
  ASSUME LockInv, NEW t \in Tx, Step(t)
  PROVE  /\ NoInstall(t) \/ Installs(t)
         /\ KeepsClocks(t) \/ Begin(t) \/ GetCommitTs(t) \/ CommitTs(t)
         /\ Begin(t) \/ Read(t) \/ InEnd(t)
  <1>1. SITypeOK BY DEF LockInv
  <1>2. CASE Begin(t)
    <2>1. tx[t].pc = "idle" /\ tx'[t].swapped = tx[t].swapped /\ UNCHANGED <<node, log>>
      BY <1>1, <1>2, BeginEffect
    <2> QED BY <1>2, <2>1 DEF NoInstall, SameVersions, Working, Stamped
  <1>3. CASE GetCommitTs(t)
    <2>1. tx'[t].swapped = tx[t].swapped /\ InEnd(t)
      BY <1>1, <1>3, GetCommitTsEffect DEF EndTo, InEnd, Free, ReadPhase
    <2>2. tx[t].pc = "lock_all" /\ UNCHANGED <<node, log>> BY <1>3 DEF GetCommitTs
    <2> QED BY <1>3, <2>1, <2>2 DEF NoInstall, SameVersions, Working, Stamped
  <1>4. CASE CommitTs(t)
    <2>1. EndMove(t, "committed") BY <1>1, <1>4, CommitTsEffect DEF EndTo, EndMove
    <2>2. tx[t].pc = "report" /\ UNCHANGED <<node, log>> BY <1>4 DEF CommitTs
    <2> QED BY <1>4, <2>1, <2>2 DEF NoInstall, SameVersions, Working, Stamped, EndMove,
                                       InEnd, Free, ReadPhase
  <1>5. CASE Read(t) BY <1>5, ReadKinds
  <1>6. CASE Serve(t) BY <1>6, LockKinds, CommitKinds DEF Serve
  <1>7. CASE EndSteps(t) BY <1>3, <1>4, <1>7, LockKinds, CommitKinds DEF EndSteps
  <1> QED BY <1>2, <1>5, <1>6, <1>7 DEF Step

-----------------------------------------------------------------------------
(* The clocks.  Start vectors stay below every open timestamp, and open      *)
(* timestamps are those of the transactions that are installing.             *)

\* Where next, open and vec stand to each other.
Clocks ==
  /\ \A p \in Part : next[p] >= 3 /\ \A c \in open[p] : 3 <= c /\ c < next[p]
  /\ \A t \in Tx, p \in Part : /\ vec[t][p] < next[p]
                               /\ \A c \in open[p] : vec[t][p] < c
                               /\ tx[t].pc # "idle" => vec[t][p] >= 2

\* The commit timestamp of t is t's own.
Stamp(t) ==
  /\ tx[t].pc \in Installing =>
       \E c \in open[Home[t]] : tx[t].commit_ts = <<Home[t], c>>
  /\ tx[t].pc = "committed" =>
       \E c \in Nat : 3 <= c /\ c < next[Home[t]] /\ tx[t].commit_ts = <<Home[t], c>>
  /\ tx[t].pc \notin Stamped => tx[t].commit_ts = NoVer
  /\ \A u \in Tx : u # t /\ tx[u].commit_ts = tx[t].commit_ts => tx[t].commit_ts = NoVer

\* The inductive invariant of the timestamps.
TsInv == LockInv /\ Clocks /\ (\A t \in Tx : Stamp(t)) /\ TsAccounted

\* A step that leaves the clocks alone preserves the invariant.
LEMMA KeepsTs ==
  ASSUME TsInv, NEW t \in Tx, Alone(t), KeepsClocks(t)
  PROVE  Clocks' /\ (\A u \in Tx : Stamp(u)') /\ TsAccounted'
  <1>1. /\ next' = next /\ open' = open /\ vec' = vec
        /\ \A u \in Tx : tx'[u].commit_ts = tx[u].commit_ts
        /\ \A u \in Tx : tx[u].pc \in Installing <=> tx'[u].pc \in Installing
        /\ \A u \in Tx : tx[u].pc = "committed" <=> tx'[u].pc = "committed"
        /\ \A u \in Tx : tx[u].pc = "idle" <=> tx'[u].pc = "idle"
    BY DEF KeepsClocks, Alone, SameClocks
  <1>2. Clocks' BY <1>1 DEF TsInv, Clocks
  <1>3. ASSUME NEW u \in Tx PROVE Stamp(u)'
    <2>1. tx'[u].pc \in Stamped => tx[u].pc \in Stamped BY <1>1 DEF Stamped, Installing
    <2>2. Stamp(u) BY DEF TsInv
    <2> QED BY <1>1, <2>1, <2>2 DEF Stamp, Stamped, Installing
  <1>4. TsAccounted' BY <1>1 DEF TsInv, TsAccounted, Installing
  <1> QED BY <1>2, <1>3, <1>4

\* get_start_ts: the entries cover ended commits only.
LEMMA BeginTs ==
  ASSUME TsInv, NEW t \in Tx, Begin(t)
  PROVE  Clocks' /\ (\A u \in Tx : Stamp(u)') /\ TsAccounted'
  <1>1. LockInv /\ SITypeOK BY DEF TsInv, LockInv
  <1>2. /\ Alone(t) /\ tx[t].pc = "idle" /\ tx'[t].pc = "exec" /\ next' = next /\ open' = open
        /\ tx'[t].commit_ts = tx[t].commit_ts
    BY <1>1, BeginEffect
  <1>3. PICK w \in StartVectors : vec' = [vec EXCEPT ![t] = w] BY <1>1, BeginEffect
  <1>4. \A p \in Part : w[p] >= 2 /\ w[p] < next[p] /\ \A c \in open[p] : w[p] < c
    <2> TAKE p \in Part
    <2>1. w[p] \in Covers(p) BY <1>1, StartVector
    <2>2. next[p] \in Nat BY <1>1 DEF SITypeOK
    <2> QED BY <2>1, <2>2 DEF Covers
  <1>5. vec'[t] = w /\ \A u \in Tx : u # t => vec'[u] = vec[u] /\ tx'[u] = tx[u]
    BY <1>1, <1>2, <1>3 DEF SITypeOK, Alone
  <1>6. Clocks'
    <2>1. /\ \A p \in Part : next'[p] >= 3 /\ \A c \in open'[p] : 3 <= c /\ c < next'[p]
      BY <1>2 DEF TsInv, Clocks
    <2>2. ASSUME NEW u \in Tx, NEW p \in Part
          PROVE  /\ vec'[u][p] < next'[p] /\ \A c \in open'[p] : vec'[u][p] < c
                 /\ tx'[u].pc # "idle" => vec'[u][p] >= 2
      <3>1. CASE u = t BY <1>2, <1>4, <1>5, <3>1
      <3>2. CASE u # t BY <1>2, <1>5, <3>2 DEF TsInv, Clocks
      <3> QED BY <3>1, <3>2
    <2> QED BY <2>1, <2>2 DEF Clocks
  <1>7. \A u \in Tx : /\ tx'[u].commit_ts = tx[u].commit_ts
                      /\ tx'[u].pc \in Stamped <=> tx[u].pc \in Stamped
                      /\ tx'[u].pc \in Installing <=> tx[u].pc \in Installing
                      /\ tx'[u].pc = "committed" <=> tx[u].pc = "committed"
    BY <1>2, <1>5 DEF Stamped, Installing
  <1>8. \A u \in Tx : Stamp(u)' BY <1>2, <1>7 DEF TsInv, Stamp
  <1>9. TsAccounted' BY <1>2, <1>7 DEF TsInv, TsAccounted, Installing
  <1> QED BY <1>6, <1>8, <1>9

\* get_commit_ts: the new timestamp is above every start vector and is nobody's.
LEMMA TakeTsInv ==
  ASSUME TsInv, NEW t \in Tx, GetCommitTs(t)
  PROVE  Clocks' /\ (\A u \in Tx : Stamp(u)') /\ TsAccounted'
  <1> DEFINE p == Home[t]
             n == next[p]
  <1>1. LockInv /\ SITypeOK /\ p \in Part BY SIAssumption DEF TsInv, LockInv
  <1>2. /\ Alone(t) /\ tx'[t].pc = "commit" /\ tx'[t].commit_ts = <<p, n>>
    BY <1>1, GetCommitTsEffect DEF EndTo
  <1>3. /\ tx[t].pc = "lock_all" /\ vec' = vec
        /\ next' = [next EXCEPT ![p] = @ + 1] /\ open' = [open EXCEPT ![p] = @ \cup {next[p]}]
    BY DEF GetCommitTs, TakeTs
  <1>4. /\ next'[p] = n + 1 /\ open'[p] = open[p] \cup {n} /\ n \in Nat /\ n >= 3
        /\ \A q \in Part : q # p => next'[q] = next[q] /\ open'[q] = open[q]
    BY <1>1, <1>3 DEF SITypeOK, TsInv, Clocks
  <1>5. /\ \A q \in Part : next[q] \in Nat /\ open[q] \subseteq Nat
        /\ \A u \in Tx, q \in Part : vec[u][q] \in Nat
    BY <1>1 DEF SITypeOK
  <1>6. \A u \in Tx : u # t => tx'[u] = tx[u] BY <1>2 DEF Alone
  <1> HIDE DEF n, p
  <1>7. Clocks'
    <2>1. ASSUME NEW q \in Part
          PROVE  next'[q] >= 3 /\ \A c \in open'[q] : 3 <= c /\ c < next'[q]
      <3>1. next[q] >= 3 /\ \A c \in open[q] : 3 <= c /\ c < next[q] BY DEF TsInv, Clocks
      <3>2. CASE q = p BY <1>4, <1>5, <3>1, <3>2 DEF n
      <3>3. CASE q # p BY <1>4, <3>1, <3>3
      <3> QED BY <3>2, <3>3
    <2>2. ASSUME NEW u \in Tx, NEW q \in Part
          PROVE  /\ vec'[u][q] < next'[q] /\ \A c \in open'[q] : vec'[u][q] < c
                 /\ tx'[u].pc # "idle" => vec'[u][q] >= 2
      <3>1. /\ vec[u][q] < next[q] /\ \A c \in open[q] : vec[u][q] < c
            /\ tx[u].pc # "idle" => vec[u][q] >= 2
        BY DEF TsInv, Clocks
      <3>2. tx'[u].pc # "idle" => tx[u].pc # "idle" BY <1>3, <1>6
      <3>3. CASE q = p BY <1>3, <1>4, <1>5, <3>1, <3>2, <3>3 DEF n
      <3>4. CASE q # p BY <1>3, <1>4, <3>1, <3>2, <3>4
      <3> QED BY <3>3, <3>4
    <2> QED BY <2>1, <2>2 DEF Clocks
  <1>8. ASSUME NEW u \in Tx, u # t PROVE tx[u].commit_ts # <<p, n>>
    <2>1. Stamp(u) /\ Home[u] \in Part BY SIAssumption DEF TsInv
    <2>2. CASE tx[u].pc \in Installing
      <3>1. PICK c \in open[Home[u]] : tx[u].commit_ts = <<Home[u], c>>
        BY <2>1, <2>2 DEF Stamp
      <3>2. c < next[Home[u]] /\ c \in Nat BY <1>5, <2>1 DEF TsInv, Clocks
      <3> QED BY <1>4, <3>1, <3>2 DEF n
    <2>3. CASE tx[u].pc = "committed"
      BY <1>4, <2>1, <2>3 DEF Stamp, n
    <2>4. CASE tx[u].pc \notin Stamped BY <1>4, <2>1, <2>4 DEF Stamp, NoVer
    <2> QED BY <2>2, <2>3, <2>4 DEF Installing, Stamped
  <1>9. <<p, n>> # NoVer BY <1>4 DEF NoVer
  <1>10. ASSUME NEW u \in Tx PROVE Stamp(u)'
    <2>1. CASE u = t
      <3>1. n \in open'[Home[t]] BY <1>4 DEF p
      <3>2. \A w \in Tx : w # t => tx'[w].commit_ts # tx'[t].commit_ts BY <1>2, <1>6, <1>8
      <3> QED BY <1>2, <2>1, <3>1, <3>2 DEF Stamp, p, Installing, Stamped
    <2>2. CASE u # t
      <3>1. tx'[u] = tx[u] /\ Stamp(u) BY <1>6, <2>2 DEF TsInv
      <3>2. \A q \in Part : /\ open[q] \subseteq open'[q]
                            /\ \A c \in Nat : c < next[q] => c < next'[q]
        BY <1>4, <1>5 DEF n
      <3>3. Home[u] \in Part BY SIAssumption
      <3>4. \A w \in Tx : w # u /\ tx'[w].commit_ts = tx'[u].commit_ts
                            => tx'[u].commit_ts = NoVer
        <4> SUFFICES ASSUME NEW w \in Tx, w # u, tx'[w].commit_ts = tx'[u].commit_ts
                     PROVE  tx'[u].commit_ts = NoVer
          OBVIOUS
        <4>1. w # t BY <1>2, <1>8, <2>2, <3>1
        <4> QED BY <1>6, <3>1, <4>1 DEF Stamp
      <3>5. tx[u].pc \in Installing =>
              \E c \in open'[Home[u]] : tx[u].commit_ts = <<Home[u], c>>
        BY <3>1, <3>2, <3>3 DEF Stamp
      <3>6. tx[u].pc = "committed" =>
              \E c \in Nat : 3 <= c /\ c < next'[Home[u]] /\ tx[u].commit_ts = <<Home[u], c>>
        BY <3>1, <3>2, <3>3 DEF Stamp
      <3> QED BY <3>1, <3>4, <3>5, <3>6 DEF Stamp
    <2> QED BY <2>1, <2>2
  <1>11. TsAccounted'
    <2> SUFFICES ASSUME NEW q \in Part, NEW c \in open'[q]
                 PROVE  \E u \in Tx : /\ tx'[u].commit_ts = <<q, c>>
                                      /\ tx'[u].pc \in {"commit", "commit_remote", "report"}
      BY DEF TsAccounted
    <2>1. CASE q = p /\ c = n BY <1>2, <2>1
    <2>2. CASE ~(q = p /\ c = n)
      <3>1. c \in open[q] BY <1>4, <2>2
      <3>2. PICK u \in Tx : /\ tx[u].commit_ts = <<q, c>>
                            /\ tx[u].pc \in {"commit", "commit_remote", "report"}
        BY <3>1 DEF TsInv, TsAccounted
      <3>3. u # t BY <1>3, <3>2
      <3> QED BY <1>6, <3>2, <3>3
    <2> QED BY <2>1, <2>2
  <1> QED BY <1>7, <1>10, <1>11

\* commit_ts(): the timestamp that is reported is t's, and only it is closed.
LEMMA EndTsInv ==
  ASSUME TsInv, NEW t \in Tx, CommitTs(t)
  PROVE  Clocks' /\ (\A u \in Tx : Stamp(u)') /\ TsAccounted'
  <1> DEFINE p == Home[t]
             d == tx[t].commit_ts[2]
  <1>1. LockInv /\ SITypeOK /\ p \in Part BY SIAssumption DEF TsInv, LockInv
  <1>2. Alone(t) /\ tx'[t].pc = "committed" /\ tx'[t].commit_ts = tx[t].commit_ts
    BY <1>1, CommitTsEffect DEF EndTo
  <1>3. /\ tx[t].pc = "report" /\ vec' = vec /\ next' = next
        /\ open' = [open EXCEPT ![p] = @ \ {d}]
    BY DEF CommitTs, EndTs
  <1>4. open'[p] = open[p] \ {d} /\ \A q \in Part : q # p => open'[q] = open[q]
    BY <1>1, <1>3 DEF SITypeOK
  <1>5. d \in open[p] /\ tx[t].commit_ts = <<p, d>>
    <2>1. Stamp(t) BY DEF TsInv
    <2>2. PICK c \in open[p] : tx[t].commit_ts = <<p, c>> BY <1>3, <2>1 DEF Stamp, Installing
    <2> QED BY <2>2
  <1>6. \A u \in Tx : u # t => tx'[u] = tx[u] BY <1>2 DEF Alone
  <1>7. d \in Nat /\ 3 <= d /\ d < next[p] BY <1>1, <1>5 DEF SITypeOK, TsInv, Clocks
  <1> HIDE DEF p, d
  <1>8. Clocks'
    <2>1. \A q \in Part : open'[q] \subseteq open[q] BY <1>4
    <2>2. \A u \in Tx : tx'[u].pc # "idle" => tx[u].pc # "idle" BY <1>3, <1>6
    <2> QED BY <1>3, <2>1, <2>2 DEF TsInv, Clocks
  <1>9. \A u \in Tx : tx'[u].commit_ts = tx[u].commit_ts BY <1>2, <1>6
  <1>10. ASSUME NEW u \in Tx PROVE Stamp(u)'
    <2>1. Stamp(u) BY DEF TsInv
    <2>2. CASE u = t
      BY <1>2, <1>3, <1>5, <1>7, <1>9, <2>1, <2>2 DEF Stamp, p, Installing, Stamped
    <2>3. CASE u # t
      <3>1. tx'[u] = tx[u] BY <1>6, <2>3
      <3>2. Home[u] \in Part BY SIAssumption
      <3>3. tx[u].pc \in Installing =>
              \E c \in open'[Home[u]] : tx[u].commit_ts = <<Home[u], c>>
        <4> SUFFICES ASSUME tx[u].pc \in Installing
                     PROVE  \E c \in open'[Home[u]] : tx[u].commit_ts = <<Home[u], c>>
          OBVIOUS
        <4>1. PICK c \in open[Home[u]] : tx[u].commit_ts = <<Home[u], c>>
          BY <2>1 DEF Stamp
        <4>2. ~(Home[u] = p /\ c = d)
          <5>1. <<p, d>> # NoVer BY <1>7 DEF NoVer
          <5> QED BY <1>5, <2>1, <2>3, <4>1, <5>1 DEF Stamp
        <4>3. c \in open'[Home[u]] BY <1>4, <3>2, <4>2
        <4> QED BY <4>1, <4>3
      <3> QED BY <1>3, <1>9, <2>1, <3>1, <3>3 DEF Stamp
    <2> QED BY <2>2, <2>3
  <1>11. TsAccounted'
    <2> SUFFICES ASSUME NEW q \in Part, NEW c \in open'[q]
                 PROVE  \E u \in Tx : /\ tx'[u].commit_ts = <<q, c>>
                                      /\ tx'[u].pc \in {"commit", "commit_remote", "report"}
      BY DEF TsAccounted
    <2>1. c \in open[q] /\ ~(q = p /\ c = d) BY <1>4
    <2>2. PICK u \in Tx : /\ tx[u].commit_ts = <<q, c>>
                          /\ tx[u].pc \in {"commit", "commit_remote", "report"}
      BY <2>1 DEF TsInv, TsAccounted
    <2>3. u # t BY <1>5, <2>1, <2>2
    <2> QED BY <1>6, <2>2, <2>3
  <1> QED BY <1>8, <1>10, <1>11

\* TsInv holds initially and is inductive.
LEMMA InitTsInv == ASSUME SIInit PROVE TsInv
  <1>1. LockInv BY InitLockInv
  <1>2. \A t \in Tx : tx[t].pc = "idle" /\ tx[t].commit_ts = NoVer BY DEF SIInit
  <1>3. \A p \in Part : next[p] = 3 /\ open[p] = {} /\ \A t \in Tx : vec[t][p] = 0
    BY DEF SIInit, VTInit
  <1>4. Clocks BY <1>2, <1>3 DEF Clocks
  <1>5. \A t \in Tx : Stamp(t) BY <1>2 DEF Stamp, Installing, Stamped
  <1>6. TsAccounted BY <1>3 DEF TsAccounted
  <1> QED BY <1>1, <1>4, <1>5, <1>6 DEF TsInv

\* It is inductive.
LEMMA NextTsInv == ASSUME TsInv, [SINext]_sivars PROVE TsInv'
  <1>1. LockInv /\ LockInv' BY NextLockInv DEF TsInv
  <1>2. ASSUME NEW t \in Tx, Step(t)
        PROVE  Clocks' /\ (\A u \in Tx : Stamp(u)') /\ TsAccounted'
    <2>1. Alone(t) BY <1>1, <1>2, StepPreserves DEF Preserved
    <2> QED BY <1>1, <1>2, <2>1, StepKinds, KeepsTs, BeginTs, TakeTsInv, EndTsInv
  <1>3. ASSUME UNCHANGED sivars
        PROVE  Clocks' /\ (\A u \in Tx : Stamp(u)') /\ TsAccounted'
    <2>1. tx' = tx /\ next' = next /\ open' = open /\ vec' = vec BY <1>3 DEF sivars
    <2>2. Clocks' BY <2>1 DEF TsInv, Clocks
    <2>3. \A u \in Tx : Stamp(u)' BY <2>1 DEF TsInv, Stamp
    <2>4. TsAccounted' BY <2>1 DEF TsInv, TsAccounted
    <2> QED BY <2>2, <2>3, <2>4
  <1>4. Clocks' /\ (\A u \in Tx : Stamp(u)') /\ TsAccounted'
    BY <1>2, <1>3 DEF SINext, Terminated
  <1> QED BY <1>1, <1>4 DEF TsInv

\* In every reachable state no start vector covers an open timestamp, and an open
\* timestamp is that of exactly one transaction, one that is still installing; in
\* particular end() reports a timestamp that is open.
THEOREM TsInvariance == SISpec => []TsInv
  <1>1. SIInit => TsInv BY InitTsInv
  <1>2. TsInv /\ [SINext]_sivars => TsInv' BY NextTsInv
  <1> QED BY <1>1, <1>2, PTL DEF SISpec

\* No commit timestamp leaks: every path through end() that takes one reports it.
THEOREM TsAccountedAlways == SISpec => []TsAccounted
  <1>1. TsInv => TsAccounted BY DEF TsInv
  <1> QED BY <1>1, TsInvariance, PTL
=============================================================================
