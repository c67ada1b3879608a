------------------------------- MODULE DBRad -------------------------------
(***************************************************************************)
(* The DST transaction protocol of DrTM (drtm-dst/src/db/txs/dbrad.cc, the *)
(* RPC handlers of dbrad_rpc_handler.cc, the remote set of remote_set.cc)  *)
(* over the multi-version records of memstore.h.                           *)
(*                                                                         *)
(* A read-write transaction executes optimistically against the newest    *)
(* version of each record, then end() locks its remote and its local write *)
(* set, derives the commit timestamp from the timestamps it has met and    *)
(* installs the new versions.  A read-only transaction takes a timestamp   *)
(* from the clock and walks the version chain of each record.  Steps are   *)
(* single accesses to shared memory, merged only where the record's lock   *)
(* (seq under lock) or the sequence number 1 (switch from a value) makes   *)
(* the merged accesses invisible to everyone else.                         *)
(***************************************************************************)
EXTENDS Naturals, Sequences, Functions

CONSTANTS
  Key,       \* records
  Tx,        \* transactions, each run by a coroutine of some worker thread
  Part,      \* partitions (machines)
  PartOf,    \* the partition that stores a record
  Home,      \* the partition whose worker runs a transaction
  Programs,  \* Programs[t]: the operation sequences transaction t may run
  Clocks,    \* the millisecond readings get_timestamp() may see
  Shift,     \* 2^12: the room get_timestamp() leaves below each millisecond
  Absent,    \* records that the loader did not put into the store
  RC,        \* the macro RC of dbrad.cc
  TSO,       \* threads on several cores: a store may pass the loads after it
  NoTx, Null, Loaded

Kind == {"get", "upd", "ins", "del", "ro"}
Op   == [kind : Kind, key : Key]
Val  == Tx \cup {Loaded, Null}

ASSUME ConstantAssumption ==
  /\ PartOf \in [Key -> Part] /\ Home \in [Tx -> Part]
  /\ Programs \in [Tx -> SUBSET Seq(Op)]
  /\ Clocks \subseteq Nat \ {0} /\ Shift \in Nat \ {0, 1}
  /\ Absent \subseteq Key /\ RC \in BOOLEAN /\ TSO \in BOOLEAN
  /\ NoTx \notin Tx /\ Null \notin Tx /\ Loaded \notin Tx /\ Null # Loaded

VARIABLES
  node,  \* node[k]: the MemNode of record k
  tx,    \* tx[t]: the DBRad object and the stack of transaction t
  log    \* log[k]: history, the versions of k in the order of publication

vars == <<node, tx, log>>

Version == [ver : Nat, by : Val]

\* `lock' holds the transaction that ENCODE_LOCK_CONTENT identifies, 0 is NoTx;
\* `old' is the list behind old_value, newest first, each with its header.
MemNode == [lock : Tx \cup {NoTx}, seq : Nat, value : Val, old : Seq(Version),
            read_ts : Nat, read_lock : Tx \cup {NoTx}]

\* An item of the local rwset or of the remote set; w: it will be written.
Item == [key : Key, seq : Nat, by : Val, kind : Kind, w : BOOLEAN]

\* What a read-only transaction got for a record; ver = 1 is the return value
\* for "nothing found".  base (history): versions published when it started.
Read == [key : Key, ver : Nat, by : Val, base : Nat]

Idle == "idle"
LockPhase    == {"lock_remote", "lock_all", "lock_chk"}
CommitPhase  == {"commit", "commit_remote"}
ReleasePhase == {"release_remote", "release_all"}
ExecPhase    == {"exec", "val", "chk"}
RpcPhase     == {"lock_remote", "commit_remote", "release_remote"}
RoPhase      == {"ro_ts", "ro_lock", "ro_set", "ro_seq", "ro_lk", "ro_wait",
                 "ro_get", "ro_val", "ro_chk", "ro_old", "ro_ochk"}
Finished     == {"committed", "aborted", "ro_done"}
PC == {Idle} \cup ExecPhase \cup LockPhase \cup CommitPhase \cup ReleasePhase
      \cup RoPhase \cup Finished

TxState == [pc : PC, prog : Seq(Op), timestamp : Nat,
            rwset : Seq(Item), rset : Seq(Item),  \* local and remote items
            current : Nat, i : Nat,               \* WriteSet::current, loop index
            todo : SUBSET Nat, ok : BOOLEAN,      \* RPC: items not served, result
            stage : [Part -> 0..2],               \* progress inside one install
            seq : Nat, val : Val, chain : Seq(Version),  \* locals of a read
            sbuf : SUBSET Key,                    \* read_ts store not yet visible
            base : Nat, snap : SUBSET Read]

MAX(x, y) == IF x > y THEN x ELSE y

IsLocal(t, k) == PartOf[k] = Home[t]

\* The record the next operation of t is about.
CurKey(t) == Head(tx[t].prog).key

\* The items of the local rwset for record k.
Items(t, k) == {j \in DOMAIN tx[t].rwset : tx[t].rwset[j].key = k}

\* Remote writes of t, the entries of its lock and write-back requests.
RemoteWrites(t) == {i \in DOMAIN tx[t].rset : tx[t].rset[i].w}

\* The item a server works on: requests list the items of every server, and
\* each server goes through its own in order.
NextAt(t, i) ==
  /\ i \in tx[t].todo
  /\ \A j \in tx[t].todo :
        PartOf[tx[t].rset[j].key] = PartOf[tx[t].rset[i].key] => i <= j

\* A step changes the state of one transaction, t.
Become(t, x) == tx' = [tx EXCEPT ![t] = x]

-----------------------------------------------------------------------------
Init ==
  /\ node = [k \in Key |->
               [lock |-> NoTx, seq |-> IF k \in Absent THEN 0 ELSE 2,
                value |-> IF k \in Absent THEN Null ELSE Loaded, old |-> <<>>,
                read_ts |-> 0, read_lock |-> NoTx]]
  /\ tx = [t \in Tx |->
             [pc |-> Idle, prog |-> <<>>, timestamp |-> 0,
              rwset |-> <<>>, rset |-> <<>>, current |-> 0, i |-> 1,
              todo |-> {}, ok |-> TRUE, stage |-> [p \in Part |-> 0],
              seq |-> 0, val |-> Null, chain |-> <<>>, sbuf |-> {},
              base |-> 0, snap |-> {}]]
  /\ log = [k \in Key |->
              IF k \in Absent THEN <<>> ELSE <<[ver |-> 2, by |-> Loaded]>>]

\* _begin() and local_ro_begin(): both reset the sets and read the clock.
Begin(t) ==
  /\ tx[t].pc = Idle
  /\ \E p \in Programs[t], c \in Clocks :
       Become(t, [tx[t] EXCEPT !.pc = "exec", !.prog = p,
                               !.timestamp = c * Shift,
                               !.rwset = <<>>, !.rset = <<>>, !.current = 0])
  /\ UNCHANGED <<node, log>>

-----------------------------------------------------------------------------
(* Execution: get(), write(), insert(), delete_() on local records, and the *)
(* REQ_READ / REQ_INSERT requests that get_rpc_handler serves for remote    *)
(* ones.                                                                    *)

\* write() after get(), and insert(), make the item one to be written.
NewItem(k, s, v, kd) ==
  [key |-> k, seq |-> s, by |-> v, kind |-> kd, w |-> kd # "get"]

\* WriteSet::Add; get() and write() raise the timestamp to the version read.
AddLocal(t, it) ==
  [tx[t] EXCEPT !.pc = "exec", !.prog = Tail(@), !.rwset = Append(@, it),
                !.timestamp = IF it.kind = "ins" THEN @ ELSE MAX(it.seq, @)]

\* RemoteSet::get_results: the item's seq and value from the reply.
AddRemote(t, it) ==
  [tx[t] EXCEPT !.pc = "exec", !.prog = Tail(@), !.rset = Append(@, it)]

\* The application calls get(), insert() for its own records, and
\* add_to_remote_set(), remote_insert(), remote_write() for the others.
AddItem(t, k, s, v, kd) ==
  IF IsLocal(t, k) THEN AddLocal(t, NewItem(k, s, v, kd))
                   ELSE AddRemote(t, NewItem(k, s, v, kd))

\* Fault: the wrong field of the node.
ReadSeqOfLock(t) ==
  /\ tx[t].pc = "exec" /\ tx[t].prog # <<>>
  /\ Head(tx[t].prog).kind \in {"get", "upd"}
  /\ Become(t, [tx[t] EXCEPT !.pc = "val", !.seq = node[CurKey(t)].lock])
  /\ UNCHANGED <<node, log>>

\* get(), first access: the sequence number (dbrad.cc:580, handler :248).
ReadSeq(t) ==
  /\ tx[t].pc = "exec" /\ tx[t].prog # <<>>
  /\ Head(tx[t].prog).kind \in {"get", "upd"}
  /\ Become(t, [tx[t] EXCEPT !.pc = "val", !.seq = node[CurKey(t)].seq])
  /\ UNCHANGED <<node, log>>

\* Second access: the value pointer.  get() returns 1 at once when the record
\* has no value; get_rpc_handler compares the sequence numbers first.
ReadValue(t) ==
  /\ tx[t].pc = "val"
  /\ LET k == CurKey(t) IN
       \/ /\ node[k].value # Null \/ ~IsLocal(t, k)
          /\ Become(t, [tx[t] EXCEPT !.pc = "chk", !.val = node[k].value])
       \/ /\ node[k].value = Null /\ IsLocal(t, k)
          /\ Become(t, [tx[t] EXCEPT !.pc = "exec", !.prog = Tail(@)])
  /\ UNCHANGED <<node, log>>

\* Third access: the sequence number again; retry when a writer interfered.
\* The handler's assert(false) forbids remote reads of records without a value.
ReadCheck(t) ==
  /\ tx[t].pc = "chk"
  /\ LET k == CurKey(t) IN
       \/ /\ tx[t].seq = 1 \/ node[k].seq # tx[t].seq
          /\ Become(t, [tx[t] EXCEPT !.pc = "exec"])
       \/ /\ tx[t].seq # 1 /\ node[k].seq = tx[t].seq /\ tx[t].val # Null
          /\ Become(t, AddItem(t, k, tx[t].seq, tx[t].val, Head(tx[t].prog).kind))
  /\ UNCHANGED <<node, log>>

\* insert(), and delete_() of a record that is not in the rwset, record the
\* sequence number they find without the check for a writer.
BlindWrite(t) ==
  /\ tx[t].pc = "exec" /\ tx[t].prog # <<>>
  /\ LET k == CurKey(t)
         kd == Head(tx[t].prog).kind
     IN  /\ \/ kd = "ins"
            \/ kd = "del" /\ IsLocal(t, k) /\ Items(t, k) = {}
         /\ Become(t, AddItem(t, k, node[k].seq, node[k].value, kd))
  /\ UNCHANGED <<node, log>>

\* delete_() of a record the transaction has read: the first item found for it
\* becomes a write without a value.  (Remote records are never deleted.)
DeleteItem(t) ==
  /\ tx[t].pc = "exec" /\ tx[t].prog # <<>> /\ Head(tx[t].prog).kind = "del"
  /\ \E j \in Items(t, CurKey(t)) :
       /\ \A h \in Items(t, CurKey(t)) : j <= h
       /\ Become(t, [tx[t] EXCEPT !.prog = Tail(@),
                      !.rwset[j] = [@ EXCEPT !.kind = "del", !.w = TRUE],
                      !.timestamp = MAX(@, tx[t].rwset[j].seq)])
  /\ UNCHANGED <<node, log>>

-----------------------------------------------------------------------------
(* end(): lock_remote, LockAllSet, timestamp, CommitLocalWrite,             *)
(* commit_remote; or, on the ABORT path, release_remote and ReleaseAllSet.  *)

\* lock_remote() broadcasts the lock request to the servers of its writes.
End(t) ==
  /\ tx[t].pc = "exec" /\ tx[t].prog = <<>>
  /\ Become(t, [tx[t] EXCEPT !.pc = "lock_remote", !.todo = RemoteWrites(t),
                             !.ok = TRUE])
  /\ UNCHANGED <<node, log>>

\* lock_rpc_handler, one item: lock it, then compare its sequence number.  A
\* failure ends the server's loop and leaves the locks taken so far in place;
\* an assertion forbids that the sender itself holds the lock already.
\* The read_ts it also replies is overwritten (end(), max_time_ = timestamp)
\* before anything reads it and is no state here.
LockRpcHandler(t, i) ==
  /\ tx[t].pc = "lock_remote" /\ NextAt(t, i)
  /\ LET it   == tx[t].rset[i]
         mine == {j \in tx[t].todo : PartOf[tx[t].rset[j].key] = PartOf[it.key]}
         fail == [tx[t] EXCEPT !.todo = @ \ mine, !.ok = FALSE]
     IN  \/ /\ node[it.key].lock \notin {NoTx, t}
            /\ Become(t, fail) /\ UNCHANGED node
         \/ /\ node[it.key].lock = NoTx
            /\ node' = [node EXCEPT ![it.key].lock = t]
            /\ \/ node[it.key].seq # it.seq /\ Become(t, fail)
               \/ /\ node[it.key].seq = it.seq
                  /\ Become(t, [tx[t] EXCEPT !.todo = @ \ {i}])
  /\ UNCHANGED log

\* goto ABORT: release_remote() broadcasts to the servers of its writes.
Abort(t) ==
  Become(t, [tx[t] EXCEPT !.pc = "release_remote", !.todo = RemoteWrites(t)])

\* _check_res() after the last reply.
LockReplies(t) ==
  /\ tx[t].pc = "lock_remote" /\ tx[t].todo = {}
  /\ \/ tx[t].ok /\ Become(t, [tx[t] EXCEPT !.pc = "lock_all", !.i = 1])
     \/ ~tx[t].ok /\ Abort(t)
  /\ UNCHANGED <<node, log>>

\* Fault: an item whose record is locked by the transaction itself is "locked".
LockAllSetReentrant(t) ==
  /\ tx[t].pc = "lock_all" /\ tx[t].i \in DOMAIN tx[t].rwset
  /\ LET it == tx[t].rwset[tx[t].i] IN
       \/ /\ ~it.w
          /\ Become(t, [tx[t] EXCEPT !.i = @ + 1]) /\ UNCHANGED node
       \/ /\ it.w /\ node[it.key].lock \notin {NoTx, t}
          /\ Abort(t) /\ UNCHANGED node
       \/ /\ it.w /\ node[it.key].lock \in {NoTx, t}
          /\ node' = [node EXCEPT ![it.key].lock = t]
          /\ Become(t, [tx[t] EXCEPT !.pc = "lock_chk", !.current = tx[t].i])
  /\ UNCHANGED log

\* LockAllSet: compare-and-swap of the next written item's lock.
LockAllSet(t) ==
  /\ tx[t].pc = "lock_all" /\ tx[t].i \in DOMAIN tx[t].rwset
  /\ LET it == tx[t].rwset[tx[t].i] IN
       \/ /\ ~it.w
          /\ Become(t, [tx[t] EXCEPT !.i = @ + 1]) /\ UNCHANGED node
       \/ /\ it.w /\ node[it.key].lock # NoTx
          /\ Abort(t) /\ UNCHANGED node
       \/ /\ it.w /\ node[it.key].lock = NoTx
          /\ node' = [node EXCEPT ![it.key].lock = t]
          /\ Become(t, [tx[t] EXCEPT !.pc = "lock_chk", !.current = tx[t].i])
  /\ UNCHANGED log

\* Fault: no version check under the lock.
LockNoCheck(t) ==
  /\ tx[t].pc = "lock_chk"
  /\ LET it == tx[t].rwset[tx[t].i] IN
       Become(t, [tx[t] EXCEPT !.pc = "lock_all", !.i = @ + 1,
                    !.timestamp = MAX(node[it.key].read_ts, @)])
  /\ UNCHANGED <<node, log>>

\* Fault: read_ts does not enter the commit timestamp.
LockNoReadTs(t) ==
  /\ tx[t].pc = "lock_chk"
  /\ LET it == tx[t].rwset[tx[t].i] IN
       \/ node[it.key].seq # it.seq /\ Abort(t)
       \/ /\ node[it.key].seq = it.seq
          /\ Become(t, [tx[t] EXCEPT !.pc = "lock_all", !.i = @ + 1])
  /\ UNCHANGED <<node, log>>

\* LockAllSet, with the lock: the version check, then read_ts.
LockCheck(t) ==
  /\ tx[t].pc = "lock_chk"
  /\ LET it == tx[t].rwset[tx[t].i] IN
       \/ node[it.key].seq # it.seq /\ Abort(t)
       \/ /\ node[it.key].seq = it.seq
          /\ Become(t, [tx[t] EXCEPT !.pc = "lock_all", !.i = @ + 1,
                          !.timestamp = MAX(node[it.key].read_ts, @)])
  /\ UNCHANGED <<node, log>>

\* Fault: the commit timestamp is `bump' above the local one, and the sequence
\* numbers of remote items are not looked at.
CommitTsLocal(t, bump) ==
  /\ tx[t].pc = "lock_all" /\ tx[t].i \notin DOMAIN tx[t].rwset
  /\ Become(t, [tx[t] EXCEPT !.pc = "commit", !.i = 1, !.timestamp = @ + bump])
  /\ UNCHANGED <<node, log>>
CommitTsNoRemote(t) == CommitTsLocal(t, 1)
CommitTsNoBump(t)   == CommitTsLocal(t, 0)

\* All locked: max_ts + 1, then the maximum with every remote item's sequence
\* number.  validate_remote() does nothing: need_validate_ is never set.
CommitTs(t) ==
  /\ tx[t].pc = "lock_all" /\ tx[t].i \notin DOMAIN tx[t].rwset
  /\ LET met == {tx[t].timestamp + 1} \cup
                {tx[t].rset[j].seq : j \in DOMAIN tx[t].rset}
     IN  \E m \in met :
           /\ \A x \in met : x <= m
           /\ Become(t, [tx[t] EXCEPT !.pc = "commit", !.i = 1, !.timestamp = m])
  /\ UNCHANGED <<node, log>>

\* The install of one item begins with seq = 1.  Over a value this is part of
\* Swap; a reader that finds no value does not look at seq again.
Hide(t, it) ==
  /\ tx[t].stage[PartOf[it.key]] = 0
  /\ node[it.key].value = Null /\ node[it.key].seq # 1
  /\ node' = [node EXCEPT ![it.key].seq = 1]
  /\ UNCHANGED <<tx, log>>

\* Fault: the old version's header gets the new timestamp.
SwapNewVersion(t, it, ver) ==
  LET p == PartOf[it.key]
      cur == node[it.key].value
  IN  /\ tx[t].stage[p] = 0
      /\ cur # Null \/ node[it.key].seq = 1
      /\ node' = [node EXCEPT ![it.key].seq = 1,
                    ![it.key].value = IF it.kind = "del" THEN Null ELSE t,
                    ![it.key].old =
                       IF cur = Null THEN <<>>
                       ELSE <<[ver |-> tx[t].timestamp, by |-> cur]>> \o @]
      /\ Become(t, [tx[t] EXCEPT !.stage[p] = 1])
      /\ UNCHANGED log

\* Then the header of the current value (version: ver) and the value switch; a
\* value that was NULL is not linked.
Swap(t, it, ver) ==
  LET p == PartOf[it.key]
      cur == node[it.key].value
  IN  /\ tx[t].stage[p] = 0
      /\ cur # Null \/ node[it.key].seq = 1
      /\ node' = [node EXCEPT ![it.key].seq = 1,
                    ![it.key].value = IF it.kind = "del" THEN Null ELSE t,
                    ![it.key].old =
                       IF cur = Null THEN <<>>
                       ELSE <<[ver |-> ver, by |-> cur]>> \o @]
      /\ Become(t, [tx[t] EXCEPT !.stage[p] = 1])
      /\ UNCHANGED log

\* Third seq = commit timestamp.
Publish(t, it) ==
  LET p == PartOf[it.key] IN
  /\ tx[t].stage[p] = 1
  /\ node' = [node EXCEPT ![it.key].seq = tx[t].timestamp]
  /\ log' = [log EXCEPT ![it.key] =
               Append(@, [ver |-> tx[t].timestamp, by |-> node[it.key].value])]
  /\ Become(t, [tx[t] EXCEPT !.stage[p] = 2])

\* Last lock = 0, whatever it held; the caller moves on to the next item.
Unlock(t, it, next) ==
  LET p == PartOf[it.key] IN
  /\ tx[t].stage[p] = 2
  /\ node' = [node EXCEPT ![it.key].lock = NoTx]
  /\ Become(t, [next EXCEPT !.stage[p] = 0])
  /\ UNCHANGED log

CommitLocalWrite(t) ==
  /\ tx[t].pc = "commit" /\ tx[t].i \in DOMAIN tx[t].rwset
  /\ LET it   == tx[t].rwset[tx[t].i]
         next == [tx[t] EXCEPT !.i = @ + 1]
     IN  \/ ~it.w /\ Become(t, next) /\ UNCHANGED <<node, log>>
         \/ it.w /\ Hide(t, it)
         \/ it.w /\ Swap(t, it, it.seq)
         \/ it.w /\ Publish(t, it)
         \/ it.w /\ Unlock(t, it, next)

\* commit_remote() broadcasts the write-back request.
CommitRemote(t) ==
  /\ tx[t].pc = "commit" /\ tx[t].i \notin DOMAIN tx[t].rwset
  /\ Become(t, [tx[t] EXCEPT !.pc = "commit_remote", !.todo = RemoteWrites(t)])
  /\ UNCHANGED <<node, log>>

\* commit_rpc_handler2, one item; the old version's header gets node->seq.
CommitRpcHandler(t, i) ==
  /\ tx[t].pc = "commit_remote" /\ NextAt(t, i)
  /\ LET it == tx[t].rset[i]
     IN  \/ Hide(t, it)
         \/ Swap(t, it, node[it.key].seq)
         \/ Publish(t, it)
         \/ Unlock(t, it, [tx[t] EXCEPT !.todo = @ \ {i}])

CommitReplies(t) ==
  /\ tx[t].pc = "commit_remote" /\ tx[t].todo = {}
  /\ Become(t, [tx[t] EXCEPT !.pc = "committed"])
  /\ UNCHANGED <<node, log>>

\* Fault: lock = 0 without comparing the content.
ReleaseAny(t, i) ==
  /\ tx[t].pc = "release_remote" /\ NextAt(t, i)
  /\ node' = [node EXCEPT ![tx[t].rset[i].key].lock = NoTx]
  /\ Become(t, [tx[t] EXCEPT !.todo = @ \ {i}])
  /\ UNCHANGED log

\* release_rpc_handler, one item: compare-and-swap of the sender's own lock.
ReleaseRpcHandler(t, i) ==
  /\ tx[t].pc = "release_remote" /\ NextAt(t, i)
  /\ LET k == tx[t].rset[i].key IN
       node' = IF node[k].lock = t THEN [node EXCEPT ![k].lock = NoTx] ELSE node
  /\ Become(t, [tx[t] EXCEPT !.todo = @ \ {i}])
  /\ UNCHANGED log

ReleaseReplies(t) ==
  /\ tx[t].pc = "release_remote" /\ tx[t].todo = {}
  /\ Become(t, [tx[t] EXCEPT !.pc = "release_all", !.i = 1])
  /\ UNCHANGED <<node, log>>

\* Faults: the loop ends at `last', before or after `current'.
ReleaseUpTo(t, last) ==
  /\ tx[t].pc = "release_all"
  /\ \/ /\ tx[t].i > last
        /\ Become(t, [tx[t] EXCEPT !.pc = "aborted"]) /\ UNCHANGED node
     \/ /\ tx[t].i <= last
        /\ Become(t, [tx[t] EXCEPT !.i = @ + 1])
        /\ LET it == tx[t].rwset[tx[t].i] IN
             node' = IF it.w THEN [node EXCEPT ![it.key].lock = NoTx] ELSE node
  /\ UNCHANGED log
ReleaseShort(t) == ReleaseUpTo(t, IF tx[t].current = 0 THEN 0 ELSE tx[t].current - 1)
ReleaseLong(t)  == ReleaseUpTo(t, Len(tx[t].rwset))

\* ReleaseAllSet: lock = 0, unconditionally, for every written item up to
\* `current'.
ReleaseAllSet(t) ==
  /\ tx[t].pc = "release_all"
  /\ \/ /\ tx[t].i > tx[t].current
        /\ Become(t, [tx[t] EXCEPT !.pc = "aborted"]) /\ UNCHANGED node
     \/ /\ tx[t].i <= tx[t].current
        /\ Become(t, [tx[t] EXCEPT !.i = @ + 1])
        /\ LET it == tx[t].rwset[tx[t].i] IN
             node' = IF it.w THEN [node EXCEPT ![it.key].lock = NoTx] ELSE node
  /\ UNCHANGED log

-----------------------------------------------------------------------------
(* get_ro() / get_ro_versioned() at the snapshot timestamp; on the record's *)
(* own partition the handler of the application's RPC runs the same code.   *)

AtRo(t, label) == tx[t].pc = label

RoReturn(t, v, b) ==
  Become(t, [tx[t] EXCEPT
           !.pc = IF Len(tx[t].prog) = 1 THEN "ro_done" ELSE "exec",
           !.prog = Tail(@),
           !.snap = @ \cup {[key |-> CurKey(t), ver |-> v, by |-> b,
                                base |-> tx[t].base]}])

RoStart(t) ==
  /\ AtRo(t, "exec") /\ tx[t].prog # <<>> /\ Head(tx[t].prog).kind = "ro"
  /\ Become(t, [tx[t] EXCEPT !.pc = "ro_ts", !.base = Len(log[CurKey(t)])])
  /\ UNCHANGED <<node, log>>

\* MAX(version, read_ts) == version decides whether read_ts is raised and the
\* writers' lock looked at; with RC neither happens.
RoReadTs(t) ==
  /\ AtRo(t, "ro_ts")
  /\ Become(t, [tx[t] EXCEPT !.pc =
               IF node[CurKey(t)].read_ts > tx[t].timestamp THEN "ro_get"
               ELSE IF RC THEN "ro_seq" ELSE "ro_lock"])
  /\ UNCHANGED <<node, log>>

\* __lock_ts: spin on read_lock; the atomic instruction drains the store buffer.
RoLockTs(t) ==
  /\ AtRo(t, "ro_lock") /\ tx[t].sbuf = {}
  /\ node[CurKey(t)].read_lock = NoTx
  /\ node' = [node EXCEPT ![CurKey(t)].read_lock = t]
  /\ Become(t, [tx[t] EXCEPT !.pc = "ro_set"])
  /\ UNCHANGED log

\* The stores to read_ts and read_lock enter the processor's store buffer: only
\* compiler barriers separate them from the loads that follow.
RoSetTs(t) ==
  /\ AtRo(t, "ro_set")
  /\ Become(t, [tx[t] EXCEPT !.pc = "ro_seq", !.sbuf = {CurKey(t)}])
  /\ UNCHANGED <<node, log>>

\* ... and become visible to the other threads some time later (TSO), or at
\* once when the transactions are coroutines of one worker thread.
Drain(t) ==
  /\ \E k \in tx[t].sbuf :
       node' = [node EXCEPT ![k].read_ts = tx[t].timestamp,
                            ![k].read_lock = NoTx]
  /\ Become(t, [tx[t] EXCEPT !.sbuf = {}])
  /\ UNCHANGED log

RoReadSeq(t) ==
  /\ AtRo(t, "ro_seq") /\ (TSO \/ tx[t].sbuf = {})
  /\ Become(t, [tx[t] EXCEPT !.pc = IF RC THEN "ro_get" ELSE "ro_lk",
                             !.seq = node[CurKey(t)].seq])
  /\ UNCHANGED <<node, log>>

\* Fault: a locked record is read at once.
RoIgnoreLock(t) ==
  /\ AtRo(t, "ro_lk")
  /\ Become(t, [tx[t] EXCEPT !.pc = "ro_get"])
  /\ UNCHANGED <<node, log>>

RoTestLock(t) ==
  /\ AtRo(t, "ro_lk")
  /\ Become(t, [tx[t] EXCEPT !.pc =
               IF node[CurKey(t)].lock # NoTx /\ tx[t].seq < tx[t].timestamp
               THEN "ro_wait" ELSE "ro_get"])
  /\ UNCHANGED <<node, log>>

\* yield until the writer has released the lock or changed seq.
RoWait(t) ==
  /\ AtRo(t, "ro_wait")
  /\ node[CurKey(t)].seq # tx[t].seq \/ node[CurKey(t)].lock = NoTx
  /\ Become(t, [tx[t] EXCEPT !.pc = "ro_get"])
  /\ UNCHANGED <<node, log>>

\* _get_helper: seq decides between the current value and the old ones.
RoGet(t) ==
  /\ AtRo(t, "ro_get")
  /\ LET s == node[CurKey(t)].seq IN
       Become(t, [tx[t] EXCEPT !.seq = s,
               !.pc = IF RC \/ s <= tx[t].timestamp THEN "ro_val" ELSE "ro_old"])
  /\ UNCHANGED <<node, log>>

RoValue(t) ==
  /\ AtRo(t, "ro_val")
  /\ LET v == node[CurKey(t)].value IN
       \/ v = Null /\ RoReturn(t, 1, Null)
       \/ v # Null /\ Become(t, [tx[t] EXCEPT !.pc = "ro_chk", !.val = v])
  /\ UNCHANGED <<node, log>>

\* Fault: no second look at the sequence number.
RoUnchecked(t) ==
  /\ AtRo(t, "ro_chk") /\ RoReturn(t, tx[t].seq, tx[t].val)
  /\ UNCHANGED <<node, log>>

\* Fault: the retry keeps the sequence number it has.
RoRetryStale(t) ==
  /\ AtRo(t, "ro_chk")
  /\ \/ /\ tx[t].seq = 1 \/ node[CurKey(t)].seq # tx[t].seq
        /\ Become(t, [tx[t] EXCEPT !.pc = "ro_val"])
     \/ /\ tx[t].seq # 1 /\ node[CurKey(t)].seq = tx[t].seq
        /\ RoReturn(t, tx[t].seq, tx[t].val)
  /\ UNCHANGED <<node, log>>

RoCheck(t) ==
  /\ AtRo(t, "ro_chk")
  /\ \/ /\ tx[t].seq = 1 \/ node[CurKey(t)].seq # tx[t].seq
        /\ Become(t, [tx[t] EXCEPT !.pc = "ro_get"])
     \/ /\ tx[t].seq # 1 /\ node[CurKey(t)].seq = tx[t].seq
        /\ RoReturn(t, tx[t].seq, tx[t].val)
  /\ UNCHANGED <<node, log>>

RoOld(t) ==
  /\ AtRo(t, "ro_old")
  /\ Become(t, [tx[t] EXCEPT !.pc = "ro_ochk", !.chain = node[CurKey(t)].old])
  /\ UNCHANGED <<node, log>>

\* Fault: the first old version, whatever its header says.
FirstOld(t) == {j \in DOMAIN tx[t].chain : j = 1}

\* The walk over the old versions: the first one not newer than the snapshot.
Visible(t) ==
  {j \in DOMAIN tx[t].chain :
     /\ tx[t].chain[j].ver <= tx[t].timestamp
     /\ \A h \in 1..(j - 1) : tx[t].chain[h].ver > tx[t].timestamp}

RoOldCheck(t) ==
  /\ AtRo(t, "ro_ochk")
  /\ \/ /\ tx[t].seq = 1 \/ node[CurKey(t)].seq # tx[t].seq
        /\ Become(t, [tx[t] EXCEPT !.pc = "ro_get"])
     \/ /\ tx[t].seq # 1 /\ node[CurKey(t)].seq = tx[t].seq
        /\ \/ Visible(t) = {} /\ RoReturn(t, 1, Null)
           \/ \E j \in Visible(t) :
                RoReturn(t, tx[t].chain[j].ver, tx[t].chain[j].by)
  /\ UNCHANGED <<node, log>>

-----------------------------------------------------------------------------
Execute(t) ==
  ReadSeq(t) \/ ReadValue(t) \/ ReadCheck(t) \/ BlindWrite(t) \/ DeleteItem(t)

Serve(t) ==
  \E i \in tx[t].todo :
    LockRpcHandler(t, i) \/ CommitRpcHandler(t, i) \/ ReleaseRpcHandler(t, i)

Finish(t) ==
  \/ End(t) \/ LockReplies(t) \/ LockAllSet(t) \/ LockCheck(t) \/ CommitTs(t)
  \/ CommitLocalWrite(t) \/ CommitRemote(t) \/ CommitReplies(t)
  \/ ReleaseReplies(t) \/ ReleaseAllSet(t)

GetRo(t) ==
  \/ RoStart(t) \/ RoReadTs(t) \/ RoLockTs(t) \/ RoSetTs(t) \/ RoReadSeq(t)
  \/ RoTestLock(t) \/ RoWait(t) \/ RoGet(t) \/ RoValue(t) \/ RoCheck(t)
  \/ RoOld(t) \/ RoOldCheck(t)

Step(t) == Begin(t) \/ Execute(t) \/ Finish(t) \/ Serve(t) \/ GetRo(t)

\* Every transaction has ended and every store is visible.
Terminated ==
  /\ \A t \in Tx : tx[t].pc \in Finished /\ tx[t].sbuf = {}
  /\ UNCHANGED vars

Next == (\E t \in Tx : Step(t) \/ Drain(t)) \/ Terminated

Spec == Init /\ [][Next]_vars

\* Worker threads keep scheduling their coroutines and serving requests, and a
\* store buffer drains: no thread of the code blocks while it can run.
FairSpec == Spec /\ \A t \in Tx : WF_vars(Step(t)) /\ WF_vars(Drain(t))

-----------------------------------------------------------------------------
(* Properties.                                                              *)

\* The variables keep their types; no loop of end() leaves the sets.
TypeOK ==
  /\ node \in [Key -> MemNode]
  /\ tx \in [Tx -> TxState]
  /\ log \in [Key -> Seq(Version)]

\* The records transaction t writes, by the set that names them.
LocalWrites(t) == {i \in DOMAIN tx[t].rwset : tx[t].rwset[i].w}

\* Local items whose lock t has taken and not given back.
LocalHeld(t) ==
  {i \in LocalWrites(t) :
     \/ tx[t].pc \in {"lock_all", "lock_chk", "release_remote"}
        /\ i <= tx[t].current
     \/ tx[t].pc = "commit" /\ tx[t].i <= i
     \/ tx[t].pc = "release_all" /\ tx[t].i <= i /\ i <= tx[t].current}

\* Remote items whose lock t may hold, and those whose lock it surely holds.
RemoteMayHold(t) ==
  {i \in RemoteWrites(t) :
     \/ tx[t].pc \in {"lock_remote", "lock_all", "lock_chk", "commit"}
     \/ tx[t].pc \in {"commit_remote", "release_remote"} /\ i \in tx[t].todo}

RemoteHeld(t) ==
  {i \in RemoteWrites(t) :
     \/ tx[t].pc = "lock_remote" /\ tx[t].ok /\ i \notin tx[t].todo
     \/ tx[t].pc \in {"lock_all", "lock_chk", "commit"}
     \/ tx[t].pc = "commit_remote" /\ i \in tx[t].todo}

\* No lock outlives its use: a locked record is in the write set of the owner,
\* which is still locking, installing or releasing and has that item left to
\* deal with.  Covers the early returns of LockAllSet and lock_rpc_handler and
\* the ABORT path of end(), which must give back exactly what they took.
NoLockLeak ==
  \A k \in Key, t \in Tx :
    node[k].lock = t =>
      \/ \E i \in LocalHeld(t) : tx[t].rwset[i].key = k
      \/ \E i \in RemoteMayHold(t) : tx[t].rset[i].key = k

\* The locks end() relies on are really held: installing (seq = 1 and the value
\* switch) and the unconditional lock = 0 of ReleaseAllSet, CommitLocalWrite
\* and commit_rpc_handler2 only ever touch records locked by the transaction
\* itself, whatever other transactions did in between.
LocksHeld ==
  \A t \in Tx :
    /\ \A i \in LocalHeld(t) : node[tx[t].rwset[i].key].lock = t
    /\ \A i \in RemoteHeld(t) : node[tx[t].rset[i].key].lock = t

\* A lock changes hands only by a step of its owner (lock = 0 is written
\* without comparing the content): no step of another transaction frees it.
LockFreedByOwner ==
  [][\A k \in Key : \A t \in Tx :
       node[k].lock = t /\ node'[k].lock # t => tx'[t] # tx[t]]_vars

\* What keeps the locks in order, per transaction: where each item lives, which
\* requests are under way and how far LockAllSet and ReleaseAllSet have come.
Control(t) ==
  /\ tx[t].pc \in {"val", "chk"} \cup RoPhase => tx[t].prog # <<>>
  /\ \A i \in DOMAIN tx[t].rwset : IsLocal(t, tx[t].rwset[i].key)
  /\ \A i \in DOMAIN tx[t].rset : ~IsLocal(t, tx[t].rset[i].key)
  /\ tx[t].todo \subseteq RemoteWrites(t)
  /\ tx[t].pc \notin RpcPhase => tx[t].todo = {}
  /\ tx[t].i > 0 /\ tx[t].current <= Len(tx[t].rwset)
  /\ tx[t].pc \in {Idle, "lock_remote"} \cup ExecPhase \cup RoPhase =>
       tx[t].current = 0
  /\ tx[t].pc = "lock_all" =>
       /\ tx[t].current < tx[t].i
       /\ \A j \in LocalWrites(t) : j < tx[t].i => j <= tx[t].current
  /\ tx[t].pc = "lock_chk" =>
       tx[t].current = tx[t].i /\ tx[t].i \in LocalWrites(t)

\* The locks of transaction t: those it holds are accounted for, those its next
\* steps rely on are held, and no record is locked through two of its items.
Locks(t) ==
  /\ \A k \in Key : node[k].lock = t =>
       \/ \E i \in LocalHeld(t) : tx[t].rwset[i].key = k
       \/ \E i \in RemoteMayHold(t) : tx[t].rset[i].key = k
  /\ \A i \in LocalHeld(t) : node[tx[t].rwset[i].key].lock = t
  /\ \A i \in RemoteHeld(t) : node[tx[t].rset[i].key].lock = t
  /\ \A i, j \in LocalHeld(t) :
       tx[t].rwset[i].key = tx[t].rwset[j].key => i = j
  /\ \A i, j \in RemoteHeld(t) :
       tx[t].rset[i].key = tx[t].rset[j].key => i = j

\* The inductive invariant behind NoLockLeak, LocksHeld and LockFreedByOwner.
LockInv == TypeOK /\ \A t \in Tx : Control(t) /\ Locks(t)

\* The sequence-number protocol of get(), get_rpc_handler and _get_helper: a
\* version number and a value that were read in different steps belong to one
\* published version, however many installs ran in between.
NoTornRead ==
  \A t \in Tx :
    /\ \A it \in Range(tx[t].rwset) \cup Range(tx[t].rset) :
         it.kind \in {"get", "upd"} =>
           [ver |-> it.seq, by |-> it.by] \in Range(log[it.key])
    /\ \A r \in tx[t].snap :
         r.by # Null => [ver |-> r.ver, by |-> r.by] \in Range(log[r.key])

\* No update is lost: when t reads a record and overwrites it, the version it
\* overwrites is the one it read (the seq comparison under the lock in
\* LockAllSet and lock_rpc_handler is there for this).
NoLostUpdate ==
  \A t \in Tx : \A it \in Range(tx[t].rwset) \cup Range(tx[t].rset) :
    it.kind = "upd" =>
      \A j \in DOMAIN log[it.key] :
        log[it.key][j].by = t => j > 1 /\ log[it.key][j - 1].by = it.by

\* No write skew: of two transactions that both install, not each reads a
\* version that the other one replaces.  end() locks and compares the records
\* it writes; the ones it only reads (ro) are not looked at again.
NoWriteSkew ==
  LET Replaces(t, it) == \E j \in 2..Len(log[it.key]) :
        log[it.key][j].by = t /\ log[it.key][j - 1].by = it.by
      ReadOnly(t) == {it \in Range(tx[t].rwset) \cup Range(tx[t].rset) : it.kind = "get"}
  IN  \A t, u \in Tx :
        ~ /\ \E it \in ReadOnly(t) : Replaces(u, it)
          /\ \E it \in ReadOnly(u) : Replaces(t, it)

\* The versions of a record carry increasing timestamps, so that walking the
\* old_value list from the newest to the first version <= ts is a search.
VersionsGrow ==
  \A k \in Key : \A j \in 2..Len(log[k]) : log[k][j - 1].ver < log[k][j].ver

\* What is left of it when remote records are written too: no version carries
\* a smaller timestamp than the one it replaces.
VersionsDoNotShrink ==
  \A k \in Key : \A j \in 2..Len(log[k]) : log[k][j - 1].ver <= log[k][j].ver

\* The old_value list is the record's history: readable records (seq # 1) link
\* exactly the versions published before the current one, newest first.
ChainIsHistory ==
  \A k \in Key :
    node[k].seq # 1 =>
      LET n == Len(log[k]) IN
      /\ Len(node[k].old) + 1 = n
      /\ log[k][n] = [ver |-> node[k].seq, by |-> node[k].value]
      /\ \A j \in DOMAIN node[k].old : node[k].old[j] = log[k][n - j]

\* Without RC a snapshot read is exact about the past: it returns no version
\* newer than its timestamp and misses none at or below it that had been
\* published when the read began, whatever is installed while it runs.
SnapshotExact ==
  \A t \in Tx : \A r \in tx[t].snap :
    /\ r.ver <= tx[t].timestamp
    /\ \A j \in 1..r.base :
         ~(r.ver < log[r.key][j].ver /\ log[r.key][j].ver <= tx[t].timestamp)

\* Position of the version by w in the history of k (0: none).
Pos(k, w) == IF \E j \in DOMAIN log[k] : log[k][j].by = w
             THEN CHOOSE j \in DOMAIN log[k] : log[k][j].by = w
             ELSE 0

\* A serializable snapshot read sees a transaction's writes all or not at all:
\* if it returned w's version of one record, then for every other record w
\* wrote it returned that version or a later one.
NoFracturedRead ==
  \A t \in Tx : \A r, q \in tx[t].snap :
    r.by \in Tx /\ q.by # Null => Pos(q.key, q.by) >= Pos(q.key, r.by)

\* A snapshot is stable: once a read at the snapshot timestamp has returned a
\* version, no version at or below that timestamp is published over it.  This
\* is what raising read_ts and waiting for the lock are for.
SnapshotStable ==
  \A t \in Tx : \A r \in tx[t].snap :
    \A j \in DOMAIN log[r.key] :
      ~(r.ver < log[r.key][j].ver /\ log[r.key][j].ver <= tx[t].timestamp)

\* Every transaction ends: commits, aborts or returns its snapshot.
EveryTxEnds == <>(\A t \in Tx : tx[t].pc \in Finished)

============================================================================
