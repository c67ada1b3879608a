-------------------------------- MODULE DBSI --------------------------------
(***************************************************************************)
(* The snapshot-isolation transactions of VTS (drtm-dst/src/db/txs/dbsi.cc *)
(* and dbsi_rpc_handler.cc, with ONE_CLOCK 0 and SI_VEC) over the promise  *)
(* of the timestamp service, VectorTS.  The version of a record is the pair*)
(* of a machine and its commit timestamp.  A transaction reads the records *)
(* of its own machine, and a read-only one every record, at its start      *)
(* vector; the remote reads of a read-write transaction return the newest  *)
(* version.  end() locks and compares versions as in DBRad, takes a commit *)
(* timestamp, installs and then reports the timestamp.                     *)
(*                                                                         *)
(* Accesses are merged where nobody can tell: the comparison of seq under  *)
(* the lock with the compare-and-swap, the stores of an install up to the  *)
(* value switch (readers turn back at seq 1, unless there is no value),    *)
(* seq and lock at its end (readers do not look at the lock).  A failed    *)
(* ASSERT aborts its process; the model ends there.                        *)
(***************************************************************************)
EXTENDS VectorTS, Sequences, FiniteSets, Functions

CONSTANTS
  Key, PartOf,    \* records and their machines
  Home,           \* the machine of a coroutine
  Programs,       \* Programs[t]: the operation sequences transaction t may run
  Absent,         \* records that the loader did not put into the store
  Fresh,          \* start vectors are as new as can be: a special case
  NoTx, Null, Loaded

Kind == {"get", "upd", "ins", "del", "ro"}
Op   == [kind : Kind, key : Key]
Val  == Tx \cup {Loaded, Null}

\* SI_ENCODE_TS(server, counter).
Ver == Part \X Nat
NoVer == <<0, 0>>  \* seq of a record without a value
Busy  == <<0, 1>>  \* seq during an install; as a result, "nothing found"
First == <<0, 2>>  \* seq of a loaded record

ASSUME SIAssumption ==
  /\ 0 \in Part /\ PartOf \in [Key -> Part] /\ Home \in [Tx -> Part]
  /\ Programs \in [Tx -> SUBSET Seq(Op)]
  /\ Absent \subseteq Key /\ Fresh \in BOOLEAN
  /\ NoTx \notin Tx /\ Null \notin Tx /\ Loaded \notin Tx /\ Null # Loaded

VARIABLES
  node,  \* node[k]: the MemNode of record k
  tx,    \* tx[t]: the DBSI object and the stack of transaction t
  log    \* log[k]: history, the versions of k in the order of publication

sivars == <<node, tx, log, next, open, vec>>

Version == [ver : Ver, by : Val]
MemNode == [lock : Tx \cup {NoTx}, seq : Ver, value : Val, old : Seq(Version)]

\* An item of the local rwset or of the remote set; w: it will be written.
Item == [key : Key, seq : Ver, by : Val, kind : Kind, w : BOOLEAN]

Finished == {"committed", "aborted", "ro_done"}
PC == {"idle", "exec", "val", "chk", "old", "ochk", "lock_remote", "lock_all",
       "commit", "commit_remote", "report", "release_remote", "release_all",
       "stopped"} \cup Finished

TxState == [pc : PC, prog : Seq(Op), rwset : Seq(Item), rset : Seq(Item),
            current : Nat, i : Nat,              \* WriteSet::current, loop index
            todo : SUBSET Nat, ok : BOOLEAN,     \* RPC: items not served, result
            swapped : SUBSET Part,               \* machines inside an install
            commit_ts : Ver,
            seq : Ver, val : Val, chain : Seq(Version),  \* locals of a read
            snap : SUBSET [key : Key, ver : Ver, by : Val]]

IsLocal(t, k) == PartOf[k] = Home[t]
CurOp(t)  == Head(tx[t].prog)
CurKey(t) == CurOp(t).key

\* SI_GET_COUNTER(ver) <= ts_buffer_[SI_GET_SERVER(ver)].
Sees(t, ver) == ver[2] <= vec[t][ver[1]]

RemoteWrites(t) == {i \in DOMAIN tx[t].rset : tx[t].rset[i].w}

\* Each server goes through its items of a request in order.
NextAt(t, i) ==
  /\ i \in tx[t].todo
  /\ \A j \in tx[t].todo :
        PartOf[tx[t].rset[j].key] = PartOf[tx[t].rset[i].key] => i <= j

Become(t, x) == tx' = [tx EXCEPT ![t] = x]

-----------------------------------------------------------------------------
SIInit ==
  /\ VTInit
  /\ node = [k \in Key |->
               [lock |-> NoTx, old |-> <<>>,
                seq |-> IF k \in Absent THEN NoVer ELSE First,
                value |-> IF k \in Absent THEN Null ELSE Loaded]]
  /\ tx = [t \in Tx |->
             [pc |-> "idle", prog |-> <<>>, rwset |-> <<>>, rset |-> <<>>,
              current |-> 0, i |-> 1, todo |-> {}, ok |-> TRUE, swapped |-> {},
              commit_ts |-> NoVer, seq |-> NoVer, val |-> Null, chain |-> <<>>,
              snap |-> {}]]
  /\ log = [k \in Key |->
              IF k \in Absent THEN <<>> ELSE <<[ver |-> First, by |-> Loaded]>>]

\* Start vectors as a whole.
StartVectors ==
  {v \in [Part -> UNION {Covers(p) : p \in Part}] : \A p \in Part :
     v[p] \in Covers(p) /\ (Fresh => \A w \in Covers(p) : w <= v[p])}

\* _begin() and local_ro_begin().
Begin(t) ==
  /\ tx[t].pc = "idle"
  /\ \E p \in Programs[t], v \in StartVectors :
       /\ Become(t, [tx[t] EXCEPT !.pc = "exec", !.prog = p, !.rwset = <<>>,
                                  !.rset = <<>>, !.current = 0])
       /\ vec' = [vec EXCEPT ![t] = v]
  /\ UNCHANGED <<node, log, next, open>>

-----------------------------------------------------------------------------
(* Reads.  get() and get_ro() choose by seq between the value and the old   *)
(* versions; get_rpc_handler serves the newest version.                     *)

\* The operation is done with version s, written by v.
Got(t, s, v) ==
  LET k == CurKey(t)
      kd == CurOp(t).kind
      it == [key |-> k, seq |-> s, by |-> v, kind |-> kd, w |-> kd # "get"]
      done == [tx[t] EXCEPT !.pc = "exec", !.prog = Tail(@)]
  IN  IF kd = "ro"
      THEN [done EXCEPT !.snap = @ \cup {[key |-> k, ver |-> s, by |-> v]},
                        !.pc = IF Len(tx[t].prog) = 1 THEN "ro_done" ELSE "exec"]
      ELSE IF IsLocal(t, k) THEN [done EXCEPT !.rwset = Append(@, it)]
                            ELSE [done EXCEPT !.rset = Append(@, it)]

ReadsNewest(t) == CurOp(t).kind # "ro" /\ ~IsLocal(t, CurKey(t))

\* Fault: get_ro() takes the newest version.
ReadSeqNewest(t) ==
  /\ tx[t].pc = "exec" /\ tx[t].prog # <<>> /\ CurOp(t).kind \notin {"ins", "del"}
  /\ LET s == node[CurKey(t)].seq IN
       \/ CurOp(t).kind = "ro" /\ s = NoVer /\ Become(t, Got(t, Busy, Null))
       \/ /\ CurOp(t).kind # "ro" \/ s # NoVer
          /\ Become(t, [tx[t] EXCEPT !.seq = s, !.pc = "val"])
  /\ UNCHANGED <<node, log, next, open, vec>>

\* First access: the sequence number.
ReadSeq(t) ==
  /\ tx[t].pc = "exec" /\ tx[t].prog # <<>> /\ CurOp(t).kind \notin {"ins", "del"}
  /\ LET s == node[CurKey(t)].seq IN
       \/ CurOp(t).kind = "ro" /\ s = NoVer /\ Become(t, Got(t, Busy, Null))
       \/ /\ CurOp(t).kind # "ro" \/ s # NoVer
          /\ Become(t, [tx[t] EXCEPT !.seq = s,
                        !.pc = IF ReadsNewest(t) \/ Sees(t, s) THEN "val" ELSE "old"])
  /\ UNCHANGED <<node, log, next, open, vec>>

\* Second access: the value.  When there is none get() gives up, and get_ro(),
\* which does not support deleted records, fails an ASSERT.
ReadValue(t) ==
  /\ tx[t].pc = "val"
  /\ LET v == node[CurKey(t)].value IN
       \/ /\ v # Null \/ ReadsNewest(t)
          /\ Become(t, [tx[t] EXCEPT !.pc = "chk", !.val = v])
       \/ /\ v = Null /\ ~ReadsNewest(t) /\ CurOp(t).kind # "ro"
          /\ Become(t, [tx[t] EXCEPT !.pc = "exec", !.prog = Tail(@)])
       \/ /\ v = Null /\ CurOp(t).kind = "ro"
          /\ Become(t, [tx[t] EXCEPT !.pc = "stopped"])
  /\ UNCHANGED <<node, log, next, open, vec>>

\* Fault: the retry does not load the sequence number again.
ReadRetryStale(t) ==
  /\ tx[t].pc = "chk"
  /\ \/ /\ tx[t].seq = Busy \/ node[CurKey(t)].seq # tx[t].seq
        /\ Become(t, [tx[t] EXCEPT !.pc = "val"])
     \/ /\ tx[t].seq # Busy /\ node[CurKey(t)].seq = tx[t].seq
        /\ Become(t, Got(t, IF tx[t].val = Null THEN NoVer ELSE tx[t].seq, tx[t].val))
  /\ UNCHANGED <<node, log, next, open, vec>>

\* Third access: the sequence number again.
ReadCheck(t) ==
  /\ tx[t].pc = "chk"
  /\ \/ /\ tx[t].seq = Busy \/ node[CurKey(t)].seq # tx[t].seq
        /\ Become(t, [tx[t] EXCEPT !.pc = "exec"])
     \/ /\ tx[t].seq # Busy /\ node[CurKey(t)].seq = tx[t].seq
        /\ Become(t, Got(t, IF tx[t].val = Null THEN NoVer ELSE tx[t].seq, tx[t].val))
  /\ UNCHANGED <<node, log, next, open, vec>>

\* The walk over the old versions: the first one the start vector covers.
Walk(t, chain) ==
  LET seen == {j \in DOMAIN chain : /\ Sees(t, chain[j].ver)
                                    /\ \A h \in 1..(j - 1) : ~Sees(t, chain[h].ver)}
  IN  IF seen = {} THEN Got(t, Busy, Null)
      ELSE LET j == CHOOSE j \in seen : TRUE IN Got(t, chain[j].ver, chain[j].by)

\* get() walks at once, get_ro() looks at the sequence number again.  The
\* headers of linked versions do not change, so the walk needs no steps.
ReadOld(t) ==
  /\ tx[t].pc = "old"
  /\ LET chain == node[CurKey(t)].old IN
       \/ CurOp(t).kind # "ro" /\ Become(t, Walk(t, chain))
       \/ /\ CurOp(t).kind = "ro"
          /\ Become(t, [tx[t] EXCEPT !.pc = "ochk", !.chain = chain])
  /\ UNCHANGED <<node, log, next, open, vec>>

RoOldCheck(t) ==
  /\ tx[t].pc = "ochk"
  /\ \/ /\ node[CurKey(t)].seq # tx[t].seq
        /\ Become(t, [tx[t] EXCEPT !.pc = "exec"])
     \/ node[CurKey(t)].seq = tx[t].seq /\ Become(t, Walk(t, tx[t].chain))
  /\ UNCHANGED <<node, log, next, open, vec>>

\* insert(), REQ_INSERT.
Insert(t) ==
  /\ tx[t].pc = "exec" /\ tx[t].prog # <<>> /\ CurOp(t).kind = "ins"
  /\ Become(t, Got(t, node[CurKey(t)].seq, node[CurKey(t)].value))
  /\ UNCHANGED <<node, log, next, open, vec>>

\* delete_() of a local record: the first item of the record, or else a new
\* one, becomes a write without a value.
Delete(t) ==
  /\ tx[t].pc = "exec" /\ tx[t].prog # <<>> /\ CurOp(t).kind = "del"
  /\ LET k == CurKey(t)
         mine == {j \in DOMAIN tx[t].rwset : tx[t].rwset[j].key = k}
     IN  \/ mine = {} /\ Become(t, Got(t, node[k].seq, node[k].value))
         \/ \E j \in mine :
              /\ \A h \in mine : j <= h
              /\ Become(t, [tx[t] EXCEPT !.prog = Tail(@),
                             !.rwset[j] = [@ EXCEPT !.kind = "del", !.w = TRUE]])
  /\ UNCHANGED <<node, log, next, open, vec>>

-----------------------------------------------------------------------------
(* end()                                                                    *)

\* lock_remote() broadcasts the lock request to the servers of its writes.
End(t) ==
  /\ tx[t].pc = "exec" /\ tx[t].prog = <<>>
  /\ Become(t, [tx[t] EXCEPT !.pc = "lock_remote", !.todo = RemoteWrites(t)])
  /\ UNCHANGED <<node, log, next, open, vec>>

\* lock_rpc_handler, one item; the first failure ends the server's loop.
LockRpcHandler(t, i) ==
  /\ tx[t].pc = "lock_remote" /\ NextAt(t, i)
  /\ LET it   == tx[t].rset[i]
         mine == {j \in tx[t].todo : PartOf[tx[t].rset[j].key] = PartOf[it.key]}
         fail == [tx[t] EXCEPT !.todo = @ \ mine, !.ok = FALSE]
     IN  \/ /\ node[it.key].lock # NoTx
            /\ Become(t, fail) /\ UNCHANGED node
         \/ /\ node[it.key].lock = NoTx
            /\ node' = [node EXCEPT ![it.key].lock = t]
            /\ \/ node[it.key].seq # it.seq /\ Become(t, fail)
               \/ /\ node[it.key].seq = it.seq
                  /\ Become(t, [tx[t] EXCEPT !.todo = @ \ {i}])
  /\ UNCHANGED <<log, next, open, vec>>

\* goto ABORT: release_remote() broadcasts to the servers of its writes.
Abort(t, x) ==
  Become(t, [x EXCEPT !.pc = "release_remote", !.todo = RemoteWrites(t)])

LockReplies(t) ==
  /\ tx[t].pc = "lock_remote" /\ tx[t].todo = {}
  /\ \/ tx[t].ok /\ Become(t, [tx[t] EXCEPT !.pc = "lock_all", !.i = 1])
     \/ ~tx[t].ok /\ Abort(t, tx[t])
  /\ UNCHANGED <<node, log, next, open, vec>>

\* Fault: no version check under the lock.
LockNoCheck(t) ==
  /\ tx[t].pc = "lock_all" /\ tx[t].i \in DOMAIN tx[t].rwset
  /\ LET it == tx[t].rwset[tx[t].i] IN
       \/ ~it.w /\ Become(t, [tx[t] EXCEPT !.i = @ + 1]) /\ UNCHANGED node
       \/ it.w /\ node[it.key].lock # NoTx /\ Abort(t, tx[t]) /\ UNCHANGED node
       \/ /\ it.w /\ node[it.key].lock = NoTx
          /\ node' = [node EXCEPT ![it.key].lock = t]
          /\ Become(t, [tx[t] EXCEPT !.current = tx[t].i, !.i = @ + 1])
  /\ UNCHANGED <<log, next, open, vec>>

\* LockAllSet, one item.
LockAllSet(t) ==
  /\ tx[t].pc = "lock_all" /\ tx[t].i \in DOMAIN tx[t].rwset
  /\ LET it == tx[t].rwset[tx[t].i] IN
       \/ ~it.w /\ Become(t, [tx[t] EXCEPT !.i = @ + 1]) /\ UNCHANGED node
       \/ it.w /\ node[it.key].lock # NoTx /\ Abort(t, tx[t]) /\ UNCHANGED node
       \/ /\ it.w /\ node[it.key].lock = NoTx
          /\ node' = [node EXCEPT ![it.key].lock = t]
          /\ LET x == [tx[t] EXCEPT !.current = tx[t].i] IN
               \/ node[it.key].seq # it.seq /\ Abort(t, x)
               \/ node[it.key].seq = it.seq /\ Become(t, [x EXCEPT !.i = @ + 1])
  /\ UNCHANGED <<log, next, open, vec>>

\* Fault: the timestamp is encoded with the number of a thread.
GetCommitTsThread(t) ==
  /\ tx[t].pc = "lock_all" /\ tx[t].i \notin DOMAIN tx[t].rwset
  /\ TakeTs(Home[t])
  /\ Become(t, [tx[t] EXCEPT !.pc = "commit", !.i = 1,
                             !.commit_ts = <<2 * Home[t], next[Home[t]]>>])
  /\ UNCHANGED <<node, log>>

\* Everything is locked: get_commit_ts.
GetCommitTs(t) ==
  /\ tx[t].pc = "lock_all" /\ tx[t].i \notin DOMAIN tx[t].rwset
  /\ TakeTs(Home[t])
  /\ Become(t, [tx[t] EXCEPT !.pc = "commit", !.i = 1,
                             !.commit_ts = <<Home[t], next[Home[t]]>>])
  /\ UNCHANGED <<node, log>>

\* The install of one item at machine p.  First seq = 1, on its own where there
\* is no value: a reader that meets it does not turn back.
Hide(t, it) ==
  /\ PartOf[it.key] \notin tx[t].swapped
  /\ node[it.key].value = Null /\ node[it.key].seq # Busy
  /\ node' = [node EXCEPT ![it.key].seq = Busy]
  /\ UNCHANGED <<tx, log, next, open, vec>>

\* Then the header of the current value and the value switch, to NULL for a
\* delete.  Over a value that is NULL nothing is linked: what older versions
\* the record had is lost.
Swap(t, it, ver) ==
  /\ PartOf[it.key] \notin tx[t].swapped
  /\ node[it.key].value # Null \/ node[it.key].seq = Busy
  /\ node' = [node EXCEPT ![it.key].seq = Busy,
                ![it.key].value = IF it.kind = "del" THEN Null ELSE t,
                ![it.key].old = IF node[it.key].value = Null THEN <<>>
                                ELSE <<[ver |-> ver, by |-> node[it.key].value]>> \o @]
  /\ Become(t, [tx[t] EXCEPT !.swapped = @ \cup {PartOf[it.key]}])
  /\ UNCHANGED <<log, next, open, vec>>

\* Then seq = commit timestamp and lock = 0; x goes on to the next item.
Publish(t, it, x) ==
  /\ PartOf[it.key] \in tx[t].swapped
  /\ node' = [node EXCEPT ![it.key].seq = tx[t].commit_ts, ![it.key].lock = NoTx]
  /\ log' = [log EXCEPT ![it.key] = Append(@, [ver |-> tx[t].commit_ts, by |-> t])]
  /\ Become(t, [x EXCEPT !.swapped = @ \ {PartOf[it.key]}])
  /\ UNCHANGED <<next, open, vec>>

CommitLocalWrite(t) ==
  /\ tx[t].pc = "commit" /\ tx[t].i \in DOMAIN tx[t].rwset
  /\ LET it == tx[t].rwset[tx[t].i]
         x  == [tx[t] EXCEPT !.i = @ + 1]
     IN  \/ ~it.w /\ Become(t, x) /\ UNCHANGED <<node, log, next, open, vec>>
         \/ it.w /\ (Hide(t, it) \/ Swap(t, it, it.seq) \/ Publish(t, it, x))

\* Fault: the timestamp is reported while the write-backs are on their way.
CommitRemoteAsync(t) ==
  /\ tx[t].pc = "commit" /\ tx[t].i \notin DOMAIN tx[t].rwset
  /\ EndTs(Home[t], tx[t].commit_ts[2])
  /\ Become(t, [tx[t] EXCEPT !.pc = "commit_remote", !.todo = RemoteWrites(t)])
  /\ UNCHANGED <<node, log>>

\* commit_remote() broadcasts the write-back request.
CommitRemote(t) ==
  /\ tx[t].pc = "commit" /\ tx[t].i \notin DOMAIN tx[t].rwset
  /\ Become(t, [tx[t] EXCEPT !.pc = "commit_remote", !.todo = RemoteWrites(t)])
  /\ UNCHANGED <<node, log, next, open, vec>>

\* commit_rpc_handler2, one item.  It skips an item that is not locked by the
\* sender; InstallsUnderLock says that there is none.
CommitRpcHandler(t, i) ==
  /\ tx[t].pc = "commit_remote" /\ NextAt(t, i)
  /\ LET it == tx[t].rset[i] IN
       \/ Hide(t, it) \/ Swap(t, it, node[it.key].seq)
       \/ Publish(t, it, [tx[t] EXCEPT !.todo = @ \ {i}])

CommitReplies(t) ==
  /\ tx[t].pc = "commit_remote" /\ tx[t].todo = {}
  /\ Become(t, [tx[t] EXCEPT !.pc = "report"])
  /\ UNCHANGED <<node, log, next, open, vec>>

\* Fault: commit_ts() returns early (batch_num_ < TS_BATCH).
CommitTsBatched(t) ==
  /\ tx[t].pc = "report"
  /\ Become(t, [tx[t] EXCEPT !.pc = "committed"])
  /\ UNCHANGED <<node, log, next, open, vec>>

\* commit_ts(): the report, after the last install.
CommitTs(t) ==
  /\ tx[t].pc = "report"
  /\ EndTs(Home[t], tx[t].commit_ts[2])
  /\ Become(t, [tx[t] EXCEPT !.pc = "committed"])
  /\ UNCHANGED <<node, log>>

\* Fault: lock = 0 without comparing the content.
ReleaseAny(t, i) ==
  /\ tx[t].pc = "release_remote" /\ NextAt(t, i)
  /\ node' = [node EXCEPT ![tx[t].rset[i].key].lock = NoTx]
  /\ Become(t, [tx[t] EXCEPT !.todo = @ \ {i}])
  /\ UNCHANGED <<log, next, open, vec>>

\* release_rpc_handler, one item: compare-and-swap of the sender's own lock.
ReleaseRpcHandler(t, i) ==
  /\ tx[t].pc = "release_remote" /\ NextAt(t, i)
  /\ LET k == tx[t].rset[i].key IN
       node' = IF node[k].lock = t THEN [node EXCEPT ![k].lock = NoTx] ELSE node
  /\ Become(t, [tx[t] EXCEPT !.todo = @ \ {i}])
  /\ UNCHANGED <<log, next, open, vec>>

ReleaseReplies(t) ==
  /\ tx[t].pc = "release_remote" /\ tx[t].todo = {}
  /\ Become(t, [tx[t] EXCEPT !.pc = "release_all", !.i = 1])
  /\ UNCHANGED <<node, log, next, open, vec>>

\* ReleaseAllSet: lock = 0 for every written item up to `current'.
ReleaseAllSet(t) ==
  /\ tx[t].pc = "release_all"
  /\ \/ /\ tx[t].i > tx[t].current
        /\ Become(t, [tx[t] EXCEPT !.pc = "aborted"]) /\ UNCHANGED node
     \/ /\ tx[t].i <= tx[t].current
        /\ Become(t, [tx[t] EXCEPT !.i = @ + 1])
        /\ LET it == tx[t].rwset[tx[t].i] IN
             node' = IF it.w THEN [node EXCEPT ![it.key].lock = NoTx] ELSE node
  /\ UNCHANGED <<log, next, open, vec>>

-----------------------------------------------------------------------------
Read(t) ==
  \/ ReadSeq(t) \/ ReadValue(t) \/ ReadCheck(t) \/ ReadOld(t) \/ RoOldCheck(t)
  \/ Insert(t) \/ Delete(t)

Serve(t) ==
  \E i \in tx[t].todo :
    LockRpcHandler(t, i) \/ CommitRpcHandler(t, i) \/ ReleaseRpcHandler(t, i)

EndSteps(t) ==
  \/ End(t) \/ LockReplies(t) \/ LockAllSet(t) \/ GetCommitTs(t)
  \/ CommitLocalWrite(t) \/ CommitRemote(t) \/ CommitReplies(t) \/ CommitTs(t)
  \/ ReleaseReplies(t) \/ ReleaseAllSet(t)

Stopped == \E t \in Tx : tx[t].pc = "stopped"

Step(t) == ~Stopped /\ (Begin(t) \/ Read(t) \/ Serve(t) \/ EndSteps(t))

Terminated ==
  /\ Stopped \/ \A t \in Tx : tx[t].pc \in Finished
  /\ UNCHANGED sivars

SINext == (\E t \in Tx : Step(t)) \/ Terminated

SISpec == SIInit /\ [][SINext]_sivars

\* Workers keep scheduling their coroutines and serving requests.
SIFairSpec == SISpec /\ \A t \in Tx : WF_sivars(Step(t))

-----------------------------------------------------------------------------
\* The variables keep their types.
SITypeOK ==
  /\ node \in [Key -> MemNode] /\ tx \in [Tx -> TxState]
  /\ log \in [Key -> Seq(Version)]
  /\ next \in [Part -> Nat] /\ open \in [Part -> SUBSET Nat]
  /\ vec \in [Tx -> [Part -> Nat]]

\* Installs happen under the transaction's own lock and locks do not outlive
\* their transaction, on the commit path and on every abort path of end().
InstallsUnderLock ==
  \A t \in Tx :
    /\ tx[t].pc = "commit" => \A i \in DOMAIN tx[t].rwset :
         i >= tx[t].i /\ tx[t].rwset[i].w => node[tx[t].rwset[i].key].lock = t
    /\ tx[t].pc \in {"commit", "commit_remote"} =>
         \A i \in RemoteWrites(t) :
           tx[t].pc = "commit" \/ i \in tx[t].todo => node[tx[t].rset[i].key].lock = t
    /\ tx[t].pc \in Finished => \A k \in Key : node[k].lock # t

\* Every commit timestamp taken belongs to a transaction that is installing and
\* will report it: a number that leaked would stop its machine's entry of the
\* vector for good.
TsAccounted ==
  \A p \in Part : \A c \in open[p] :
    \E t \in Tx : /\ tx[t].commit_ts = <<p, c>>
                  /\ tx[t].pc \in {"commit", "commit_remote", "report"}

\* The position of the version by w in the history of k (0: none).
Pos(k, w) == IF \E j \in DOMAIN log[k] : log[k][j].by = w
             THEN CHOOSE j \in DOMAIN log[k] : log[k][j].by = w
             ELSE 0

\* No update is lost: the version a transaction overwrites is the one it read.
\* A read of an old version, or one overtaken, makes LockAllSet or
\* lock_rpc_handler fail.  The same holds of the version it deletes.
NoLostUpdate ==
  \A t \in Tx : \A it \in Range(tx[t].rwset) \cup Range(tx[t].rset) :
    it.kind \in {"upd", "del"} /\ it.by # Null /\ Pos(it.key, t) > 0
      => log[it.key][Pos(it.key, t) - 1].by = it.by

\* A snapshot read is final: it returns the last version of the record that the
\* start vector covers, and no covered version is published afterwards.  This
\* needs the service's promise and the order of install and report in end().  In
\* particular no read returns a record whose covered version is a delete.
SnapshotFinal ==
  \A t \in Tx : \A r \in tx[t].snap : \A j \in DOMAIN log[r.key] :
    Sees(t, log[r.key][j].ver) => j <= Pos(r.key, r.by)

\* A read-only transaction sees the writes of a transaction all or not at all,
\* across machines, while they are installed one after the other.
NoFracturedRead ==
  \A t \in Tx : \A r, q \in tx[t].snap :
    r.by \in Tx => Pos(q.key, q.by) >= Pos(q.key, r.by)

\* A snapshot is a consistent cut: with a version it contains everything that
\* the transactions of the record's earlier versions wrote.
ConsistentCut ==
  \A t \in Tx : \A r, q \in tx[t].snap : \A j \in 1..Pos(r.key, r.by) :
    Pos(q.key, q.by) >= Pos(q.key, log[r.key][j].by)

\* Every transaction ends, and with it every commit timestamp is reported, unless
\* a snapshot read has met a record without a value and stopped its process.
EveryTxEnds == <>(Stopped \/ \A t \in Tx : tx[t].pc \in Finished)
=============================================================================
