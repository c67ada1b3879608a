----------------------------- MODULE TSManager -----------------------------
(***************************************************************************)
(* The vector-timestamp service of VTS (drtm-dst/src/db/txs/ts_manager.hpp *)
(* with ONE_CLOCK and LARGE_VEC 0), and how a transaction of dbsi.cc uses  *)
(* it.  Every machine numbers its own commits; the master keeps a vector   *)
(* with, for each machine, the last number below which every commit has    *)
(* been reported.  Each machine fetches that vector again and again into   *)
(* the spare one of two buffers and swaps them; a transaction copies       *)
(* the published buffer when it starts.  The memcpys run without any lock, *)
(* entry by entry and in any order.                                        *)
(***************************************************************************)
EXTENDS Integers, FiniteSets

CONSTANTS
  N,        \* get_num_nodes()
  Tx,       \* coroutines of the machines' workers, each runs transactions
  Home,     \* the machine of a coroutine
  MaxTs,    \* bound: commit timestamps of machine p are taken below MaxTs[p]
  IntHalf   \* 2^31: where the int of ts_queue_t_'s comparator turns negative

Part == 0..(N - 1)

\* The machines whose start vectors are watched; the others only commit.
Client == {Home[t] : t \in Tx}

ASSUME TSAssumption ==
  /\ N \in Nat \ {0} /\ Home \in [Tx -> Part]
  /\ MaxTs \in [Part -> Nat] /\ IntHalf \in Nat \ {0}

VARIABLES
  local_ts,   \* local_ts[p]: the next commit timestamp of machine p
  issued,     \* taken by transactions that are still installing
  sent,       \* update requests on their way to the master
  ts_buffer,  \* the master's vector
  pending,    \* pending_tss_: reported, with a smaller one missing
  busy,       \* update_locks_[p] is held: ts_update_handler is in its loop
  fetch,      \* fetch[p]: worker_routine of machine p
  buf, cur,   \* its two buffers and which of them is fetched_ts_buffer_
  start       \* start[t]: ts_buffer_ of t's transaction, and its memcpy

tsvars == <<local_ts, issued, sent, ts_buffer, pending, busy, fetch, buf, cur,
            start>>

Vec == [Part -> Nat]

\* "get": ts_get_handler copies the vector; "copy": the reply goes to the spare
\* buffer.  todo: the entries the memcpy has still to copy.
Fetch == [phase : {"get", "copy"}, todo : SUBSET Part, vec : Vec]

\* from: the buffer fetched_ts_buffer_ pointed to when get_start_ts read it.
Start == [from : {1, 2}, todo : SUBSET Part, vec : Vec]

Spare(p) == 3 - cur[p]

TSInit ==
  /\ local_ts = [p \in Part |-> 3]
  /\ issued = [p \in Part |-> {}] /\ sent = [p \in Part |-> {}]
  /\ ts_buffer = [p \in Part |-> 2] /\ pending = [p \in Part |-> {}]
  /\ busy = [p \in Part |-> FALSE]
  /\ fetch = [p \in Part |->
                [phase |-> "get", todo |-> Part, vec |-> [q \in Part |-> 0]]]
  /\ buf = [p \in Part |-> [b \in {1, 2} |-> [q \in Part |-> IF b = 1 THEN 2 ELSE 0]]]
  /\ cur = [p \in Part |-> 1]
  /\ start = [t \in Tx |-> [from |-> 1, todo |-> {},
                            vec |-> [q \in Part |-> 0]]]

-----------------------------------------------------------------------------
(* Transactions: a start vector, a commit timestamp, its report.            *)

\* get_start_ts: read the pointer ...
GetStartTs(t) ==
  /\ start[t].todo = {}
  /\ start' = [start EXCEPT ![t].from = cur[Home[t]], ![t].todo = Part]
  /\ UNCHANGED <<local_ts, issued, sent, ts_buffer, pending, busy, fetch, buf, cur>>

\* Fault: the machine's own entry comes from local_ts, "its commits are known".
CopyStartTsOwn(t, q) ==
  /\ q \in start[t].todo
  /\ start' = [start EXCEPT ![t].todo = @ \ {q},
                            ![t].vec[q] = IF q = Home[t] THEN local_ts[q] - 1
                                          ELSE buf[Home[t]][start[t].from][q]]
  /\ UNCHANGED <<local_ts, issued, sent, ts_buffer, pending, busy, fetch, buf, cur>>

\* ... and copy what it points to.
CopyStartTs(t, q) ==
  /\ q \in start[t].todo
  /\ start' = [start EXCEPT ![t].todo = @ \ {q},
                            ![t].vec[q] = buf[Home[t]][start[t].from][q]]
  /\ UNCHANGED <<local_ts, issued, sent, ts_buffer, pending, busy, fetch, buf, cur>>

\* get_commit_ts: __sync_fetch_and_add(&local_ts, 1).
GetCommitTs(p) ==
  /\ local_ts[p] < MaxTs[p]
  /\ issued' = [issued EXCEPT ![p] = @ \cup {local_ts[p]}]
  /\ local_ts' = [local_ts EXCEPT ![p] = @ + 1]
  /\ UNCHANGED <<sent, ts_buffer, pending, busy, fetch, buf, cur, start>>

\* DBSI::commit_ts: every version is installed, tell the master.
CommitTs(p, c) ==
  /\ c \in issued[p]
  /\ issued' = [issued EXCEPT ![p] = @ \ {c}]
  /\ sent' = [sent EXCEPT ![p] = @ \cup {c}]
  /\ UNCHANGED <<local_ts, ts_buffer, pending, busy, fetch, buf, cur, start>>

-----------------------------------------------------------------------------
(* ts_update_handler, run by the master's workers: requests of one machine  *)
(* arrive in any order and are served one at a time (update_locks_).        *)

\* The uint64_t as the comparator std::greater<int> sees it.
AsInt(c) == ((c + IntHalf) % (2 * IntHalf)) - IntHalf

\* pending_tss_[p].top() == ts_buffer[p] + 1.  The top of an emptied queue is
\* the element popped last, which is ts_buffer[p] itself.
TopIsNext(p) ==
  LET next == ts_buffer[p] + 1 IN
  next \in pending[p] /\ \A c \in pending[p] : AsInt(next) <= AsInt(c)

\* Fault: no queue, the entry takes the reported timestamp.
UpdateNoQueue(p, c) ==
  /\ c \in sent[p] /\ ~busy[p]
  /\ sent' = [sent EXCEPT ![p] = @ \ {c}]
  /\ ts_buffer' = [ts_buffer EXCEPT ![p] = c]
  /\ UNCHANGED <<local_ts, issued, pending, busy, fetch, buf, cur, start>>

UpdatePush(p, c) ==
  /\ c \in sent[p] /\ ~busy[p]
  /\ sent' = [sent EXCEPT ![p] = @ \ {c}]
  /\ pending' = [pending EXCEPT ![p] = @ \cup {c}]
  /\ busy' = [busy EXCEPT ![p] = TRUE]
  /\ UNCHANGED <<local_ts, issued, ts_buffer, fetch, buf, cur, start>>

\* Fault: `if' in the place of `while'.
UpdateStepOnce(p) ==
  /\ busy[p] /\ TopIsNext(p)
  /\ ts_buffer' = [ts_buffer EXCEPT ![p] = @ + 1]
  /\ pending' = [pending EXCEPT ![p] = @ \ {ts_buffer[p] + 1}]
  /\ busy' = [busy EXCEPT ![p] = FALSE]
  /\ UNCHANGED <<local_ts, issued, sent, fetch, buf, cur, start>>

\* One round of the loop.
UpdateStep(p) ==
  /\ busy[p] /\ TopIsNext(p)
  /\ ts_buffer' = [ts_buffer EXCEPT ![p] = @ + 1]
  /\ pending' = [pending EXCEPT ![p] = @ \ {ts_buffer[p] + 1}]
  /\ UNCHANGED <<local_ts, issued, sent, busy, fetch, buf, cur, start>>

UpdateDone(p) ==
  /\ busy[p] /\ ~TopIsNext(p)
  /\ busy' = [busy EXCEPT ![p] = FALSE]
  /\ UNCHANGED <<local_ts, issued, sent, ts_buffer, pending, fetch, buf, cur, start>>

-----------------------------------------------------------------------------
(* worker_routine: fetch the vector, copy it to the spare buffer, swap.     *)

\* ts_get_handler at the master, while its workers run ts_update_handler.
TsGetHandler(p, q) ==
  /\ fetch[p].phase = "get" /\ q \in fetch[p].todo
  /\ fetch' = [fetch EXCEPT ![p].todo = @ \ {q}, ![p].vec[q] = ts_buffer[q]]
  /\ UNCHANGED <<local_ts, issued, sent, ts_buffer, pending, busy, buf, cur, start>>

\* The reply has arrived.
TsReply(p) ==
  /\ fetch[p].phase = "get" /\ fetch[p].todo = {}
  /\ fetch' = [fetch EXCEPT ![p].phase = "copy", ![p].todo = Part]
  /\ UNCHANGED <<local_ts, issued, sent, ts_buffer, pending, busy, buf, cur, start>>

\* memcpy(temp, local_buffer): a transaction may still be copying from temp.
CopyToSpare(p, q) ==
  /\ fetch[p].phase = "copy" /\ q \in fetch[p].todo
  /\ fetch' = [fetch EXCEPT ![p].todo = @ \ {q}]
  /\ buf' = [buf EXCEPT ![p][Spare(p)][q] = fetch[p].vec[q]]
  /\ UNCHANGED <<local_ts, issued, sent, ts_buffer, pending, busy, cur, start>>

\* Fault: temp does not take the buffer that was published, a third one does.
SwapBuffersLeak(p) ==
  /\ fetch[p].phase = "copy" /\ fetch[p].todo = {}
  /\ cur' = [cur EXCEPT ![p] = @ + 1]
  /\ fetch' = [fetch EXCEPT ![p].phase = "get", ![p].todo = Part]
  /\ UNCHANGED <<local_ts, issued, sent, ts_buffer, pending, busy, buf, start>>

\* Fault: the spare buffer is published before it is filled.
SwapBuffersEarly(p) ==
  /\ fetch[p].phase = "copy"
  /\ cur' = [cur EXCEPT ![p] = Spare(p)]
  /\ fetch' = [fetch EXCEPT ![p].phase = "get", ![p].todo = Part]
  /\ UNCHANGED <<local_ts, issued, sent, ts_buffer, pending, busy, buf, start>>

\* Fault: fetched_ts_buffer_ keeps pointing to the other buffer.
SwapBuffersKept(p) ==
  /\ fetch[p].phase = "copy" /\ fetch[p].todo = {}
  /\ fetch' = [fetch EXCEPT ![p].phase = "get", ![p].todo = Part]
  /\ UNCHANGED <<local_ts, issued, sent, ts_buffer, pending, busy, buf, cur, start>>

\* The buffer just filled is published, the other one is filled next.
SwapBuffers(p) ==
  /\ fetch[p].phase = "copy" /\ fetch[p].todo = {}
  /\ cur' = [cur EXCEPT ![p] = Spare(p)]
  /\ fetch' = [fetch EXCEPT ![p].phase = "get", ![p].todo = Part]
  /\ UNCHANGED <<local_ts, issued, sent, ts_buffer, pending, busy, buf, start>>

-----------------------------------------------------------------------------
Update(p) == (\E c \in sent[p] : UpdatePush(p, c)) \/ UpdateStep(p) \/ UpdateDone(p)

FetchTs(p) ==
  \/ \E q \in Part : TsGetHandler(p, q) \/ CopyToSpare(p, q)
  \/ TsReply(p) \/ SwapBuffers(p)

Report(p) == \E c \in issued[p] : CommitTs(p, c)

StartTs(t) == GetStartTs(t) \/ \E q \in Part : CopyStartTs(t, q)

TSNext ==
  \/ \E p \in Part : GetCommitTs(p) \/ Report(p) \/ Update(p)
  \/ \E p \in Client : FetchTs(p)
  \/ \E t \in Tx : StartTs(t)

TSSpec == TSInit /\ [][TSNext]_tsvars

\* A transaction that holds a commit timestamp installs its versions and reports
\* it, the master serves requests, every machine keeps fetching: none of these
\* ever waits for another transaction.  Nobody has to start or commit one.
TSFairSpec ==
  /\ TSSpec
  /\ \A p \in Part : WF_tsvars(Report(p)) /\ WF_tsvars(Update(p))
  /\ \A p \in Client : WF_tsvars(FetchTs(p))

-----------------------------------------------------------------------------
\* The variables keep their types.
TSTypeOK ==
  /\ local_ts \in Vec /\ ts_buffer \in Vec
  /\ issued \in [Part -> SUBSET Nat] /\ sent \in [Part -> SUBSET Nat]
  /\ pending \in [Part -> SUBSET Nat] /\ busy \in [Part -> BOOLEAN]
  /\ fetch \in [Part -> Fetch] /\ cur \in [Part -> {1, 2}]
  /\ buf \in [Part -> [{1, 2} -> Vec]] /\ start \in [Tx -> Start]

\* The master's vector is exact, in whatever order the reports of a machine's
\* workers reach ts_update_handler: the timestamps above an entry are the ones
\* not yet reported, in flight or waiting in pending_tss_, each in one place.
Prefix ==
  \A p \in Part :
    /\ ts_buffer[p] < local_ts[p]
    /\ issued[p] \cup sent[p] \cup pending[p] = (ts_buffer[p] + 1)..(local_ts[p] - 1)
    /\ issued[p] \cap sent[p] = {} /\ issued[p] \cap pending[p] = {}
    /\ sent[p] \cap pending[p] = {}

\* A start vector (get_start_ts) covers transactions that have installed all of
\* their versions and no other, although it is put together by three
\* unsynchronised memcpys from values of different moments.
SnapshotFinished ==
  \A t \in Tx, p \in Part : \A c \in issued[p] : start[t].vec[p] < c

\* ts_update_handler's loop leaves nothing behind: between two requests, the
\* timestamp the entry waits for is not in the queue.
NoStall == \A p \in Part : ~busy[p] => ts_buffer[p] + 1 \notin pending[p]

\* What transactions of machine h that start now are given for machine p.
Published(h, p) == buf[h][cur[h]][p]

\* Every commit becomes visible to later transactions of every machine and
\* stays visible: holes in the numbering are closed, no report is forgotten
\* by ts_update_handler and no fetch of worker_routine takes the vector back.
CommitsBecomeVisible ==
  \A p \in Part, h \in Client : \A c \in 3..(MaxTs[p] - 1) :
    c \in issued[p] ~> [](c <= Published(h, p))

-----------------------------------------------------------------------------
VT == INSTANCE VectorTS
        WITH next <- local_ts, open <- issued, vec <- [t \in Tx |-> start[t].vec]

\* The service keeps its promise (VectorTS) although reports overtake each
\* other, three memcpys race with the updates and the buffers are swapped under
\* readers: every step of TSManager is a step of VectorTS or invisible to it.
Promise == VT!VTSpec
=============================================================================
