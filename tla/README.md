# TLA+ models of the DST transaction systems

DST ("decentralized scalar timestamp") gives read-only transactions a consistent
snapshot without a timestamp server. The repository holds DST inside three
systems (`drtm-dst`, `rococo-dst`, `mysql-dst`), next to the baselines it is
compared with. This project models

* `drtm-dst`: the DST protocol itself, and VTS (vector timestamps), the strongest
  of the baselines, down to the timestamp service below it;
* `rococo-dst`: the transactions of ROCOCO (dependency tracking and reordering),
  with the one-round read-only transactions that its DST build (`PDI`) uses.

Paths below are relative to `drtm-dst/src/` unless they start with `docs/` or
`README.md` (of the repository), or with `deptran/` or `rrr/` (of `rococo-dst/`).

## 1. The system

### Components

| Component | State | Operations | Talks to |
|---|---|---|---|
| MemNode (`memstore/memstore.h`) | `lock`, `seq`, `value`, `old_value` (chain of versions), `read_ts`, `read_lock` | none of its own: plain loads, stores and compare-and-swaps by the others | shared by all workers of a machine |
| DBRad (`db/txs/dbrad.cc`) | per coroutine: `timestamp`, local `rwset` with `current`, `RemoteSet` | `_begin`, `get`, `write`, `insert`, `delete_`, `end`; `local_ro_begin`, `get_ro` | MemNodes of its machine directly, others through RPC |
| DBRad handlers (`db/txs/dbrad_rpc_handler.cc`) | none | get, lock, release, commit | MemNodes of the server |
| RemoteSet (`db/remote_set.cc`) | remote items, request buffers, list of servers, `max_time_` | `add`, `do_reads`, `get_results`, `promote_to_write`, `lock_remote`, `validate_remote`, `commit_remote`, `release_remote` | the handlers, by broadcast request and reply |
| TSManager (`db/txs/ts_manager.hpp`) | `local_ts` per machine; at the master the vector and `pending_tss_`; per machine two buffers and `fetched_ts_buffer_` | `get_start_ts`, `get_commit_ts`, `ts_update_handler`, `ts_get_handler`, `worker_routine` | DBSI; messages to and from the master |
| DBSI (`db/txs/dbsi.cc`, `dbsi_rpc_handler.cc`) | per coroutine: `ts_buffer_` (start vector), `rwset`, `RemoteSet` | as DBRad, with `get_commit_ts` and `commit_ts` | MemNodes, handlers, TSManager |
| DBTX, DBFarm, RTX (`db/txs/dbtx*.cc`, `db_farm*.cc`, `rtx/`) | OCC: read and write sets | `get`, `end` with validation, log | MemNodes, handlers |
| DBLogger (`db/db_logger.cc`) | log buffers | `log_backups` | compiled out (`USE_LOGGER`) |
| Workers, coroutines, RPC (`core/`, `framework/`) | run queues, pending replies | yield, send, poll, dispatch | everything |
| Memstore indexes (`memstore/`) | B+ trees, hash tables | `GetWithInsert`, iterators | return MemNodes |
| Applications (`app/`) | TPC-C, TPC-E, SmallBank tables | stored procedures | DBRad, DBSI, ... |
| ROCOCO coordinator (`deptran/coordinator.cc`, `txn_chopper.cc`) | per transaction: pieces, merged graph, counts of replies, `early_return_` | `deptran_start`, `deptran_finish`, `deptran_start_ro` and the callbacks of their requests | the servers of the pieces |
| ROCOCO server (`deptran/rcc/rcc.cpp`, `rcc_service.cc`) | dependency graph, `entry_t::last_` of each column, per transaction `TxnInfo` (status, servers, `res`, `during_commit`, `during_asking`), waiting `DragonBall`s | `rcc_start_pie`, `rcc_ro_start_pie`, `rcc_finish_txn`, `rcc_ask_txn`; `to_decide` and its callbacks | coordinators; other servers through `rcc_ask_txn` |
| Dependency graph (`deptran/graph.hpp`, `dep_graph.cc`, `txn_info.h`) | vertices, edges with the bits `EDGE_I` and `EDGE_D`, status bits | union, search for ancestors, components, `sorted_scc`, marshalling | part of the two above |
| MySQL Cluster (`mysql-dst`) | its own | its own | a separate program |

### What is hard about it

* **Interleaving.** Coroutines of many threads, and RPC handlers on behalf of
  other machines, access MemNodes with single loads and stores. Nothing but the
  `lock` word, the convention that `seq` is 1 during an install, and the second
  look at `seq` keeps them apart.
* **Partial failure.** Locking stops at the first conflict, on several machines
  at once; the abort path has to undo exactly what was done. Unlocking is partly
  `lock = 0` without comparing.
* **Ordering.** A snapshot is right only if a version's timestamp, its
  publication and (in VTS) the report of the timestamp happen in the right
  order. Reports overtake each other. `read_ts` is stored and `lock` is loaded
  without a fence.
* **Numbers.** Commit timestamps are derived from what was read; an off-by-one
  makes two versions equal. A comparator on `int` orders 64-bit timestamps.
* **Liveness.** Readers wait for locks and retry while installs go on; a hole in
  the vector stops a machine's commits from becoming visible.

* **Callbacks (ROCOCO).** A server decides a transaction when events at other
  servers have come; three paths lead to the same decision. State asked for
  before an answer is used after it. Graphs in messages are old when they arrive.

There is no crash recovery in this configuration (the logger is off), and the
RPC layer runs over reliable queue pairs: messages are neither lost nor
duplicated. `PROJECT.json` lists the hazards line by line.

### What makes it correct

* locks: a transaction installs and unlocks only what it has locked, and gives
  every lock back, on each path through `end()`;
* reads: version and value belong together, the chain of old versions is the
  history, snapshot reads return the version the timestamp or vector asks for;
* isolation: no lost update, no fractured snapshot, snapshots do not change
  after the fact, snapshots are consistent cuts;
* timestamp service: a start vector covers finished transactions only, and every
  commit becomes visible;
* progress: every transaction ends;
* ROCOCO: servers that never talk about the order execute conflicting pieces in
  one order that respects real time, even when a client is answered before its
  deferred pieces ran, and each piece once; nobody waits for ever; a read-only
  transaction sees all of another or nothing.

## 2. The modules

```
DBRad ------ MCDBRad
   \
    DBRad_proofs <---- DBRad_history_proofs <---- DBRad_reads_proofs <---- DBRad_snapshot_proofs

VectorTS <--INSTANCE-- TSManager ---- MCTSManager
    ^                      \
    |EXTENDS                TSManager_proofs
  DBSI ------ MCDBSI
     \
      DBSI_proofs <---- DBSI_history_proofs

DepGraph ---- Rococo ---- RococoWorkloads ---- MCRococo
                                 \
                                  Rococo_proofs
```

`VectorTS` is the interface between the two halves of VTS: `TSManager` is shown
to implement it, `DBSI` is built on it. `RococoWorkloads` holds no state: it says what
some theorems about Rococo ask of the workloads, and `MCRococo` assumes it of the
workloads of its runs, so that TLC evaluates it there.

Conventions. A step is one access to shared memory, or several that nobody else
can tell apart (each module's header says which). A transaction's stack, its
sets and its program counter are the record `tx[t]`; labels of the program
counter name the next access (for Rococo see below). A value is the transaction
that wrote it (`Loaded` for the loader, `Null` for a NULL pointer). A lock holds
the transaction that `ENCODE_LOCK_CONTENT` identifies. `log` is a history variable: the versions of a
record in the order of publication. Each operator under a comment `Fault` or
`Mutant` is a plausible mistake in the operator that it names or that follows it;
no specification uses it.
An operation that stops the process (`assert(false)`, `exit`) is not a step of
DBRad; in DBSI (`stopped`) and Rococo (`down`), where a property is about it, it is.
A retry of an aborted transaction by the worker is another transaction.

### DBRad

| Definitions | Code |
|---|---|
| `Begin` | `_begin`, `local_ro_begin`: reset the sets, timestamp = clock reading × 2^12 (`get_timestamp`); any reading, since clocks differ |
| `ReadSeq`, `ReadValue`, `ReadCheck`, `AddItem` | `get` (local) and `get_rpc_handler` (remote): seq, value, seq again; the item goes to `rwset` or to the remote set. `write` marks it: kind `upd` |
| `BlindWrite`, `DeleteItem` | `insert`, `delete_` |
| `End`, `LockRpcHandler`, `LockReplies` | `lock_remote`, `lock_rpc_handler` on each server, `_check_res` |
| `LockAllSet`, `LockCheck` | `LockAllSet`: compare-and-swap, `current`, seq comparison, maximum with `read_ts` and `seq`, + 1 |
| `CommitTs` | the maximum with the remote items' seq in `end()` |
| `CommitLocalWrite`, `CommitRemote`, `CommitRpcHandler`, `CommitReplies` with `Hide`, `Swap`, `Publish`, `Unlock` | install: seq = 1, header, value switch; seq = timestamp; lock = 0. Over a NULL value seq = 1 is a step of its own (`Hide`), since a reader that finds no value does not look at seq again; over a value nobody can tell it from the switch |
| `Abort`, `ReleaseRpcHandler`, `ReleaseReplies`, `ReleaseAllSet` | ABORT path of `end()` |
| `RoStart` ... `RoOldCheck` | `get_ro`: `_get_ro_versioned_helper` (`read_ts`, wait for the lock) and `_get_helper` (value or chain) |
| `Drain` | the processor's store buffer: with `TSO` a store of `read_ts` becomes visible later |

`RC` is the macro of `dbrad.cc:14`. It is 1 in the repository, which compiles the
`read_ts` handshake out; the model has both variants. `TSO` is TRUE for threads
on several cores and FALSE when all coroutines share one thread.
Left out: index variants (same code, other table), `RadIterator`, `end_fasst`,
`_get_ro_naive` (not called), memory reclamation. Remote reads are issued in
program order, although the application may batch them. `validate_remote` is
called by `end()` and does nothing, because DBRad never sets `need_validate_`.

### VectorTS and TSManager

`VectorTS` has three variables: the next commit timestamp of each machine, the
ones taken and not ended (`open`) and start vectors. `StartTs` replaces entries by
values from `Covers`: a prefix of ended commits. It allows old vectors, mixed
ages and vectors going back, as the service does.

| TSManager | Code |
|---|---|
| `GetStartTs`, `CopyStartTs` | `get_start_ts`: read the pointer, `memcpy` entry by entry |
| `GetCommitTs`, `CommitTs` | `get_commit_ts`; `DBSI::commit_ts`, the request to the master |
| `UpdatePush`, `UpdateStep`, `UpdateDone` | `ts_update_handler`: push, one round of the loop, leave; `AsInt` is the comparator's `int` |
| `TsGetHandler`, `TsReply`, `CopyToSpare`, `SwapBuffers` | `ts_get_handler` and `worker_routine`: three unsynchronised copies |

The configuration is the repository's: `ONE_CLOCK 0`, `LARGE_VEC 0`,
`TS_USE_MSG 1`, `TS_BATCH 1`. Calling `top()` on a queue that `pop()` has just
emptied is undefined; the model takes the outcome of the library's heap, which
leaves the popped element in place, so the loop ends.

### DBSI

| Definitions | Code |
|---|---|
| `Begin` | `_begin`, `local_ro_begin`: the start vector. The copy is one step here; that its entries may have different ages is in `VectorTS` |
| `ReadSeq`, `ReadValue`, `ReadCheck` | `get`, `get_ro`, `get_rpc_handler` on the newest version. Local and read-only reads use it if the vector covers it (`Sees`), remote reads of a read-write transaction always |
| `ReadValue`, third case; `Stopped` | `get_ro` finds no value: `ASSERT(false)`, which aborts the process; the model ends there |
| `ReadOld`, `RoOldCheck`, `Walk` | the chain of old versions; `get_ro` looks at seq again before it walks, `get` does not |
| `Insert`, `Delete` | `insert`, `REQ_INSERT`; `delete_`, of a record read before or not |
| `End` ... `LockAllSet` | as in DBRad, without timestamps |
| `GetCommitTs` | `get_commit_ts`: after everything is locked |
| `CommitLocalWrite`, `CommitRemote`, `CommitRpcHandler`, `CommitReplies` with `Hide`, `Swap`, `Publish` | install: seq = 1, value switch (to NULL for a delete), seq and lock |
| `CommitTs` | `commit_ts`: the report, after the last write-back |
| `ReleaseRpcHandler`, `ReleaseReplies`, `ReleaseAllSet` | ABORT path |

Left out: index variants, `SIIterator`, the branches that are not
compiled (GTS, `LARGE_VEC`, `EM_OCC`, one-sided RDMA for timestamps).
`commit_rpc_handler2` skips an item not locked by the sender;
`InstallsUnderLock` shows that the case does not occur, so the skip is not a step.

### DepGraph and Rococo

A graph is a record of sets (vertices, the two status bits, servers, edges), so
that `union_graph` is a union; `UnionAtServer` keeps the status of the server's
own transactions (`union_status` with `is_server`). A search is the least set
closed under its step (`Ancestors`, `Descendants`), a component the vertices that
reach each other, and `SortedScc` runs the loop of `sorted_scc` turn by turn.

| Rococo | Code |
|---|---|
| `StartPie`, `KissEdges`, `KissLast`, `AddVertex`, `SubGraph` | `rcc_start_pie`: `start_pie`, `kiss`, immediate pieces executed, `sub_txn_graph` for the reply |
| `OnStarted`, `OnFinished`, `OnRead` | the coordinator's callbacks: merge, `early_return_`, count; `deptran_finish` follows the last |
| `StartRo`, `SendRead` | `rcc_ro_start_pie`, `start_ro`: read, wait for the transactions met, reply |
| `FinishTxn` | `rcc_finish_txn`, the beginning of `commit`: `union_graph` merges the coordinator's graph and triggers the callbacks that waited |
| `Commit` | the rest of `commit`, once those callbacks have run: `res`, status committing, `to_decide` |
| `ToDecide`, `AncFinish`, `SccDecided`, `SccCommit`, `SccAbort` | `to_decide`, `anc_finish_cb`, `scc_anc_commit_cb` with its three ends |
| `ToAsk`, `AskReqs`, `DecideCalls` | `send_ask_req` |
| `AskTxn`, `SendAnswer`, `AskReply` | `rcc_ask_txn`, its callback, and the callback of the answer |
| `Call`, `Triggered`, `Runnable` | a `DragonBall`, its `trigger`, and `commit` waiting for the callbacks that `union_graph` calls |

How the concurrency is reduced:

* A handler and the callbacks it triggers run to the end on the server's poll
  thread. `calls[s]` holds the callbacks; no message is handled while one can run
  (`Idle`). `Idle` is about all servers: steps of different servers touch
  different state and meet only in messages, so nothing is lost.
* A coordinator sends the pieces of a transaction in parallel, then the finish
  requests in parallel. A request is handled at any time after it was sent; the
  network is TCP, so it is handled once. A reply reaches the coordinator with the
  step that sends it, as all it does is add to what was collected. `rcc_ask_txn`
  requests and answers are messages of their own and may be overtaken.
* A piece reads and writes its columns. `log[k]` is the order of execution on
  column `k`.

Left out: `DF_FAKE` pieces, pieces whose input is another piece's output,
`rcc_batch_start_pie` (its start is commented out), logging before the reply, a
failed connection. The build without `PDI` does not compile (`txn_info.h:60` uses
`rhs.txn_id`), so the second round of read-only transactions is not modelled.

## 3. The runs

Runs that pass:

| Run | Instance | Shows |
|---|---|---|
| `dbrad_locks` | DBRad, 3 transactions that insert, delete and update, one record not loaded, 2 machines | types, the inductive lock invariant `LockInv` and what follows from it (`NoLockLeak`, `LocksHeld`, `LockFreedByOwner`), `NoTornRead` |
| `dbrad_local` | DBRad, 3 transactions, the second of which may be read-only, on one thread, `RC` 0, 2 clock values | `NoLostUpdate`, `VersionsGrow`, `SnapshotStable`, `NoFracturedRead` |
| `dbrad_ro` | DBRad, 2 writers and a reader, 2 machines, several cores, `RC` 0, fairness | `SnapshotExact` (nothing newer than the timestamp, nothing missed that was there), `ChainIsHistory`, `VersionsDoNotShrink`, `EveryTxEnds` |
| `ts_manager` | 2 machines, 2 + 1 commits, one starting coroutine, fairness | `Prefix`, `SnapshotFinished`, `NoStall`, `CommitsBecomeVisible`, and `Promise`: refinement of `VectorTS` |
| `dbsi` | DBSI, 3 transactions (writers in opposite lock orders, or a reader under two of them), an insert of a record not loaded, deletes, 2 machines, vectors of any age, fairness | `InstallsUnderLock`, `TsAccounted`, `NoLostUpdate`, `SnapshotFinal`, `NoFracturedRead`, `EveryTxEnds` |
| `rococo` | Rococo, 3 sites, 6 workloads: two transactions in conflict at two sites, deferred or not; a chain of three, whose ends ask about each other; a reader of one writer or of a pair; an outer `EDGE_I` parent; early return, fairness | `StrictSerializable`, `ExecutedOnce`, `FinishedIsExecuted`, `CommittingIsStarted`, `EdgesAreConflicts`, `AbortNeedsOuterParent`, `EveryTxnAnswered` |

The snapshot and version-order properties of DBRad are checked on programs
without inserts and deletes: a deleted version has no value, and a snapshot read
that meets one reports a version number instead of data. In DBSI deletes are in,
but no record is inserted again after a delete (see below).

`EveryTxnAnswered` allows two ways out, both real: `Overtaken`, the situation of
`rococo_lost_piece`, and a server that has stopped. `AbortNeedsOuterParent` says when
that may happen: `sorted_scc` waits for `EDGE_I` parents of a member that are not in
the component, never meets them, and fails its `verify()`.

Runs in which TLC finds a violation. Each states what the repository's
documentation says and is reported as a finding in `PROJECT.json`:

| Run | What happens |
|---|---|
| `dbrad_rc_snapshot` | with `RC` 1, as compiled, `get_ro` returns the newest version: half of a transaction is seen |
| `dbrad_lost_update` | `end()` takes the maximum with remote versions after the + 1: a remote record keeps its seq across an overwrite, and a stale read passes the comparison |
| `dbrad_write_skew` | records that are only read are not validated: write skew |
| `dbsi_cut` | remote reads of a read-write transaction are read-committed: it depends on a transaction that is not visible yet, and becomes visible first |
| `rococo_lost_piece` | a piece arrives between the question `rcc_ask_txn` about its transaction and the answer: the answer decides the transaction without executing the piece, and the finish request gets no reply |
| `rococo_read` | `start_ro` reads before it waits: old value at one site, new value at the other |

### Known limits that are not runs

Each is reached by changing an instance as described, and is a note on a hazard.

* `dbrad.cc:401`: `read_ts` is tested outside `read_lock` and stored inside it, so
  a second reader with a smaller timestamp can lower it. `SnapshotStable` and
  `NoFracturedRead` of DBRad are therefore checked, and proved (section 4), for
  records that one transaction reads at its snapshot, and with stores that are
  visible at once (`TSO` FALSE).
* `dbrad.cc:469`: a snapshot reader that waits for the lock of an insert goes on at
  seq = 1, finds no value and returns that, although the insert commits below its
  timestamp. With `RC` FALSE, `Absent` {kb}, `<<I(kb)>>` and `<<R(kb)>>`,
  `SnapshotStable` fails; the runs and theorems about snapshots are about records
  that are loaded and never deleted.
* `dbrad.cc:977`: the `read_ts` values that lock replies bring are overwritten
  before `commit_remote` uses them; with `RC` 0 on two machines `NoFracturedRead`
  fails.
* `ts_manager.hpp:72`: the queue's comparator is on `int`. With `IntHalf` 5 and
  timestamps up to 6, `NoStall` fails: the entry can stop for good.
* `dbsi.cc:395`: `get_ro` stops its process although nothing was deleted, when it
  meets a first insert between `seq = 1` and the value.
* `dbsi.cc:267`: an insert over a deleted record drops the versions before the
  delete; with `<<D(kb)>>` and `<<I(kb)>>` in `Programs`, `SnapshotFinal` fails.
* `deptran/rcc/rcc.cpp:384`: `kiss` never moves `last_` on. With three transactions on
  the same two columns (`SameWorkloads`) `StrictSerializable` fails.
* `deptran/rcc_service.cc:417`: a late answer of `rcc_ask_txn` leaves out decided
  ancestors. With a ring of three (`RingWorkloads`) `StrictSerializable` fails, and
  `FinishedIsExecuted` too. (`ExecutedOnce` and `AbortNeedsOuterParent` hold there, as proved.)

### Bounds

`Key`: two records, the smallest number with a fractured snapshot, opposite
lock orders and write skew (a third, not loaded, in DBSI). In Rococo columns at
three sites, so that a transaction has ancestors that its sites do not run. `Tx`: three; each runs
once, so a reader meets two overwrites of a record. `Clocks`: two readings, so a
transaction may be behind or ahead of another (one in `dbrad_locks`, whose
properties do not depend on timestamps). `Shift` is 2^12 as in the code; no run
comes close to using it up. `MaxTs` bounds commit timestamps; in DBSI it is large
enough for every transaction to commit (`Enough`) and never disables a step; in
TSManager it gives two reports of one machine and one of the other, so that
reports arrive out of order and entries have different ages. `IntHalf` stands for
2^31: 1024 is out of reach of the bounded timestamps. `Fresh` (start vectors as new as
can be) restricts DBSI to fewer behaviours; only the violated run `dbsi_cut` uses it.

`Workloads` of Rococo: a pair is the smallest cycle between two sites, a chain of
three the smallest case with questions. `EDGE_I` edges alone form no cycle in the
workloads; the code requires that of the chopping of transactions.

Symmetry is not used: transactions run different programs.

### Fairness

`FairSpec` and `SIFairSpec`: weak fairness of each transaction's steps, those served by
other machines included. Workers poll and schedule their coroutines round robin
(`core/rworker.cc`), handlers run in the worker's loop and never block, and the
transport is reliable. Nothing is assumed about which transaction
moves first, and clocks need not advance. `TSFairSpec`: weak fairness of reports, of the master's
handlers and of each machine's fetch loop; nobody has to start or commit a
transaction. Each transaction runs once, so `EveryTxEnds` does not say that a retry
loop of an application ends.

`FairSpec` of Rococo: weak fairness of the whole next-state relation: the poll threads
keep running and TCP delivers, so the system does not stop while there is a request,
a message or a callback to handle. As each step uses one up, no behaviour is
infinite, and fairness of each actor for itself would add nothing.

Deadlock is checked in every run but those of Rococo; `Terminated` (DBRad, DBSI) is
the only stutter step that a finished instance may take. In TSManager the fetch
loops never stop. In Rococo the lost reply of `rococo_lost_piece` and a stopped
server leave a system in which nothing can happen, so `CHECK_DEADLOCK` is off and
`EveryTxnAnswered` says what must have happened.

## 4. The proofs

For every value of the constants allowed by the named assumptions
(`ConstantAssumption`, `TSAssumption`, `SIAssumption`, `IdAssumption`,
`WorkloadAssumption`).

**DBRad_proofs.** `LockInvariance`: `Spec => []LockInv`. `LockInv` is inductive:
`TypeOK`, and per transaction `Control` (where items live, which requests are
under way, how far the loops have come) and `Locks` (locks held are accounted for,
locks relied on are held, no record is locked through two items). `NoLockLeak`
alone is not inductive: that `ReleaseAllSet` frees the right locks depends on
`current`, which depends on `LockAllSet` skipping read-only items; that the
handlers' locks are complete when the replies are in depends on `ok` and on what
is left of the requests. The proof has one lemma per action; most follow from a lemma
about how a step of one transaction leaves the others' facts alone. From it:
`TypeCorrect`, `NoLeak`, `Held`, and the action property `OwnerFrees`.

**DBRad_history_proofs.** Each action is turned into its effect on its transaction,
field by field (the lemmas `...Effect`), and then into a kind: a step of an install
at one item (`Installs`) or one that changes no version (`NoInstall`). Three inductive
invariants follow, each on top of the one before.
`BooksInvariance`: `BooksInv` is about one transaction at a time: what is in its sets comes
from its program, its timestamp is above what it read, it names each record once among
its writes. `HistInvariance`: `HistInv` says of each record that it is `Settled` (the node
shows the newest version of `log`, the old versions are the ones before it) or that its
lock owner is `Changing` it or, over no value, about to (`Hidden`), which `seq = 1` tells
from the first; of each version that it carries the timestamp of its transaction, which has it behind it; of each
transaction that what it has compared under a lock is still the newest version
(`StillNewest`). Both hold for any programs. `OrderInvariance` draws the consequences
for sets of records, because each is false for the others:
* `Ordered`: nobody inserts the record at its own machine. `insert()` takes over the
  sequence number it finds and does not raise the timestamp to it (`dbrad.cc:637`), so
  a version inserted there may carry a smaller number than the one it replaces.
* `Strict`: moreover nobody else writes it. `end()` takes the maximum with remote
  sequence numbers after the + 1, so an overwrite from elsewhere may keep the number
  (`dbrad_lost_update`).
* `Intact`: it is loaded and nobody deletes it. A value that was NULL is not linked.

From it, when all records are of the kind: `NotShrinking` (`Ordered = Key`), `Growing`
(`Strict = Key`), `HistoryKept` (`Intact = Key`). The instances of `dbrad_ro` and
`dbrad_local` satisfy these hypotheses; so does every application without inserts at the
home machine, without remote writes or without deletes, respectively.

**DBRad_reads_proofs.** `ReadsInvariance`: `ReadsInv` adds the reads. A value found after
version `s` is `Seen`: it belongs to `s`, or a version above `s` is published, or it is
about to be published; in the last two cases the second look at `seq` refuses it,
provided that a sequence number does not come back, hence `Ordered`. From it `NotTorn`
(`Ordered = Key`), and, as versions that were read and compared name one version where
they grow, `UpdatesKept` (`Strict = Key`). In `dbrad_locks` TLC checks `NoTornRead` on an
instance that is not `Ordered` too.

**DBRad_snapshot_proofs.** `ExactInvariance`, without `RC` and for programs that read at
their snapshot only or not at all (`Separate`; the code has two entry points,
`local_ro_begin` and `_begin`): the old versions that `get_ro` walks are a prefix of the
history, and everything above it is at least as new as the sequence number that sent
the reader there, which is above its timestamp. The second look makes sure of the
latter only for versions above the first look, which is why `RoInv` remembers the
comparison. `SnapshotsExact` (`Ordered` and `Intact` records) follows: the first version on
the list that is old enough is the newest that is. It needs no assumption about
`read_ts`, the lock or store buffers, unlike what follows.

`StableInvariance` (`RC` and `TSO` FALSE, `Separate`) is about the order of two things:
a reader raises `read_ts` before it looks at `seq` and the lock, and a writer looks at
`read_ts` after it has the lock and before it chooses its timestamp. `Stamps`
and `RaisedAt` keep the first half: from the raise on, `read_ts` is the reader's
timestamp. Keeping it needs `Single`, at most one transaction that reads the record at
its snapshot (a second one may lower `read_ts`, `dbrad.cc:401`), and no store buffer
(`dbrad.cc:408`). The second half is `Safe`: a writer that looked after the raise folds
`read_ts` into its timestamp and commits above it, and `Rises` (from there on the
timestamp of a writer does not fall) keeps it so; it needs `Strict`, since a remote writer does not use what the lock replies bring
(`dbrad.cc:977`). A writer that looked before the raise still holds the lock or
has published, and either is visible to the reader's test: behind it the record is `Closed`
to versions at or below the timestamp, and what the reader returns is `Firm`.
`Fixed` is the records that are `Strict`, `Intact` and `Single`. `FixedSnapshots`
states stability and no fractured read for them, with anything happening to the others:
a transaction has one timestamp for all of its versions (`OneStamp`), so a reader that
sees one of them at or below its own timestamp cannot miss another, which would be
missing from a firm answer. `SnapshotsStable` and `SnapshotsWhole` (`Fixed = Key`) are the
invariants of `dbrad_local`, whose instance satisfies these hypotheses.

**TSManager_proofs.** `TSTypeCorrect`; `PrefixCorrect`: `Prefix` is inductive with
the types; `SnapshotFinishedCorrect` needs `CopiesLag` (no copy is ahead of the
master's vector), which is preserved because entries only grow;
`NoStallCorrect` holds under `TsFitInt` (timestamps below `IntHalf`), the
assumption that fails at 2^31, because then `AsInt` is the identity and
the smallest queued timestamp is on top. `KeepsPromise`: `TSSpec => Promise`, the
service implements `VectorTS`; besides `CopiesLag` and `Prefix` it needs
`CoversLoaded`: what is published, or is being copied from, covers the loaded
data although the second buffer starts as zeroes.

**DBSI_proofs.** First what each action does to its transaction, field by field (the
lemmas `...Effect`), then which kinds of steps there are (`NoInstall`, `Installs`,
`KeepsClocks`); the rest reasons about kinds. `SILockInvariance`: `LockInv` of DBSI,
built like that of DBRad; from it `SITypeCorrect` and `UnderLock`. `TsInvariance`:
`TsInv` adds that open timestamps and start vectors never meet and that each
timestamp has one owner; from it `TsAccountedAlways`.

**DBSI_history_proofs.** `HistoryInvariance`: `HistInv` says of each record that it is
`Settled` (the node shows the last version of `log`, the old versions are the ones
before it) or that its lock owner is `Changing` it; of each history that its versions
carry the timestamps of their transactions and that nobody wrote twice; of each
transaction that the versions compared under a lock are still the newest ones
(`Held`), that items and reads under way are versions of the history unless the
second look will refuse them (`ItemInv`, `ReadInv`), and that what it wrote follows
what it read (`Overwrites`). `NoLostUpdate` is the last part alone and far from
inductive: it needs `Held`, which needs that `seq` identifies a version, which needs
`TsInv`. `SnapshotInvariance` adds that a returned version is covered and that
no covered version is newer: a version published later carries a timestamp that was
open when the vector was taken, and `TsInv` keeps the vector below it. It is about
`Kept`, the records no program deletes: an insert over a deleted record drops the
versions before the delete (`dbsi.cc:267`), and a reader that needs them finds
nothing. `KeptSnapshots` states both snapshot properties for those records, with
anything happening to the others; `SnapshotsFinal` and `NotFractured` are the
properties themselves when nothing is deleted (`Kept = Key`).

**Rococo_proofs.** `GraphInvariance`: `Spec => []GraphInv`, for any workloads, sites
and columns. Neither of the two properties is inductive on its own: a server takes
over status and edges from messages and coordinators, so `GraphsGood` speaks of
every graph there is, wherever it is: its committing vertices are among the
transactions whose coordinator has all start replies, and its edges among the pairs
in conflict. These two sets only grow (`StartedGrows`, `ConflictsGrow`: `last_` is set
once), so a graph that was good when it was sent is good when it arrives. The
operations that make graphs (union at a coordinator and at a server, the part sent
in a reply, a new vertex with its edges, commit, decide) keep them good, one lemma
each. `StateOK`, `CallsOK` and `AsksOK` are the types this needs of the state, of what
waits and of what travels. From it `CommittingIsStartedAlways` and
`EdgesAreConflictsAlways`.

What a server executes depends on what `SortedScc`, a recursive function, returns.
The library's induction theorems cannot be used (their parameter is an operator), so
section 6 of the module proves induction for sets of naturals from `WFMin`
(`SetInduction`), that a function can be iterated (`Iterates`, hence that the recursive
definition means what it says), that `Ascending` lists a finite set of numbers
(a rank is an injection into as many numbers), and the loop invariant `SortInv`: result
and stack hold members of the component, each once, because the member that pushes
another is the last of its parents to be visited. `SortedDistinct` is the outcome: what
`sorted_scc` returns has no duplicates, and a member it misses has a parent it misses.
These theorems assume that `Txn` is finite.
`ExecInvariance`: `ExecInv` adds that a transaction executed on a column is accounted for,
by an immediate piece that was requested or by a deferred one at a server that has
decided it; both only grow. From it `RococoTypeCorrect` and, if the pieces of a
transaction touch different columns (`SeparatePieces`: `log` names transactions, so two
pieces on a column are two entries by right), `ExecutedOnceAlways`.
`AbortsExplained`: the members that `sorted_scc` misses have parents outside of the
component or form a cycle of `EDGE_I` edges among themselves. `AbortNeedsOuterParentAlways`
excludes the cycle if a transaction has at most one immediate piece and no deferred
piece touches its columns (`ImmediateApart`, true of the workloads of the run): then an
`EDGE_I` follows the order in which the immediate pieces were started. `ImmInv` says so
without a clock: every set of transactions has one without a parent in the set. Without
the assumption two transactions that start immediate pieces at two sites in opposite
orders form such a cycle; nothing in `start` or `start_pie` prevents it.
`FinishedIsExecutedAlways` is for workloads that are `InPairs`: whichever transactions
the entries of the columns come to hold, a cycle of the edges that follow has two
members, and these meet no third transaction, or else all pieces are at one site. The six
workloads of `rococo` are of this kind (TLC evaluates it); the ring of section 3, whose
cycle has three members, is not. The condition is sufficient, not necessary. The invariant
`FinInv` (`FinInvariance`) has seven parts beside the property. `MarkInv`: a requested
piece has left its vertex and its edges at its server. `EdgeInv`: an edge stems from an
entry. `DecidedInv`: what is called decided has started. `HomeInv`: a server calls a
transaction it runs committing only after that transaction's finish request. `CallInv`: a
decision under way waits for the other member of its cycle, unless that one is committing
here already; if the server does not know the edge from the other one, the decision waits
for nobody. `SiteInv`: on one site nobody is asked. `DoneInv`: a transaction that is
decided at a server that runs it has been executed there, or the decision about it has no
reply to send. The step that could break it is a graph that arrives and tells a server of
a cycle in the middle of a decision; but a decision that waits for nobody has run before
the next message is handled. So when `scc_anc_commit_cb` decides a component, its other
member is committing, hence (`HomeInv`) its finish request has come, and `exe_deferred`
passes over nobody but the transaction itself, whose decision then was not started by its
finish request and answers nobody. What remains is that `sorted_scc` and `exe_deferred`
leave out no member (`FullOrder`, `ExecutesAll`).

Only model-checked: liveness (the prover does not do fairness), the snapshots of DBSI where records are
deleted (without a later insert, as in `dbsi`), and of Rococo `StrictSerializable`,
which holds for the workloads of the run and fails for others (section 3).

## 5. Not modelled, and why

* GTS, `LARGE_VEC`, `EM_OCC`: not compiled in this configuration.
* DBTX, DBFarm: OCC baselines without timestamps; planned. From reading DBTX:
  `LockAllSet` and `lock_rpc_handler` compare the sequence number under the lock,
  which rules out lost updates, but `CheckLocalSet` and `validate_rpc_handler`
  compare sequence numbers only and do not look at the lock of a record that was
  only read, so the validation alone does not order a reader against a writer
  that has locked and not yet installed. RTX: compiled, but no application of
  this build creates its transactions.
* DBLogger: compiled out of the transactions.
* Indexes: sequential data structures under hardware transactions; the models
  start where a key has its MemNode.
* Workers and RPC: appear as assumptions (any interleaving of coroutines; each
  request served once per server, items in order; a reply from every server).
* Applications: appear as `Programs`.
* The other modes of the ROCOCO code base: 2PL, OCC, MDCC, Tapir are baselines
  without DST. RO6 keeps versions for readers, but `deptran_finish` builds the list
  of readers with `string_to_vector` where it needs `vector_to_string`
  (`deptran/coordinator.cc:807`), so the servers never get it.
* DST timestamps in ROCOCO: `start_ro` declares a local `server_read_ts` that hides
  the global one, and `req.timestamp` is never set; no decision depends on them.
* MySQL Cluster: a small patch in a very large program.

## 6. Plan

1. Models. DBTX: no lost update, no torn read, no lock leaked. Its validation
   ignores locks (section 5), so serializability is not expected of it.
2. Abstract specifications. A multi-version store with atomic commits, and DBSI
   on one machine as a refinement of it.
3. Proofs. Rococo: for which workloads `StrictSerializable` holds.
