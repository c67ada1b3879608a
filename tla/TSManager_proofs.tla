-------------------------- MODULE TSManager_proofs --------------------------
(***************************************************************************)
(* Proofs about the vector-timestamp service, for any number of machines   *)
(* and coroutines: the master's vector is exact, a start vector covers     *)
(* finished transactions only, (while timestamps fit an int) nothing that  *)
(* could be published is left in the queue, and the service implements     *)
(* VectorTS.                                                               *)
(***************************************************************************)
EXTENDS TSManager, TLAPS

\* No copy of the vector is ahead of the master's: the fetched one, both
\* buffers of a machine and the start vectors hold older values of its entries.
CopiesLag ==
  \A q \in Part :
    /\ \A p \in Part : fetch[p].vec[q] <= ts_buffer[q]
    /\ \A p \in Part, b \in {1, 2} : buf[p][b][q] <= ts_buffer[q]
    /\ \A t \in Tx : start[t].vec[q] <= ts_buffer[q]

-----------------------------------------------------------------------------
\* The spare buffer is one of the two.
LEMMA SpareType ==
  ASSUME cur \in [Part -> {1, 2}], NEW p \in Part
  PROVE  Spare(p) \in {1, 2}
BY DEF Spare

\* A fetch that moves on, or has fewer entries left, is well typed.
LEMMA FetchType ==
  ASSUME NEW f \in Fetch, NEW ph \in {"get", "copy"}, NEW td \in SUBSET Part
  PROVE  /\ [f EXCEPT !.todo = td] \in Fetch
         /\ [f EXCEPT !.phase = ph, !.todo = td] \in Fetch
BY DEF Fetch

\* Clients are machines.
LEMMA ClientIsPart == Client \subseteq Part
BY TSAssumption DEF Client

\* The steps of TSNext, one by one.
LEMMA NextCases ==
  ASSUME TSTypeOK, TSNext, NEW G,
         ASSUME NEW p \in Part, GetCommitTs(p) PROVE G,
         ASSUME NEW p \in Part, NEW c \in issued[p], CommitTs(p, c) PROVE G,
         ASSUME NEW p \in Part, NEW c \in sent[p], UpdatePush(p, c) PROVE G,
         ASSUME NEW p \in Part, UpdateStep(p) PROVE G,
         ASSUME NEW p \in Part, UpdateDone(p) PROVE G,
         ASSUME NEW p \in Part, NEW q \in Part, TsGetHandler(p, q) PROVE G,
         ASSUME NEW p \in Part, NEW q \in Part, CopyToSpare(p, q) PROVE G,
         ASSUME NEW p \in Part, TsReply(p) PROVE G,
         ASSUME NEW p \in Part, SwapBuffers(p) PROVE G,
         ASSUME NEW t \in Tx, GetStartTs(t) PROVE G,
         ASSUME NEW t \in Tx, NEW q \in Part, CopyStartTs(t, q) PROVE G
  PROVE  G
BY ClientIsPart, Zenon DEF TSNext, Update, FetchTs, Report, StartTs

-----------------------------------------------------------------------------
\* The types hold initially.
LEMMA InitType == TSInit => TSTypeOK
BY TSAssumption DEF TSInit, TSTypeOK, Vec, Fetch, Start

\* Every step keeps the types.
LEMMA NextType == TSTypeOK /\ [TSNext]_tsvars => TSTypeOK'
<1> SUFFICES ASSUME TSTypeOK, [TSNext]_tsvars PROVE TSTypeOK'
  OBVIOUS
<1> USE DEF TSTypeOK
<1>1. CASE UNCHANGED tsvars
  BY <1>1 DEF tsvars
<1>2. CASE TSNext
  <2>1. ASSUME NEW p \in Part, GetCommitTs(p) PROVE TSTypeOK'
    BY <2>1 DEF GetCommitTs, Vec
  <2>2. ASSUME NEW p \in Part, NEW c \in issued[p], CommitTs(p, c) PROVE TSTypeOK'
    BY <2>2 DEF CommitTs
  <2>3. ASSUME NEW p \in Part, NEW c \in sent[p], UpdatePush(p, c) PROVE TSTypeOK'
    BY <2>3 DEF UpdatePush
  <2>4. ASSUME NEW p \in Part, UpdateStep(p) PROVE TSTypeOK'
    BY <2>4 DEF UpdateStep, Vec
  <2>5. ASSUME NEW p \in Part, UpdateDone(p) PROVE TSTypeOK'
    BY <2>5 DEF UpdateDone
  <2>6. ASSUME NEW p \in Part, NEW q \in Part, TsGetHandler(p, q) PROVE TSTypeOK'
    <3>1. fetch[p] \in Fetch /\ ts_buffer[q] \in Nat
      BY DEF Vec
    <3>2. fetch[p].todo \ {q} \in SUBSET Part
      BY <3>1 DEF Fetch
    <3>3. [fetch[p].vec EXCEPT ![q] = ts_buffer[q]] \in Vec
      BY <3>1 DEF Fetch, Vec
    <3>4. fetch' \in [Part -> Fetch]
      BY <2>6, <3>1, <3>2, <3>3 DEF TsGetHandler, Fetch
    <3> QED BY <2>6, <3>4 DEF TsGetHandler
  <2>7. ASSUME NEW p \in Part, NEW q \in Part, CopyToSpare(p, q) PROVE TSTypeOK'
    <3>1. fetch[p].todo \ {q} \in SUBSET Part /\ fetch[p].vec[q] \in Nat
      BY DEF Fetch, Vec
    <3>2. fetch' \in [Part -> Fetch]
      BY <2>7, <3>1, FetchType DEF CopyToSpare
    <3>3. buf' \in [Part -> [{1, 2} -> Vec]]
      BY <2>7, <3>1, SpareType DEF CopyToSpare, Vec
    <3> QED BY <2>7, <3>2, <3>3 DEF CopyToSpare
  <2>8. ASSUME NEW p \in Part, TsReply(p) PROVE TSTypeOK'
    <3>1. fetch' \in [Part -> Fetch]
      BY <2>8, FetchType DEF TsReply
    <3> QED BY <2>8, <3>1 DEF TsReply
  <2>9. ASSUME NEW p \in Part, SwapBuffers(p) PROVE TSTypeOK'
    <3>1. fetch' \in [Part -> Fetch]
      BY <2>9, FetchType DEF SwapBuffers
    <3> QED BY <2>9, <3>1, SpareType DEF SwapBuffers
  <2>10. ASSUME NEW t \in Tx, GetStartTs(t) PROVE TSTypeOK'
    BY <2>10, TSAssumption DEF GetStartTs, Start
  <2>11. ASSUME NEW t \in Tx, NEW q \in Part, CopyStartTs(t, q) PROVE TSTypeOK'
    <3>1. buf[Home[t]][start[t].from][q] \in Nat
      BY TSAssumption DEF Start, Vec
    <3>2. [start[t] EXCEPT !.todo = @ \ {q},
             !.vec[q] = buf[Home[t]][start[t].from][q]] \in Start
      BY <3>1 DEF Start, Vec
    <3> QED BY <2>11, <3>2 DEF CopyStartTs
  <2> HIDE DEF TSTypeOK
  <2> QED BY <1>2, <2>1, <2>2, <2>3, <2>4, <2>5, <2>6, <2>7, <2>8, <2>9, <2>10,
             <2>11, NextCases
<1> QED BY <1>1, <1>2

\* Type correctness of the timestamp service.
THEOREM TSTypeCorrect == TSSpec => []TSTypeOK
BY InitType, NextType, PTL DEF TSSpec

-----------------------------------------------------------------------------
\* Prefix holds initially.
LEMMA InitPrefix == TSInit => Prefix
BY DEF TSInit, Prefix

\* Prefix is inductive: a timestamp moves from issued to sent to pending and
\* leaves pending exactly when the entry of the vector reaches it.
LEMMA NextPrefix == TSTypeOK /\ Prefix /\ [TSNext]_tsvars => Prefix'
<1> SUFFICES ASSUME TSTypeOK, Prefix, [TSNext]_tsvars PROVE Prefix'
  OBVIOUS
<1>1. CASE UNCHANGED tsvars
  BY <1>1 DEF tsvars, Prefix
<1>2. CASE TSNext
  <2>1. ASSUME NEW p \in Part, GetCommitTs(p) PROVE Prefix'
    <3> SUFFICES ASSUME NEW r \in Part
                 PROVE  /\ ts_buffer[r] < local_ts'[r]
                        /\ issued'[r] \cup sent[r] \cup pending[r]
                             = (ts_buffer[r] + 1)..(local_ts'[r] - 1)
                        /\ issued'[r] \cap sent[r] = {}
                        /\ issued'[r] \cap pending[r] = {}
                        /\ sent[r] \cap pending[r] = {}
      BY <2>1 DEF GetCommitTs, Prefix
    <3>1. CASE r # p
      BY <2>1, <3>1 DEF GetCommitTs, Prefix, TSTypeOK
    <3>2. CASE r = p
      <4>1. /\ issued'[r] = issued[r] \cup {local_ts[r]}
            /\ local_ts'[r] = local_ts[r] + 1
            /\ local_ts[r] \in Nat /\ ts_buffer[r] \in Nat
        BY <2>1, <3>2 DEF GetCommitTs, TSTypeOK, Vec
      <4> QED BY <4>1 DEF Prefix
    <3> QED BY <3>1, <3>2
  <2>2. ASSUME NEW p \in Part, NEW c \in issued[p], CommitTs(p, c) PROVE Prefix'
    BY <2>2 DEF CommitTs, Prefix, TSTypeOK
  <2>3. ASSUME NEW p \in Part, NEW c \in sent[p], UpdatePush(p, c) PROVE Prefix'
    BY <2>3 DEF UpdatePush, Prefix, TSTypeOK
  <2>4. ASSUME NEW p \in Part, UpdateStep(p) PROVE Prefix'
    BY <2>4 DEF UpdateStep, TopIsNext, Prefix, TSTypeOK, Vec
  <2>5. ASSUME NEW p \in Part, UpdateDone(p) PROVE Prefix'
    BY <2>5 DEF UpdateDone, Prefix
  <2>6. ASSUME NEW p \in Part, NEW q \in Part, TsGetHandler(p, q) PROVE Prefix'
    BY <2>6 DEF TsGetHandler, Prefix
  <2>7. ASSUME NEW p \in Part, NEW q \in Part, CopyToSpare(p, q) PROVE Prefix'
    BY <2>7 DEF CopyToSpare, Prefix
  <2>8. ASSUME NEW p \in Part, TsReply(p) PROVE Prefix'
    BY <2>8 DEF TsReply, Prefix
  <2>9. ASSUME NEW p \in Part, SwapBuffers(p) PROVE Prefix'
    BY <2>9 DEF SwapBuffers, Prefix
  <2>10. ASSUME NEW t \in Tx, GetStartTs(t) PROVE Prefix'
    BY <2>10 DEF GetStartTs, Prefix
  <2>11. ASSUME NEW t \in Tx, NEW q \in Part, CopyStartTs(t, q) PROVE Prefix'
    BY <2>11 DEF CopyStartTs, Prefix
  <2> QED BY <1>2, <2>1, <2>2, <2>3, <2>4, <2>5, <2>6, <2>7, <2>8, <2>9, <2>10,
             <2>11, NextCases
<1> QED BY <1>1, <1>2

\* ts_update_handler keeps the vector exact for every number of machines, in
\* whatever order reports arrive.
THEOREM PrefixCorrect == TSSpec => []Prefix
<1>1. TSInit => Prefix
  BY InitPrefix
<1>2. TSTypeOK /\ Prefix /\ [TSNext]_tsvars => Prefix'
  BY NextPrefix
<1> QED BY <1>1, <1>2, TSTypeCorrect, PTL DEF TSSpec

-----------------------------------------------------------------------------
\* No copy is ahead initially.
LEMMA InitLag == TSInit => CopiesLag
BY TSAssumption DEF TSInit, CopiesLag

\* Entries of the master's vector only grow, every memcpy takes entries from a
\* place that lags already.
LEMMA NextLag == TSTypeOK /\ CopiesLag /\ [TSNext]_tsvars => CopiesLag'
<1> SUFFICES ASSUME TSTypeOK, CopiesLag, [TSNext]_tsvars PROVE CopiesLag'
  OBVIOUS
<1>1. CASE UNCHANGED tsvars
  BY <1>1 DEF tsvars, CopiesLag
<1>2. CASE TSNext
  <2>1. ASSUME NEW p \in Part, GetCommitTs(p) PROVE CopiesLag'
    BY <2>1 DEF GetCommitTs, CopiesLag
  <2>2. ASSUME NEW p \in Part, NEW c \in issued[p], CommitTs(p, c) PROVE CopiesLag'
    BY <2>2 DEF CommitTs, CopiesLag
  <2>3. ASSUME NEW p \in Part, NEW c \in sent[p], UpdatePush(p, c) PROVE CopiesLag'
    BY <2>3 DEF UpdatePush, CopiesLag
  <2>4. ASSUME NEW p \in Part, UpdateStep(p) PROVE CopiesLag'
    <3>1. \A q \in Part : ts_buffer[q] <= ts_buffer'[q] /\ ts_buffer[q] \in Nat
                          /\ ts_buffer'[q] \in Nat
      BY <2>4 DEF UpdateStep, TSTypeOK, Vec
    <3>2. fetch' = fetch /\ buf' = buf /\ start' = start
      BY <2>4 DEF UpdateStep
    <3>3. \A q \in Part :
            /\ \A r \in Part : fetch[r].vec[q] \in Nat
            /\ \A r \in Part, b \in {1, 2} : buf[r][b][q] \in Nat
            /\ \A t \in Tx : start[t].vec[q] \in Nat
      BY DEF TSTypeOK, Vec, Fetch, Start
    <3> QED BY <3>1, <3>2, <3>3 DEF CopiesLag
  <2>5. ASSUME NEW p \in Part, UpdateDone(p) PROVE CopiesLag'
    BY <2>5 DEF UpdateDone, CopiesLag
  <2>6. ASSUME NEW p \in Part, NEW q \in Part, TsGetHandler(p, q) PROVE CopiesLag'
    BY <2>6 DEF TsGetHandler, CopiesLag, TSTypeOK, Fetch, Vec
  <2>7. ASSUME NEW p \in Part, NEW q \in Part, CopyToSpare(p, q) PROVE CopiesLag'
    <3>1. \A r \in Part : fetch'[r].vec = fetch[r].vec
      BY <2>7 DEF CopyToSpare, TSTypeOK, Fetch
    <3>2. \A r \in Part, b \in {1, 2}, u \in Part :
            buf'[r][b][u] = buf[r][b][u] \/ buf'[r][b][u] = fetch[r].vec[u]
      BY <2>7, SpareType DEF CopyToSpare, TSTypeOK, Vec
    <3>3. ts_buffer' = ts_buffer /\ start' = start
      BY <2>7 DEF CopyToSpare
    <3> QED BY <3>1, <3>2, <3>3 DEF CopiesLag
  <2>8. ASSUME NEW p \in Part, TsReply(p) PROVE CopiesLag'
    BY <2>8 DEF TsReply, CopiesLag, TSTypeOK, Fetch
  <2>9. ASSUME NEW p \in Part, SwapBuffers(p) PROVE CopiesLag'
    BY <2>9 DEF SwapBuffers, CopiesLag, TSTypeOK, Fetch
  <2>10. ASSUME NEW t \in Tx, GetStartTs(t) PROVE CopiesLag'
    BY <2>10 DEF GetStartTs, CopiesLag, TSTypeOK, Start
  <2>11. ASSUME NEW t \in Tx, NEW q \in Part, CopyStartTs(t, q) PROVE CopiesLag'
    <3>1. Home[t] \in Part /\ start[t].from \in {1, 2}
      BY TSAssumption DEF TSTypeOK, Start
    <3>2. \A r \in Tx, u \in Part :
            start'[r].vec[u] = start[r].vec[u]
            \/ start'[r].vec[u] = buf[Home[t]][start[t].from][u]
      BY <2>11 DEF CopyStartTs, TSTypeOK, Start, Vec
    <3>3. ts_buffer' = ts_buffer /\ fetch' = fetch /\ buf' = buf
      BY <2>11 DEF CopyStartTs
    <3> QED BY <3>1, <3>2, <3>3 DEF CopiesLag
  <2> QED BY <1>2, <2>1, <2>2, <2>3, <2>4, <2>5, <2>6, <2>7, <2>8, <2>9, <2>10,
             <2>11, NextCases
<1> QED BY <1>1, <1>2

\* A start vector never covers a transaction that is still installing,
\* whatever the interleaving of the three memcpys it went through.
THEOREM SnapshotFinishedCorrect == TSSpec => []SnapshotFinished
<1>1. TSInit => CopiesLag
  BY InitLag
<1>2. TSTypeOK /\ CopiesLag /\ [TSNext]_tsvars => CopiesLag'
  BY NextLag
<1>3. TSTypeOK /\ Prefix /\ CopiesLag => SnapshotFinished
  <2> SUFFICES ASSUME TSTypeOK, Prefix, CopiesLag,
                      NEW t \in Tx, NEW p \in Part, NEW c \in issued[p]
               PROVE  start[t].vec[p] < c
    BY DEF SnapshotFinished
  <2>1. c \in (ts_buffer[p] + 1)..(local_ts[p] - 1)
    BY DEF Prefix
  <2>2. start[t].vec[p] <= ts_buffer[p]
    BY DEF CopiesLag
  <2>3. start[t].vec[p] \in Nat /\ ts_buffer[p] \in Nat /\ c \in Nat
    BY DEF TSTypeOK, Start, Vec
  <2> QED BY <2>1, <2>2, <2>3
<1> QED BY <1>1, <1>2, <1>3, TSTypeCorrect, PrefixCorrect, PTL DEF TSSpec

-----------------------------------------------------------------------------
(* NoStall rests on the comparator of pending_tss_ ordering timestamps the   *)
(* way uint64_t does, which is so as long as they fit an int.                *)

\* No timestamp reaches IntHalf.
TsFitInt == 3 <= IntHalf /\ \A p \in Part : MaxTs[p] <= IntHalf

\* The clocks have not reached it.
LocalFits == \A p \in Part : local_ts[p] <= IntHalf

\* Reducing a small number changes nothing.
LEMMA SmallMod ==
  ASSUME NEW a \in Nat, NEW b \in Nat, a < b
  PROVE  a % b = a
OBVIOUS

\* So the comparator sees the timestamps themselves.
LEMMA AsIntIsId ==
  ASSUME NEW c \in Nat, c < IntHalf
  PROVE  AsInt(c) = c
<1>1. /\ IntHalf \in Nat /\ c + IntHalf \in Nat /\ 2 * IntHalf \in Nat
      /\ c + IntHalf < 2 * IntHalf
  BY TSAssumption
<1>2. (c + IntHalf) % (2 * IntHalf) = c + IntHalf
  BY <1>1, SmallMod
<1> QED BY <1>1, <1>2 DEF AsInt

\* The top of the queue is the next timestamp whenever the queue holds it.
LEMMA NextIsTop ==
  ASSUME TSTypeOK, Prefix, LocalFits, NEW p \in Part, ts_buffer[p] + 1 \in pending[p]
  PROVE  TopIsNext(p)
<1> DEFINE next == ts_buffer[p] + 1
<1>1. ASSUME NEW c \in pending[p] PROVE AsInt(next) <= AsInt(c)
  <2>1. /\ c \in (ts_buffer[p] + 1)..(local_ts[p] - 1)
        /\ next \in (ts_buffer[p] + 1)..(local_ts[p] - 1)
    BY <1>1 DEF Prefix
  <2>2. /\ ts_buffer[p] \in Nat /\ local_ts[p] \in Nat /\ local_ts[p] <= IntHalf
        /\ IntHalf \in Nat
    BY TSAssumption DEF TSTypeOK, Vec, LocalFits
  <2>3. c \in Nat /\ next \in Nat /\ c < IntHalf /\ next < IntHalf /\ next <= c
    BY <2>1, <2>2
  <2> HIDE DEF next
  <2> QED BY <2>3, AsIntIsId
<1> QED BY <1>1 DEF TopIsNext

\* The clocks stay in range.
LEMMA NextFits ==
  ASSUME TsFitInt, TSTypeOK, LocalFits, [TSNext]_tsvars PROVE LocalFits'
<1>1. CASE local_ts' = local_ts
  BY <1>1 DEF LocalFits
<1>2. ASSUME NEW p \in Part, GetCommitTs(p) PROVE LocalFits'
  <2> SUFFICES ASSUME NEW r \in Part PROVE local_ts'[r] <= IntHalf
    BY DEF LocalFits
  <2>1. /\ local_ts[r] \in Nat /\ MaxTs[r] \in Nat /\ IntHalf \in Nat
        /\ local_ts[r] <= IntHalf /\ MaxTs[r] <= IntHalf
    BY TSAssumption DEF LocalFits, TsFitInt, TSTypeOK, Vec
  <2>2. local_ts'[r] = local_ts[r] \/ (local_ts'[r] = local_ts[r] + 1 /\ local_ts[r] < MaxTs[r])
    BY <1>2 DEF GetCommitTs, TSTypeOK, Vec
  <2> QED BY <2>1, <2>2
<1>3. local_ts' = local_ts \/ \E p \in Part : GetCommitTs(p)
  <2>1. CASE UNCHANGED tsvars
    BY <2>1 DEF tsvars
  <2>2. CASE TSNext
    BY <2>2 DEF TSNext, Update, FetchTs, Report, StartTs, CommitTs, UpdatePush,
             UpdateStep, UpdateDone, TsGetHandler, CopyToSpare, TsReply, SwapBuffers,
             GetStartTs, CopyStartTs
  <2> QED BY <2>1, <2>2
<1> QED BY <1>1, <1>2, <1>3

\* Every step keeps NoStall.
LEMMA NextNoStall ==
  ASSUME TSTypeOK, Prefix, LocalFits, NoStall, [TSNext]_tsvars PROVE NoStall'
<1>1. CASE UNCHANGED tsvars
  BY <1>1 DEF tsvars, NoStall
<1>2. CASE TSNext
  <2>1. ASSUME NEW p \in Part, GetCommitTs(p) PROVE NoStall'
    BY <2>1 DEF GetCommitTs, NoStall
  <2>2. ASSUME NEW p \in Part, NEW c \in issued[p], CommitTs(p, c) PROVE NoStall'
    BY <2>2 DEF CommitTs, NoStall
  <2>3. ASSUME NEW p \in Part, NEW c \in sent[p], UpdatePush(p, c) PROVE NoStall'
    BY <2>3 DEF UpdatePush, NoStall, TSTypeOK
  <2>4. ASSUME NEW p \in Part, UpdateStep(p) PROVE NoStall'
    BY <2>4 DEF UpdateStep, NoStall, TSTypeOK
  <2>5. ASSUME NEW p \in Part, UpdateDone(p) PROVE NoStall'
    BY <2>5, NextIsTop DEF UpdateDone, NoStall, TSTypeOK
  <2>6. ASSUME NEW p \in Part, NEW q \in Part, TsGetHandler(p, q) PROVE NoStall'
    BY <2>6 DEF TsGetHandler, NoStall
  <2>7. ASSUME NEW p \in Part, NEW q \in Part, CopyToSpare(p, q) PROVE NoStall'
    BY <2>7 DEF CopyToSpare, NoStall
  <2>8. ASSUME NEW p \in Part, TsReply(p) PROVE NoStall'
    BY <2>8 DEF TsReply, NoStall
  <2>9. ASSUME NEW p \in Part, SwapBuffers(p) PROVE NoStall'
    BY <2>9 DEF SwapBuffers, NoStall
  <2>10. ASSUME NEW t \in Tx, GetStartTs(t) PROVE NoStall'
    BY <2>10 DEF GetStartTs, NoStall
  <2>11. ASSUME NEW t \in Tx, NEW q \in Part, CopyStartTs(t, q) PROVE NoStall'
    BY <2>11 DEF CopyStartTs, NoStall
  <2> QED BY <1>2, <2>1, <2>2, <2>3, <2>4, <2>5, <2>6, <2>7, <2>8, <2>9, <2>10,
             <2>11, NextCases
<1> QED BY <1>1, <1>2

\* As long as a machine's timestamps fit an int, ts_update_handler never leaves
\* the timestamp an entry waits for in the queue.
THEOREM NoStallCorrect ==
  ASSUME TsFitInt
  PROVE  TSSpec => []NoStall
<1>1. TSInit => LocalFits /\ NoStall
  BY TsFitInt DEF TSInit, LocalFits, NoStall, TsFitInt
<1>2. TSTypeOK /\ LocalFits /\ [TSNext]_tsvars => LocalFits'
  BY TsFitInt, NextFits
<1>3. TSTypeOK /\ Prefix /\ LocalFits /\ NoStall /\ [TSNext]_tsvars => NoStall'
  BY NextNoStall
<1> QED BY <1>1, <1>2, <1>3, TSTypeCorrect, PrefixCorrect, PTL DEF TSSpec

-----------------------------------------------------------------------------
(* The service implements VectorTS.  Besides CopiesLag this needs that what  *)
(* transactions are given covers the loaded data.                           *)

\* Entries of the published buffer, and of a buffer that a transaction is
\* copying from, are at least 2, the version of loaded records; so are the
\* entries fetched or copied so far on their way to being published.
CoversLoaded ==
  \A q \in Part :
    /\ ts_buffer[q] >= 2
    /\ \A p \in Part :
         /\ fetch[p].phase = "copy" \/ q \notin fetch[p].todo => fetch[p].vec[q] >= 2
         /\ buf[p][cur[p]][q] >= 2
         /\ fetch[p].phase = "copy" /\ q \notin fetch[p].todo => buf[p][Spare(p)][q] >= 2
    /\ \A t \in Tx : buf[Home[t]][start[t].from][q] >= 2

\* The published buffers cover the loaded data initially.
LEMMA InitCovers == TSInit => CoversLoaded
BY TSAssumption DEF TSInit, CoversLoaded

\* Every step keeps that.
LEMMA NextCovers == TSTypeOK /\ CoversLoaded /\ [TSNext]_tsvars => CoversLoaded'
<1> SUFFICES ASSUME TSTypeOK, CoversLoaded, [TSNext]_tsvars PROVE CoversLoaded'
  OBVIOUS
<1>1. CASE UNCHANGED tsvars
  BY <1>1 DEF tsvars, CoversLoaded, Spare
<1>2. CASE TSNext
  <2>1. ASSUME NEW p \in Part, GetCommitTs(p) PROVE CoversLoaded'
    BY <2>1 DEF GetCommitTs, CoversLoaded, Spare
  <2>2. ASSUME NEW p \in Part, NEW c \in issued[p], CommitTs(p, c) PROVE CoversLoaded'
    BY <2>2 DEF CommitTs, CoversLoaded, Spare
  <2>3. ASSUME NEW p \in Part, NEW c \in sent[p], UpdatePush(p, c) PROVE CoversLoaded'
    BY <2>3 DEF UpdatePush, CoversLoaded, Spare
  <2>4. ASSUME NEW p \in Part, UpdateStep(p) PROVE CoversLoaded'
    <3>1. \A q \in Part : ts_buffer'[q] >= 2
      BY <2>4 DEF UpdateStep, TSTypeOK, Vec, CoversLoaded
    <3> QED BY <2>4, <3>1 DEF UpdateStep, CoversLoaded, Spare
  <2>5. ASSUME NEW p \in Part, UpdateDone(p) PROVE CoversLoaded'
    BY <2>5 DEF UpdateDone, CoversLoaded, Spare
  <2>6. ASSUME NEW p \in Part, NEW q \in Part, TsGetHandler(p, q) PROVE CoversLoaded'
    BY <2>6 DEF TsGetHandler, CoversLoaded, TSTypeOK, Fetch, Vec, Spare
  <2>7. ASSUME NEW p \in Part, NEW q \in Part, CopyToSpare(p, q) PROVE CoversLoaded'
    <3>1. fetch[p].vec[q] >= 2
      BY <2>7 DEF CopyToSpare, CoversLoaded
    <3>2. \A r \in Part, b \in {1, 2}, u \in Part :
            IF r = p /\ b = Spare(p) /\ u = q THEN buf'[r][b][u] >= 2
                                              ELSE buf'[r][b][u] = buf[r][b][u]
      BY <2>7, <3>1, SpareType DEF CopyToSpare, TSTypeOK, Vec
    <3>3. \A r \in Part : /\ fetch'[r].vec = fetch[r].vec /\ fetch'[r].phase = fetch[r].phase
                          /\ r # p => fetch'[r].todo = fetch[r].todo
      BY <2>7 DEF CopyToSpare, TSTypeOK, Fetch
    <3>4. fetch[p].phase = "copy" /\ fetch'[p].todo = fetch[p].todo \ {q}
      BY <2>7 DEF CopyToSpare, TSTypeOK, Fetch
    <3>5. ts_buffer' = ts_buffer /\ start' = start /\ cur' = cur
      BY <2>7 DEF CopyToSpare
    <3>6. \A t \in Tx : Home[t] \in Part /\ start[t].from \in {1, 2}
      BY TSAssumption DEF TSTypeOK, Start
    <3>7. \A r \in Part : cur[r] \in {1, 2} /\ Spare(r) \in {1, 2} /\ Spare(r)' = Spare(r)
      BY <3>5, SpareType DEF TSTypeOK, Spare
    <3>8. \A r \in Part, b \in {1, 2}, u \in Part :
            buf[r][b][u] >= 2 => buf'[r][b][u] >= 2
      BY <3>2
    <3> SUFFICES ASSUME NEW u \in Part
                 PROVE  /\ ts_buffer'[u] >= 2
                        /\ \A r \in Part :
                             /\ fetch'[r].phase = "copy" \/ u \notin fetch'[r].todo
                                  => fetch'[r].vec[u] >= 2
                             /\ buf'[r][cur'[r]][u] >= 2
                             /\ fetch'[r].phase = "copy" /\ u \notin fetch'[r].todo
                                  => buf'[r][Spare(r)'][u] >= 2
                        /\ \A t \in Tx : buf'[Home[t]][start'[t].from][u] >= 2
      BY DEF CoversLoaded
    <3>9. ASSUME NEW r \in Part
          PROVE  /\ fetch'[r].phase = "copy" \/ u \notin fetch'[r].todo
                      => fetch'[r].vec[u] >= 2
                 /\ buf'[r][cur'[r]][u] >= 2
      BY <3>3, <3>4, <3>5, <3>7, <3>8 DEF CoversLoaded
    <3>10. ASSUME NEW r \in Part, fetch'[r].phase = "copy", u \notin fetch'[r].todo
           PROVE  buf'[r][Spare(r)'][u] >= 2
      <4>1. CASE r = p /\ u = q
        BY <4>1, <3>2, <3>7
      <4>2. CASE ~(r = p /\ u = q)
        BY <4>2, <3>10, <3>3, <3>4, <3>7, <3>8 DEF CoversLoaded
      <4> QED BY <4>1, <4>2
    <3>11. \A t \in Tx : buf'[Home[t]][start'[t].from][u] >= 2
      BY <3>5, <3>6, <3>8 DEF CoversLoaded
    <3> QED BY <3>5, <3>9, <3>10, <3>11 DEF CoversLoaded
  <2>8. ASSUME NEW p \in Part, TsReply(p) PROVE CoversLoaded'
    BY <2>8 DEF TsReply, CoversLoaded, TSTypeOK, Fetch, Spare
  <2>9. ASSUME NEW p \in Part, SwapBuffers(p) PROVE CoversLoaded'
    <3>1. \A r \in Part : /\ fetch'[r].vec = fetch[r].vec
                          /\ r # p => fetch'[r] = fetch[r] /\ cur'[r] = cur[r]
      BY <2>9 DEF SwapBuffers, TSTypeOK, Fetch
    <3>2. /\ fetch[p].phase = "copy" /\ fetch[p].todo = {} /\ cur'[p] = Spare(p)
          /\ fetch'[p].phase = "get" /\ fetch'[p].todo = Part
      BY <2>9 DEF SwapBuffers, TSTypeOK, Fetch
    <3>3. ts_buffer' = ts_buffer /\ start' = start /\ buf' = buf
      BY <2>9 DEF SwapBuffers
    <3> QED BY <3>1, <3>2, <3>3 DEF CoversLoaded, Spare
  <2>10. ASSUME NEW t \in Tx, GetStartTs(t) PROVE CoversLoaded'
    <3>1. \A r \in Tx : start'[r].from \in {start[r].from, cur[Home[r]]}
      BY <2>10 DEF GetStartTs, TSTypeOK, Start
    <3> QED BY <2>10, <3>1, TSAssumption DEF GetStartTs, CoversLoaded, Spare
  <2>11. ASSUME NEW t \in Tx, NEW q \in Part, CopyStartTs(t, q) PROVE CoversLoaded'
    <3>1. \A r \in Tx : start'[r].from = start[r].from
      BY <2>11 DEF CopyStartTs, TSTypeOK, Start
    <3> QED BY <2>11, <3>1 DEF CopyStartTs, CoversLoaded, Spare
  <2> QED BY <1>2, <2>1, <2>2, <2>3, <2>4, <2>5, <2>6, <2>7, <2>8, <2>9, <2>10,
             <2>11, NextCases
<1> QED BY <1>1, <1>2

\* The initial states map to initial states of VectorTS.
LEMMA InitPromise == TSInit => VT!VTInit
BY DEF TSInit, VT!VTInit

\* Steps that do not concern the start vectors leave them as they are.
LEMMA StartVecs ==
  ASSUME start' = start
  PROVE  UNCHANGED [t \in Tx |-> start[t].vec]
OBVIOUS

\* What CopyStartTs copies is a value that VectorTS allows.
LEMMA CopyCovers ==
  ASSUME TSTypeOK, Prefix, CopiesLag, CoversLoaded, NEW t \in Tx, NEW q \in Part
  PROVE  buf[Home[t]][start[t].from][q] \in VT!Covers(q)
<1> DEFINE v == buf[Home[t]][start[t].from][q]
<1>1. Home[t] \in Part /\ start[t].from \in {1, 2}
  BY TSAssumption DEF TSTypeOK, Start
<1>2. v \in Nat /\ ts_buffer[q] \in Nat /\ local_ts[q] \in Nat /\ issued[q] \subseteq Nat
  BY <1>1 DEF TSTypeOK, Vec
<1>3. v >= 2 /\ v <= ts_buffer[q] /\ ts_buffer[q] < local_ts[q]
  BY <1>1 DEF CoversLoaded, CopiesLag, Prefix
<1>4. \A c \in issued[q] : ts_buffer[q] < c
  <2> SUFFICES ASSUME NEW c \in issued[q] PROVE ts_buffer[q] < c
    OBVIOUS
  <2>1. c \in (ts_buffer[q] + 1)..(local_ts[q] - 1)
    BY DEF Prefix
  <2> QED BY <2>1, <1>2
<1> HIDE DEF v
<1>5. v \in 2..(local_ts[q] - 1) /\ \A c \in issued[q] : v < c
  BY <1>2, <1>3, <1>4
<1> QED BY <1>5 DEF v, VT!Covers

\* Every step of the service is a step of its promise, or leaves it alone.
LEMMA NextPromise ==
  TSTypeOK /\ Prefix /\ CopiesLag /\ CoversLoaded /\ [TSNext]_tsvars
    => [VT!VTNext]_(VT!vtvars)
<1> SUFFICES ASSUME TSTypeOK, Prefix, CopiesLag, CoversLoaded, [TSNext]_tsvars
             PROVE  [VT!VTNext]_(VT!vtvars)
  OBVIOUS
<1>1. CASE UNCHANGED tsvars
  BY <1>1 DEF tsvars, VT!vtvars
<1>2. CASE TSNext
  <2> DEFINE Goal == [VT!VTNext]_(VT!vtvars)
  <2>1. ASSUME NEW p \in Part, GetCommitTs(p) PROVE Goal
    <3>1. VT!TakeTs(p)
      BY <2>1, StartVecs DEF GetCommitTs, VT!TakeTs
    <3> QED BY <3>1 DEF VT!VTNext
  <2>2. ASSUME NEW p \in Part, NEW c \in issued[p], CommitTs(p, c) PROVE Goal
    <3>1. VT!EndTs(p, c)
      BY <2>2, StartVecs DEF CommitTs, VT!EndTs
    <3> QED BY <3>1 DEF VT!VTNext
  <2>3. ASSUME NEW p \in Part, NEW c \in sent[p], UpdatePush(p, c) PROVE Goal
    BY <2>3, StartVecs DEF UpdatePush, VT!vtvars
  <2>4. ASSUME NEW p \in Part, UpdateStep(p) PROVE Goal
    BY <2>4, StartVecs DEF UpdateStep, VT!vtvars
  <2>5. ASSUME NEW p \in Part, UpdateDone(p) PROVE Goal
    BY <2>5, StartVecs DEF UpdateDone, VT!vtvars
  <2>6. ASSUME NEW p \in Part, NEW q \in Part, TsGetHandler(p, q) PROVE Goal
    BY <2>6, StartVecs DEF TsGetHandler, VT!vtvars
  <2>7. ASSUME NEW p \in Part, NEW q \in Part, CopyToSpare(p, q) PROVE Goal
    BY <2>7, StartVecs DEF CopyToSpare, VT!vtvars
  <2>8. ASSUME NEW p \in Part, TsReply(p) PROVE Goal
    BY <2>8, StartVecs DEF TsReply, VT!vtvars
  <2>9. ASSUME NEW p \in Part, SwapBuffers(p) PROVE Goal
    BY <2>9, StartVecs DEF SwapBuffers, VT!vtvars
  <2>10. ASSUME NEW t \in Tx, GetStartTs(t) PROVE Goal
    <3>1. \A r \in Tx : start'[r].vec = start[r].vec
      BY <2>10 DEF GetStartTs, TSTypeOK, Start
    <3> QED BY <2>10, <3>1 DEF GetStartTs, VT!vtvars
  <2>11. ASSUME NEW t \in Tx, NEW q \in Part, CopyStartTs(t, q) PROVE Goal
    <3> DEFINE old == [r \in Tx |-> start[r].vec]
               entry(p) == VT!Covers(p) \cup {old[t][p]}
               v == [start[t].vec EXCEPT ![q] = buf[Home[t]][start[t].from][q]]
    <3>1. start[t].vec \in [Part -> Nat]
      BY DEF TSTypeOK, Start, Vec
    <3>2. \A p \in Part : v[p] \in entry(p)
      BY <3>1, CopyCovers
    <3>3. v \in [Part -> UNION {entry(p) : p \in Part}]
      BY <3>1, <3>2
    <3>4. [r \in Tx |-> start'[r].vec] = [old EXCEPT ![t] = v]
      BY <2>11 DEF CopyStartTs, TSTypeOK, Start
    <3>5. local_ts' = local_ts /\ issued' = issued
      BY <2>11 DEF CopyStartTs
    <3> HIDE DEF v
    <3>6. VT!StartTs(t)
      BY <3>2, <3>3, <3>4, <3>5 DEF VT!StartTs
    <3> QED BY <3>6 DEF VT!VTNext
  <2> HIDE DEF Goal
  <2>12. Goal
    BY <1>2, <2>1, <2>2, <2>3, <2>4, <2>5, <2>6, <2>7, <2>8, <2>9, <2>10,
       <2>11, NextCases
  <2> QED BY <2>12 DEF Goal
<1> QED BY <1>1, <1>2

\* The service implements VectorTS, the specification DBSI is built on: a start
\* vector is made of prefixes of finished commits, for any number of machines
\* and coroutines and every interleaving of updates, fetches and copies.
THEOREM KeepsPromise == TSSpec => Promise
<1>1. TSInit => VT!VTInit /\ CopiesLag /\ CoversLoaded
  BY InitPromise, InitLag, InitCovers
<1>2. TSTypeOK /\ CopiesLag /\ CoversLoaded /\ [TSNext]_tsvars
        => CopiesLag' /\ CoversLoaded'
  BY NextLag, NextCovers
<1> QED BY <1>1, <1>2, NextPromise, TSTypeCorrect, PrefixCorrect, PTL
        DEF TSSpec, Promise, VT!VTSpec
=============================================================================
