------------------------------- MODULE Rococo -------------------------------
(***************************************************************************)
(* ROCOCO + DST (rococo-dst/deptran): a coordinator sends the pieces of a  *)
(* transaction to their servers (rcc_start_pie), merges the dependency     *)
(* graphs that come back, and sends the merged graph to all the servers    *)
(* (rcc_finish_txn).  A server executes the deferred pieces once all       *)
(* ancestors of the transaction are committing and the ancestors of its    *)
(* strongly connected component are decided, in an order every server      *)
(* derives from the graph.  A server that meets an ancestor it does not    *)
(* run asks one of that ancestor's servers (rcc_ask_txn).                  *)
(*                                                                         *)
(* A handler runs on the poll thread of its server together with the       *)
(* callbacks it triggers.  The model takes a callback at a time: calls[s]  *)
(* holds those that are waiting, and a server handles no message while one *)
(* of them can run.                                                        *)
(*                                                                         *)
(* Every piece reads and writes its columns, so log[k], the transactions   *)
(* that executed on column k in order, stands for the value of k.          *)
(***************************************************************************)
EXTENDS DepGraph

CONSTANTS Key,          \* columns of rows, each with its entry_t
          Workloads,    \* what the clients may ask for: Txn -> set of pieces
          EarlyReturn,  \* Config::do_early_return
          NoTxn         \* entry_t::last_ = NULL

\* A piece runs on one server and touches columns of that server.  Its kind:
\* "imm" DF_NO, executed at start; "def" DF_REAL, executed when decided, with
\* out TRUE if the client waits for its output; "ro" a piece of a read-only
\* transaction.
Piece == [srv : Server, keys : SUBSET Key,
          kind : {"imm", "def", "ro"}, out : BOOLEAN]

ASSUME WorkloadAssumption ==
    /\ EarlyReturn \in BOOLEAN
    /\ NoTxn \notin Txn
    /\ Workloads \subseteq [Txn -> SUBSET Piece]

VARIABLES
    prog,      \* prog[t]: the pieces of t
    \* servers
    gra,       \* gra[s]: dep_s->txn_gra_
    last,      \* last[k]: entry_t::last_
    res,       \* res[s]: transactions whose TxnInfo::res is set
    deciding,  \* deciding[s]: TxnInfo::during_commit
    asking,    \* asking[s]: TxnInfo::during_asking
    calls,     \* calls[s]: DragonBalls, and rests of handlers, not yet run
    down,      \* servers stopped by a failed verify()
    log,       \* log[k]: the transactions executed on k
    \* coordinators
    chop,      \* chop[t]: the TxnChopper, its graph and its counters
    answered,  \* transactions whose client has its reply
    \* network
    asks,      \* rcc_ask_txn requests and replies between servers
    \* history
    prec,      \* prec[t]: the transactions answered before t began
    seen       \* seen[t][k]: what read-only t found executed on k

serverVars == <<gra, last, res, deciding, asking, calls, down, log>>
coordVars == <<chop, answered>>
vars == <<prog, serverVars, coordVars, asks, prec, seen>>

-----------------------------------------------------------------------------
ServersOf(t) == {p.srv : p \in prog[t]}       \* TxnChopper::proxies_

ReadOnly(t) == \A p \in prog[t] : p.kind = "ro"

DeferredKeys(t, s) ==
    UNION {p.keys : p \in {q \in prog[t] : q.srv = s /\ q.kind = "def"}}

AskReq(t, s, from) == [type |-> "ask", t |-> t, s |-> s, from |-> from]
AskRsp(t, s, g) == [type |-> "asked", t |-> t, s |-> s, g |-> g]

\* A pending callback: op runs for transaction t once the transactions in
\* wait have the status it waits for (see Runnable); `to` is whom it answers.
Call(op, t, wait, to) == [op |-> op, t |-> t, wait |-> wait, to |-> to]
Nobody == [who |-> "nobody"]
Coordinator == [who |-> "coordinator"]
Asker(s) == [who |-> "server", s |-> s]
Reader(p) == [who |-> "reader", p |-> p]

\* A DragonBall runs its wish when the last event it waits for has come.
Triggered(s, c) ==
    \/ c.op = "to_decide"
    \/ c.op \in {"anc_finish", "ask_reply"} /\ c.wait \subseteq Finished(gra[s])
    \/ c.op \in {"scc_commit", "ro_reply"} /\ c.wait \subseteq gra[s].dcd

\* commit goes on when union_graph has run all that it triggered.
Runnable(s, c) ==
    /\ s \notin down
    /\ \/ Triggered(s, c)
       \/ c.op = "commit" /\ \A d \in calls[s] : ~Triggered(s, d)

\* The handlers taken so far have run to the end; s can take a message.
Idle(s) == /\ s \notin down
           /\ \A r \in Server : \A c \in calls[r] : ~Runnable(r, c)

FirstServer(g, t) ==
    CHOOSE s \in Server : /\ <<t, s>> \in g.srv
                          /\ \A r \in Server : <<t, r>> \in g.srv => s <= r

\* send_ask_req for each of the transactions in S: the ones this server does
\* not run and has not seen committing are asked for, once; the ones it has
\* seen committing are decided here.
ToAsk(s, S) ==
    {t \in S : /\ t \notin Involved(gra[s], s)
               /\ t \notin Finished(gra[s])
               /\ t \notin asking[s]}

\* Mutant of AskReqs: the server waits for the answer without asking.
AskNobody(s, S) == {}

AskReqs(s, S) == {AskReq(t, FirstServer(gra[s], t), s) : t \in ToAsk(s, S)}

DecideCalls(s, S) ==
    {Call("to_decide", t, {}, Nobody) :
        t \in {u \in S : /\ u \notin Involved(gra[s], s)
                         /\ u \in gra[s].cmt \ gra[s].dcd}}

Init ==
    /\ prog \in Workloads
    /\ gra = [s \in Server |-> EmptyGraph]
    /\ last = [k \in Key |-> NoTxn]
    /\ res = [s \in Server |-> {}]
    /\ deciding = [s \in Server |-> {}]
    /\ asking = [s \in Server |-> {}]
    /\ calls = [s \in Server |-> {}]
    /\ down = {}
    /\ log = [k \in Key |-> <<>>]
    /\ chop = [t \in Txn |-> [gra |-> EmptyGraph, got |-> {}, started |-> {},
                              finished |-> {}, early |-> EarlyReturn]]
    /\ answered = {}
    /\ asks = {}
    /\ prec = [t \in Txn |-> {}]
    /\ seen = [t \in Txn |-> [k \in Key |-> {}]]

-----------------------------------------------------------------------------
(* The coordinator.  deptran_start sends one request per piece and         *)
(* deptran_finish one per server; a request is handled at any later time,  *)
(* the requests sent first taken to be sent when the first of them is      *)
(* handled.  A reply reaches the coordinator with the step that sends it:  *)
(* all it can do there is add to what the coordinator has collected.       *)

\* Mutant of Started: the first reply to rcc_start_pie is taken for the last.
StartedFirst(t) == chop[t].started # {}

Started(t) == chop[t].started = prog[t]

\* Coordinator t sees that a request of it was handled: its first?
Began(t, p) ==
    /\ p \in prog[t] \ chop[t].got
    /\ prec' = IF chop[t].got = {} THEN [prec EXCEPT ![t] = answered] ELSE prec

\* The reply to rcc_start_pie: merge the graph, give up the early return if
\* the graph holds another transaction or the client needs the output of a
\* deferred piece; with the last reply deptran_finish sends the graph.
OnStarted(t, p, g) ==
    LET c == [chop[t] EXCEPT !.gra = UnionGraph(@, g),
                             !.got = @ \cup {p}, !.started = @ \cup {p},
                             !.early = @ /\ g.v = {t} /\ ~(p.kind = "def" /\ p.out)]
    IN  /\ chop' = [chop EXCEPT ![t] = c]
        /\ answered' = IF c.started = prog[t] /\ c.early
                       THEN answered \cup {t} ELSE answered

\* The reply to rcc_finish_txn.
OnFinished(t, s) ==
    LET done == chop[t].finished \cup {s}
    IN  /\ chop' = [chop EXCEPT ![t].finished = done]
        /\ answered' = IF done = ServersOf(t) THEN answered \cup {t} ELSE answered

\* The reply to rcc_ro_start_pie, with PDI: no second round.
OnRead(t, p) ==
    LET all == chop[t].started \cup {p}
    IN  /\ chop' = [chop EXCEPT ![t].started = all]
        /\ answered' = IF all = prog[t] THEN answered \cup {t} ELSE answered

-----------------------------------------------------------------------------
(* The server: requests                                                    *)

\* Mutants of KissEdges: no edge for a deferred piece, edges turned round.
KissEdgesImm(t, K, type) ==
    {<<last[k], t, "I">> : k \in {j \in K : last[j] # NoTxn /\ type = "I"}}
KissEdgesBack(t, K, type) ==
    {<<t, last[k], type>> : k \in {j \in K : last[j] # NoTxn}}

\* kiss for the columns K of a piece of t: an edge from the transaction in
\* the entry of the column, or else t becomes that transaction.
KissEdges(t, K, type) ==
    {<<last[k], t, type>> : k \in {j \in K : last[j] # NoTxn}}

KissLast(t, K) ==
    [k \in Key |-> IF k \in K /\ last[k] = NoTxn THEN t ELSE last[k]]

\* Mutant of AddVertex: site id and transaction id exchanged.
AddVertexSwapped(g, t, s, E) ==
    UnionGraph(g, [v |-> {t}, cmt |-> {}, dcd |-> {}, srv |-> {<<s, t>>}, e |-> E])

\* start_pie: find or insert the vertex, this server is one of its servers;
\* E are the edges the handler adds.
AddVertex(g, t, s, E) ==
    UnionGraph(g, [v |-> {t}, cmt |-> {}, dcd |-> {}, srv |-> {<<t, s>>}, e |-> E])

\* rcc_start_pie: start and sub_txn_graph.  (g and reply have one value each.)
StartPie(t, p) ==
    /\ p.kind # "ro"
    /\ Idle(p.srv)
    /\ Began(t, p)
    /\ \E g \in {AddVertex(gra[p.srv], t, p.srv,
                          KissEdges(t, p.keys, IF p.kind = "imm" THEN "I" ELSE "D"))} :
         \E reply \in {SubGraph(g, t)} :
           /\ gra' = [gra EXCEPT ![p.srv] = g]
           /\ last' = KissLast(t, p.keys)
           /\ log' = [k \in Key |-> IF p.kind = "imm" /\ k \in p.keys
                                    THEN Append(log[k], t) ELSE log[k]]
           /\ OnStarted(t, p, reply)
    /\ UNCHANGED <<prog, res, deciding, asking, calls, down, asks, seen>>

\* rcc_ro_start_pie: start_ro reads first, then waits for the transactions
\* in the entries of the columns it read.
StartRo(t, p) ==
    /\ p.kind = "ro"
    /\ Idle(p.srv)
    /\ Began(t, p)
    /\ LET conflict_txns == {last[k] : k \in p.keys} \ {NoTxn}
       IN  calls' = [calls EXCEPT ![p.srv] =
                        @ \cup {Call("ro_reply", t, conflict_txns, Reader(p))}]
    /\ seen' = [seen EXCEPT ![t] = [k \in Key |->
                    IF k \in p.keys THEN {log[k][i] : i \in 1..Len(log[k])}
                                    ELSE @[k]]]
    /\ chop' = [chop EXCEPT ![t].got = @ \cup {p}]
    /\ UNCHANGED <<prog, gra, last, res, deciding, asking, down, log, answered, asks>>

\* rcc_finish_txn: commit begins with union_graph, which triggers callbacks.
FinishTxn(t, s) ==
    /\ ~ReadOnly(t) /\ Started(t)
    /\ s \in ServersOf(t) /\ t \notin res[s]
    /\ Idle(s)
    /\ gra' = [gra EXCEPT ![s] = UnionAtServer(s, @, chop[t].gra)]
    /\ calls' = [calls EXCEPT ![s] = @ \cup {Call("commit", t, {}, Coordinator)}]
    /\ UNCHANGED <<prog, last, res, deciding, asking, down, log, coordVars, asks, prec, seen>>

\* rcc_ask_txn: answer once the transaction is committing here.
AskTxn(m) ==
    /\ m.type = "ask"
    /\ Idle(m.s)
    /\ calls' = [calls EXCEPT ![m.s] =
                    @ \cup {Call("ask_reply", m.t, {m.t}, Asker(m.from))}]
    /\ asks' = asks \ {m}
    /\ UNCHANGED <<prog, gra, last, res, deciding, asking, down, log, coordVars, prec, seen>>

\* The callback of async_rcc_ask_txn.
AskReply(m) ==
    /\ m.type = "asked"
    /\ Idle(m.s)
    /\ gra' = [gra EXCEPT ![m.s] = UnionAtServer(m.s, @, m.g)]
    /\ calls' = [calls EXCEPT ![m.s] = @ \cup {Call("to_decide", m.t, {}, Nobody)}]
    /\ asks' = asks \ {m}
    /\ UNCHANGED <<prog, last, res, deciding, asking, down, log, coordVars, prec, seen>>

-----------------------------------------------------------------------------
(* The server: callbacks                                                   *)

\* The rest of commit: the request is here, its transaction is committing (which
\* triggers callbacks again), to_decide.
Commit(s, c) ==
    /\ c.op = "commit"
    /\ res' = [res EXCEPT ![s] = @ \cup {c.t}]
    /\ gra' = [gra EXCEPT ![s].cmt = @ \cup {c.t}]
    /\ calls' = [calls EXCEPT ![s] = (@ \ {c}) \cup {Call("to_decide", c.t, {}, c.to)}]
    /\ UNCHANGED <<prog, last, deciding, asking, down, log, coordVars, asks, prec, seen>>

\* Callback c of server s is replaced by the calls in new, and send_ask_req
\* is called for the transactions in S.
RunCall(s, c, new, S) ==
    /\ calls' = [calls EXCEPT ![s] = (@ \ {c}) \cup new \cup DecideCalls(s, S)]
    /\ asking' = [asking EXCEPT ![s] = @ \cup ToAsk(s, S)]
    /\ asks' = asks \cup AskReqs(s, S)

\* to_decide: nothing, not even a reply, if the decision is under way.
ToDecide(s, c) ==
    /\ c.op = "to_decide"
    /\ IF c.t \in deciding[s]
       THEN RunCall(s, c, {}, {}) /\ UNCHANGED deciding
       ELSE LET anc == Ancestors(gra[s], c.t)
            IN  /\ deciding' = [deciding EXCEPT ![s] = @ \cup {c.t}]
                /\ RunCall(s, c, {Call("anc_finish", c.t, anc, c.to)}, anc)
    /\ UNCHANGED <<prog, gra, last, res, down, log, coordVars, prec, seen>>

\* anc_finish_cb
AncFinish(s, c) ==
    /\ c.op = "anc_finish"
    /\ LET scc_anc == SccParents(gra[s], c.t)
       IN  RunCall(s, c, {Call("scc_commit", c.t, scc_anc, c.to)}, scc_anc)
    /\ UNCHANGED <<prog, gra, last, res, deciding, down, log, coordVars, prec, seen>>

\* What exe_deferred appends to column k of server s for the members of the
\* component that are not decided and whose finish request has come.
Executes(s, order, k) ==
    LET turns == Ascending({i \in 1..Len(order) : /\ order[i] \in res[s] \ gra[s].dcd
                                                  /\ k \in DeferredKeys(order[i], s)})
    IN  [j \in 1..Len(turns) |-> order[turns[j]]]

ReplyTo(c, s) == IF c.to = Coordinator THEN OnFinished(c.t, s)
                                       ELSE UNCHANGED coordVars

\* scc_anc_commit_cb, when the component is decided already ...
SccDecided(s, c) ==
    /\ c.op = "scc_commit"
    /\ c.t \in gra[s].dcd
    /\ RunCall(s, c, {}, {})
    /\ ReplyTo(c, s)
    /\ UNCHANGED <<prog, gra, last, res, deciding, down, log, prec, seen>>

\* Mutant of SccCommit: only the transaction itself is marked as decided.
SccCommitOwn(s, c) ==
    /\ c.op = "scc_commit"
    /\ c.t \notin gra[s].dcd
    /\ \E scc \in {Scc(gra[s], c.t)} : \E order \in {SortedScc(gra[s], scc)} :
           /\ Len(order) = Cardinality(scc)
           /\ log' = [k \in Key |-> log[k] \o Executes(s, order, k)]
           /\ gra' = [gra EXCEPT ![s].dcd = @ \cup {c.t}]
    /\ RunCall(s, c, {}, {})
    /\ ReplyTo(c, s)
    /\ UNCHANGED <<prog, last, res, deciding, down, prec, seen>>

\* ... when it is executed ...
SccCommit(s, c) ==
    /\ c.op = "scc_commit"
    /\ c.t \notin gra[s].dcd
    /\ \E scc \in {Scc(gra[s], c.t)} : \E order \in {SortedScc(gra[s], scc)} :
           /\ Len(order) = Cardinality(scc)
           /\ log' = [k \in Key |-> log[k] \o Executes(s, order, k)]
           /\ gra' = [gra EXCEPT ![s].dcd = @ \cup scc]
    /\ RunCall(s, c, {}, {})
    /\ ReplyTo(c, s)
    /\ UNCHANGED <<prog, last, res, deciding, down, prec, seen>>

\* ... and when sorted_scc fails one of its verify().
SccAbort(s, c) ==
    /\ c.op = "scc_commit"
    /\ c.t \notin gra[s].dcd
    /\ \E scc \in {Scc(gra[s], c.t)} : Len(SortedScc(gra[s], scc)) # Cardinality(scc)
    /\ down' = down \cup {s}
    /\ UNCHANGED <<prog, gra, last, res, deciding, asking, calls, log, coordVars, asks, prec, seen>>

\* The callback of rcc_ask_txn.
SendAnswer(s, c) ==
    /\ c.op = "ask_reply"
    /\ calls' = [calls EXCEPT ![s] = @ \ {c}]
    /\ asks' = asks \cup {AskRsp(c.t, c.to.s, SubGraph(gra[s], c.t))}
    /\ UNCHANGED <<prog, gra, last, res, deciding, asking, down, log, coordVars, prec, seen>>

\* The callback of start_ro.
SendRead(s, c) ==
    /\ c.op = "ro_reply"
    /\ calls' = [calls EXCEPT ![s] = @ \ {c}]
    /\ OnRead(c.t, c.to.p)
    /\ UNCHANGED <<prog, gra, last, res, deciding, asking, down, log, asks, prec, seen>>

-----------------------------------------------------------------------------
Request(t) ==
    \/ \E p \in prog[t] : StartPie(t, p) \/ StartRo(t, p)
    \/ \E s \in Server : FinishTxn(t, s)

Ask == \E m \in asks : AskTxn(m) \/ AskReply(m)

Callback(s) ==
    \E c \in {d \in calls[s] : Runnable(s, d)} :
        \/ Commit(s, c) \/ ToDecide(s, c) \/ AncFinish(s, c)
        \/ SccDecided(s, c) \/ SccCommit(s, c) \/ SccAbort(s, c)
        \/ SendAnswer(s, c) \/ SendRead(s, c)

Next ==
    \/ \E t \in Txn : Request(t)
    \/ Ask
    \/ \E s \in Server : Callback(s)

Spec == Init /\ [][Next]_vars

\* The poll threads keep running and TCP delivers: the system does not stop
\* while there is something to do.  More is not needed, as no behaviour goes
\* on for ever: each step handles a request, a message or a callback.
FairSpec == Spec /\ WF_vars(Next)

-----------------------------------------------------------------------------
TypeOK ==
    /\ prog \in Workloads
    /\ gra \in [Server -> Graph]
    /\ last \in [Key -> Txn \cup {NoTxn}]
    /\ res \in [Server -> SUBSET Txn]
    /\ deciding \in [Server -> SUBSET Txn]
    /\ asking \in [Server -> SUBSET Txn]
    /\ down \subseteq Server
    /\ log \in [Key -> Seq(Txn)]
    /\ chop \in [Txn -> [gra : Graph, got : SUBSET Piece, started : SUBSET Piece,
                         finished : SUBSET Server, early : BOOLEAN]]
    /\ answered \subseteq Txn
    /\ prec \in [Txn -> SUBSET Txn]
    /\ seen \in [Txn -> [Key -> SUBSET Txn]]

Executed(k) == {log[k][i] : i \in 1..Len(log[k])}

KeysOf(t) == UNION {p.keys : p \in prog[t]}

\* a executed before b on some column, or its client had the answer before b
\* began.
Precedes(a, b) ==
  /\ a # b
  /\ \/ a \in prec[b]
     \/ \E k \in Key : \E i, j \in 1..Len(log[k]) :
             i < j /\ log[k][i] = a /\ log[k][j] = b

\* The pieces of different servers, immediate ones executed on arrival and
\* deferred ones when their server decides, amount to one serial order, and
\* that order respects real time: the client of the earlier transaction may
\* have its answer (early_return_) before the deferred pieces have executed.
StrictSerializable ==
    \E pos \in [Txn -> 1..Cardinality(Txn)] :
        \A a, b \in Txn : Precedes(a, b) => pos[a] < pos[b]

\* sorted_scc places every member of the component (its verify() stops the
\* server otherwise), unless a member has an EDGE_I parent outside of the
\* component: its loop waits for that parent too and never meets it.
AbortNeedsOuterParent ==
    \A s \in down : \E t \in gra[s].v :
        ~(IParents(gra[s], t) \subseteq Scc(gra[s], t))

\* Several paths of a server lead to a decision (its own finish request, that
\* of another member of the component, an answer of rcc_ask_txn): a piece is
\* executed by at most one of them.
ExecutedOnce ==
    \A k \in Key : \A i, j \in 1..Len(log[k]) : log[k][i] = log[k][j] => i = j

\* When all servers have answered the finish requests of t, every deferred
\* piece of t has executed: no server answers for a piece it has skipped.
FinishedIsExecuted ==
    \A t \in Txn : \A s \in chop[t].finished :
        \A k \in DeferredKeys(t, s) : t \in Executed(k)

\* The status "committing" is known, at any server, coordinator or in any
\* message, only of transactions whose coordinator has all its start replies:
\* a server that has seen its ancestors committing knows all their edges.
CommittingIsStarted ==
    LET All(S) == \A t \in S : chop[t].started = prog[t]
    IN  /\ \A s \in Server : All(gra[s].cmt)
        /\ \A u \in Txn : All(chop[u].gra.cmt)
        /\ \A m \in asks : m.type = "asked" => All(m.g.cmt)

Conflict(a, b) == \E k \in KeysOf(b) : last[k] = a

\* An edge, wherever it has travelled to, leads from the transaction in the
\* entry of a column to one that touches that column too.
EdgesAreConflicts ==
    /\ \A s \in Server : \A x \in gra[s].e : Conflict(x[1], x[2])
    /\ \A u \in Txn : \A x \in chop[u].gra.e : Conflict(x[1], x[2])
    /\ \A m \in asks : m.type = "asked" => \A x \in m.g.e : Conflict(x[1], x[2])

\* The decision of a server that has not got the finish request of t yet,
\* although it runs t: it asked for t before the piece of t came.
Overtaken(t) ==
    \E s \in Server : t \in Involved(gra[s], s) /\ t \in deciding[s] \ res[s]

\* Every client gets its answer, whoever waits for whom.  There are two ways
\* to lose it: a decision taken on an answer of rcc_ask_txn before the finish
\* request comes, because to_decide then drops the request's reply, and a
\* server that has stopped.
EveryTxnAnswered ==
    \A t \in Txn : <>(prog[t] = {} \/ t \in answered \/ Overtaken(t) \/ down # {})

\* A transaction decided at a server that runs it has been executed there,
\* and only after its own finish request: a graph from another server does
\* not change its status here (union_status, is_server).
NoLostPiece ==
    \A s \in Server : \A t \in gra[s].dcd \cap Involved(gra[s], s) :
        \A k \in DeferredKeys(t, s) : t \in Executed(k)

\* A read-only transaction that has its answer saw all of another transaction
\* or nothing of it.
NoFracturedRead ==
    \A t \in answered : ReadOnly(t) =>
        \A u \in Txn : \A j, k \in KeysOf(t) \cap KeysOf(u) :
            u \in seen[t][j] => u \in seen[t][k]

=============================================================================
