--------------------------- MODULE Rococo_proofs ---------------------------
(***************************************************************************)
(* What holds of Rococo for any sites, columns and workloads, and any      *)
(* (from section 6 on: finite) set of transactions.                        *)
(*                                                                         *)
(* Sections 1 to 5: what the graphs say is true, at every server, at every *)
(* coordinator and in every message: a transaction is called committing    *)
(* only if its coordinator has all its start replies, and an edge joins    *)
(* two transactions in conflict.  A graph is only ever made from others by *)
(* the operations of section 1.                                            *)
(* The invariant GraphInv says that all graphs are good, and what the      *)
(* messages and the callbacks must look like for that to be inductive.     *)
(*                                                                         *)
(* Section 6: what sorted_scc returns.  Section 7: no piece is executed    *)
(* twice (ExecInv).  Section 8: why a server stops (StopInv).  Section 9:  *)
(* what is answered is executed, where cycles are of two (FinInv).         *)
(***************************************************************************)
EXTENDS RococoWorkloads, FiniteSetTheorems, FunctionTheorems, WellFoundedInduction, TLAPS

StartedTxns == {t \in Txn : chop[t].started = prog[t]}

Conflicts == {p \in Txn \X Txn : Conflict(p[1], p[2])}

\* A graph whose committing transactions are in S and whose edges are in C.
GoodGraph(g, S, C) ==
    /\ g \in Graph
    /\ g.cmt \subseteq S
    /\ \A x \in g.e : <<x[1], x[2]>> \in C

Good(g) == GoodGraph(g, StartedTxns, Conflicts)

Chopper == [gra : Graph, got : SUBSET Piece, started : SUBSET Piece,
            finished : SUBSET Server, early : BOOLEAN]

StateOK ==
    /\ prog \in [Txn -> SUBSET Piece]
    /\ gra \in [Server -> Graph]
    /\ last \in [Key -> Txn \cup {NoTxn}]
    /\ DOMAIN calls = Server /\ calls = [s \in Server |-> calls[s]]
    /\ chop \in [Txn -> Chopper]

CallsOK ==
    \A s \in Server : \A c \in calls[s] :
        /\ c.t \in Txn /\ (c.op = "ro_reply" => c.to.p \in prog[c.t])
        /\ c.op = "commit" => c.t \in StartedTxns

AsksOK == \A m \in asks : m.t \in Txn /\ (m.type = "asked" => m.g \in Graph)

GraphsGood ==
    /\ \A s \in Server : Good(gra[s])
    /\ \A u \in Txn : Good(chop[u].gra)
    /\ \A m \in asks : m.type = "asked" => Good(m.g)

GraphInv == StateOK /\ CallsOK /\ AsksOK /\ GraphsGood

-----------------------------------------------------------------------------
(* 1. The operations on graphs.                                            *)

\* union_graph at a coordinator keeps graphs good.
LEMMA UnionGood ==
  ASSUME NEW S, NEW C, NEW g, NEW h, GoodGraph(g, S, C), GoodGraph(h, S, C)
  PROVE  GoodGraph(UnionGraph(g, h), S, C)
BY DEF GoodGraph, UnionGraph, Graph

\* So does union_graph at a server, which takes over less.
LEMMA UnionAtServerGood ==
  ASSUME NEW S, NEW C, NEW s, NEW g, NEW h, GoodGraph(g, S, C), GoodGraph(h, S, C)
  PROVE  GoodGraph(UnionAtServer(s, g, h), S, C)
<1> DEFINE new == {t \in h.v : t \in g.v => <<t, s>> \notin g.srv \cup h.srv}
           u == UnionGraph(g, h)
<1>1. GoodGraph(u, S, C) BY UnionGood
<1>2. UnionAtServer(s, g, h) = [u EXCEPT !.cmt = g.cmt \cup (h.cmt \cap new),
                                         !.dcd = g.dcd \cup (h.dcd \cap new)]
  BY DEF UnionAtServer
<1>3. QED BY <1>1, <1>2 DEF GoodGraph, Graph

\* sub_txn_graph and the marshaller keep graphs good.
LEMMA SubGraphGood ==
  ASSUME NEW S, NEW C, NEW g, NEW t \in Txn, GoodGraph(g, S, C)
  PROVE  GoodGraph(SubGraph(g, t), S, C)
<1>1. Ancestors(g, t) \subseteq Txn BY DEF Ancestors
<1>2. QED BY <1>1 DEF GoodGraph, SubGraph, Graph

\* start_pie keeps a graph good if the edges it adds are.
LEMMA AddVertexGood ==
  ASSUME NEW S, NEW C, NEW g, NEW t \in Txn, NEW s \in Server,
         NEW E \in SUBSET (Txn \X Txn \X EdgeType), GoodGraph(g, S, C),
         \A x \in E : <<x[1], x[2]>> \in C
  PROVE  GoodGraph(AddVertex(g, t, s, E), S, C)
<1> DEFINE h == [v |-> {t}, cmt |-> {}, dcd |-> {}, srv |-> {<<t, s>>}, e |-> E]
<1>2. h \in Graph
  <2>1. {<<t, s>>} \in SUBSET (Txn \X Server) /\ {t} \in SUBSET Txn
        /\ {} \in SUBSET Txn
    OBVIOUS
  <2>2. QED BY <2>1 DEF Graph
<1>3. h.cmt = {} /\ h.e = E OBVIOUS
<1>4. GoodGraph(h, S, C) BY <1>2, <1>3 DEF GoodGraph
<1>5. QED BY <1>4, UnionGood DEF AddVertex

\* commit marks a transaction that has started.
LEMMA CommitGood ==
  ASSUME NEW S, NEW C, NEW g, NEW t \in S, S \subseteq Txn, GoodGraph(g, S, C)
  PROVE  GoodGraph([g EXCEPT !.cmt = @ \cup {t}], S, C)
BY DEF GoodGraph, Graph

\* scc_anc_commit_cb changes only who is decided.
LEMMA DecideGood ==
  ASSUME NEW S, NEW C, NEW g, NEW D \in SUBSET Txn, GoodGraph(g, S, C)
  PROVE  GoodGraph([g EXCEPT !.dcd = @ \cup D], S, C)
BY DEF GoodGraph, Graph

\* A good graph is good for larger sets.
LEMMA GoodGrows ==
  ASSUME NEW S, NEW C, NEW S2, NEW C2, S \subseteq S2, C \subseteq C2
  PROVE  \A g : GoodGraph(g, S, C) => GoodGraph(g, S2, C2)
BY DEF GoodGraph

\* The empty graph is good.
LEMMA EmptyGood == \A S, C : GoodGraph(EmptyGraph, S, C)
BY DEF GoodGraph, EmptyGraph, Graph

-----------------------------------------------------------------------------
(* 2. What holds of a transaction or a pair of them keeps holding.         *)

\* The coordinator never loses a start reply.
LEMMA StartedGrows ==
  ASSUME StateOK, prog' = prog,
         \A t \in Txn : chop[t].started \subseteq chop'[t].started
                        /\ chop'[t].started \subseteq prog[t] \cup chop[t].started
  PROVE  StartedTxns \subseteq StartedTxns'
BY DEF StartedTxns

\* An entry keeps its first transaction.
LEMMA ConflictsGrow ==
  ASSUME prog' = prog, \A k \in Key : last[k] # NoTxn => last'[k] = last[k],
         prog \in [Txn -> SUBSET Piece]
  PROVE  Conflicts \subseteq Conflicts'
<1> SUFFICES ASSUME NEW p \in Txn \X Txn, Conflict(p[1], p[2])
             PROVE  Conflict(p[1], p[2])'
  BY DEF Conflicts
<1>1. PICK k \in KeysOf(p[2]) : last[k] = p[1] BY DEF Conflict
<1>2. KeysOf(p[2]) \subseteq Key BY DEF KeysOf, Piece
<1>3. p[1] # NoTxn BY WorkloadAssumption
<1>4. last'[k] = p[1] BY <1>1, <1>2, <1>3
<1>5. k \in KeysOf(p[2])' BY <1>1 DEF KeysOf
<1>6. QED BY <1>4, <1>5 DEF Conflict

\* A step that leaves prog, last and the start replies alone.
LEMMA GoodKept ==
  ASSUME GraphInv, prog' = prog, UNCHANGED last,
         \A t \in Txn : chop'[t].started = chop[t].started
  PROVE  /\ StartedTxns' = StartedTxns
         /\ Conflicts' = Conflicts
         /\ \A g : Good(g) => GoodGraph(g, StartedTxns', Conflicts')
<1>1. StartedTxns' = StartedTxns BY DEF StartedTxns
<1>2. Conflicts' = Conflicts BY DEF Conflicts, Conflict, KeysOf
<1>3. QED BY <1>1, <1>2 DEF Good

-----------------------------------------------------------------------------
(* 3. Messages and callbacks.                                              *)

\* The same start replies.
LEMMA StartedSame ==
  ASSUME prog' = prog, \A u \in Txn : chop'[u].started = chop[u].started
  PROVE  StartedTxns' = StartedTxns
BY DEF StartedTxns

\* Adding a callback to a server.
LEMMA AddCallOK ==
  ASSUME GraphInv, StartedTxns \subseteq StartedTxns', NEW r, NEW d, d.t \in Txn,
         d.op = "ro_reply" => d.to.p \in prog[d.t], prog' = prog,
         d.op = "commit" => d.t \in StartedTxns,
         calls' = [calls EXCEPT ![r] = @ \cup {d}]
  PROVE  CallsOK' /\ DOMAIN calls' = Server /\ calls' = [s \in Server |-> calls'[s]]
BY DEF GraphInv, StateOK, CallsOK

\* Removing one.
LEMMA DropCallOK ==
  ASSUME GraphInv, StartedTxns \subseteq StartedTxns', NEW r, NEW d, prog' = prog,
         calls' = [calls EXCEPT ![r] = @ \ {d}]
  PROVE  CallsOK' /\ DOMAIN calls' = Server /\ calls' = [s \in Server |-> calls'[s]]
BY DEF GraphInv, StateOK, CallsOK

\* send_ask_req adds questions and calls of to_decide only.
LEMMA RunCallOK ==
  ASSUME GraphInv, NEW r \in Server, NEW c, NEW new, NEW S \in SUBSET Txn,
         RunCall(r, c, new, S), prog' = prog, StartedTxns \subseteq StartedTxns',
         \A d \in new : d.t \in Txn /\ d.op # "ro_reply" /\ d.op # "commit"
  PROVE  /\ CallsOK' /\ DOMAIN calls' = Server /\ calls' = [s \in Server |-> calls'[s]]
         /\ AsksOK'
         /\ \A m \in asks' : m.type = "asked" => m \in asks
<1>1. \A d \in DecideCalls(r, S) : d.t \in Txn /\ d.op # "ro_reply" /\ d.op # "commit"
  BY DEF DecideCalls, Call
<1>2. calls' = [calls EXCEPT ![r] = (@ \ {c}) \cup new \cup DecideCalls(r, S)]
  BY DEF RunCall
<1>3. CallsOK' /\ DOMAIN calls' = Server /\ calls' = [s \in Server |-> calls'[s]]
  BY <1>1, <1>2 DEF GraphInv, StateOK, CallsOK
<1>4. \A m \in AskReqs(r, S) : m.t \in Txn /\ m.type = "ask"
  BY DEF AskReqs, AskReq, ToAsk
<1>5. asks' = asks \cup AskReqs(r, S) BY DEF RunCall
<1>6. QED BY <1>3, <1>4, <1>5 DEF GraphInv, AsksOK

-----------------------------------------------------------------------------
(* 4. The actions.                                                         *)

\* rcc_start_pie keeps the invariant.
LEMMA StartPieInv ==
  ASSUME GraphInv, NEW t \in Txn, NEW p \in prog[t], StartPie(t, p)
  PROVE  GraphInv'
<1> DEFINE s == p.srv
           type == IF p.kind = "imm" THEN "I" ELSE "D"
           E == KissEdges(t, p.keys, type)
           g == AddVertex(gra[s], t, s, E)
           h == SubGraph(g, t)
<1>1. /\ prog' = prog /\ calls' = calls /\ asks' = asks
      /\ gra' = [gra EXCEPT ![s] = g] /\ last' = KissLast(t, p.keys)
      /\ OnStarted(t, p, h)
  BY DEF StartPie
<1>2. /\ prog \in [Txn -> SUBSET Piece] /\ gra \in [Server -> Graph]
      /\ last \in [Key -> Txn \cup {NoTxn}] /\ chop \in [Txn -> Chopper]
  BY DEF GraphInv, StateOK
<1>3. p \in Piece /\ s \in Server /\ p.keys \subseteq Key BY <1>2 DEF Piece
<1>4. last' \in [Key -> Txn \cup {NoTxn}] BY <1>1, <1>2 DEF KissLast
<1>5. \A k \in Key : last[k] # NoTxn => last'[k] = last[k] BY <1>1 DEF KissLast
<1>6. Conflicts \subseteq Conflicts' BY <1>1, <1>2, <1>5, ConflictsGrow
<1>7. PICK c : /\ c = [chop[t] EXCEPT !.gra = UnionGraph(@, h),
                             !.got = @ \cup {p}, !.started = @ \cup {p},
                             !.early = @ /\ h.v = {t} /\ ~(p.kind = "def" /\ p.out)]
               /\ chop' = [chop EXCEPT ![t] = c]
  BY <1>1 DEF OnStarted
<1>8. /\ c.gra = UnionGraph(chop[t].gra, h) /\ c.started = chop[t].started \cup {p}
  BY <1>2, <1>7 DEF Chopper
<1>9. \A u \in Txn : /\ chop[u].started \subseteq chop'[u].started
                     /\ chop'[u].started \subseteq prog[u] \cup chop[u].started
  BY <1>2, <1>7, <1>8
<1>10. StartedTxns \subseteq StartedTxns'
  BY <1>1, <1>9, StartedGrows DEF GraphInv
<1>11. \A x : Good(x) => GoodGraph(x, StartedTxns', Conflicts')
  BY <1>6, <1>10, GoodGrows DEF Good
<1>12. E \in SUBSET (Txn \X Txn \X EdgeType)
  <2>1. type \in EdgeType BY DEF EdgeType
  <2>2. QED BY <1>2, <1>3, <2>1 DEF KissEdges
<1>13. \A x \in E : <<x[1], x[2]>> \in Conflicts'
  <2> SUFFICES ASSUME NEW k \in p.keys, last[k] # NoTxn
               PROVE  <<last[k], t>> \in Conflicts'
    BY DEF KissEdges
  <2>1. last'[k] = last[k] /\ last[k] \in Txn BY <1>2, <1>3, <1>5
  <2>2. k \in KeysOf(t)' BY <1>1 DEF KeysOf
  <2>3. QED BY <2>1, <2>2 DEF Conflicts, Conflict
<1>14. GoodGraph(gra[s], StartedTxns', Conflicts') BY <1>3, <1>11 DEF GraphInv, GraphsGood
<1>15. GoodGraph(g, StartedTxns', Conflicts')
  <2> HIDE DEF E
  <2>1. QED BY <1>3, <1>12, <1>13, <1>14, AddVertexGood
<1>16. GoodGraph(h, StartedTxns', Conflicts')
  <2> HIDE DEF g
  <2>1. QED BY <1>15, SubGraphGood
<1>17. GoodGraph(c.gra, StartedTxns', Conflicts')
  <2> HIDE DEF h
  <2>1. GoodGraph(chop[t].gra, StartedTxns', Conflicts') BY <1>11 DEF GraphInv, GraphsGood
  <2>2. QED BY <1>8, <1>16, <2>1, UnionGood
<1>18. c \in Chopper
  <2>1. c.gra \in Graph BY <1>17 DEF GoodGraph
  <2> HIDE DEF h
  <2>2. QED BY <1>2, <1>3, <1>7, <1>8, <2>1 DEF Chopper
<1> HIDE DEF g, h, E
<1>19. StateOK'
  BY <1>1, <1>2, <1>3, <1>4, <1>7, <1>15, <1>18 DEF StateOK, GoodGraph, GraphInv
<1>20. CallsOK' /\ AsksOK' BY <1>1, <1>10 DEF GraphInv, CallsOK, AsksOK
<1>21. GraphsGood'
  <2>1. ASSUME NEW r \in Server PROVE GoodGraph(gra'[r], StartedTxns', Conflicts')
    BY <1>1, <1>2, <1>11, <1>15 DEF GraphInv, GraphsGood
  <2>2. ASSUME NEW u \in Txn PROVE GoodGraph(chop'[u].gra, StartedTxns', Conflicts')
    BY <1>2, <1>7, <1>11, <1>17 DEF GraphInv, GraphsGood
  <2>3. \A m \in asks' : m.type = "asked" => GoodGraph(m.g, StartedTxns', Conflicts')
    BY <1>1, <1>11 DEF GraphInv, GraphsGood
  <2>4. QED BY <2>1, <2>2, <2>3 DEF GraphsGood, Good
<1>22. QED BY <1>19, <1>20, <1>21 DEF GraphInv

\* The parts of the invariant that follow once a step that leaves the columns
\* and the start replies alone has made only good graphs.
LEMMA KeptInv ==
  ASSUME GraphInv, prog' = prog, UNCHANGED last, chop' \in [Txn -> Chopper],
         \A u \in Txn : chop'[u].started = chop[u].started /\ chop'[u].gra = chop[u].gra,
         gra' \in [Server -> Graph], \A r \in Server : Good(gra'[r]),
         CallsOK', DOMAIN calls' = Server /\ calls' = [s \in Server |-> calls'[s]],
         AsksOK', \A m \in asks' : m.type = "asked" => Good(m.g)
  PROVE  GraphInv'
<1>1. \A g : Good(g) => GoodGraph(g, StartedTxns', Conflicts') BY GoodKept
<1>2. GraphsGood' BY <1>1 DEF GraphsGood, Good, GraphInv
<1>3. StateOK' BY DEF StateOK, GraphInv
<1>4. QED BY <1>2, <1>3 DEF GraphInv

\* rcc_ro_start_pie keeps the invariant.
LEMMA StartRoInv ==
  ASSUME GraphInv, NEW t \in Txn, NEW p \in prog[t], StartRo(t, p)
  PROVE  GraphInv'
<1>1. /\ prog' = prog /\ gra' = gra /\ last' = last /\ asks' = asks
      /\ chop' = [chop EXCEPT ![t].got = @ \cup {p}]
  BY DEF StartRo
<1>2. chop \in [Txn -> Chopper] /\ p \in Piece BY DEF GraphInv, StateOK
<1>3. /\ chop' \in [Txn -> Chopper]
      /\ \A u \in Txn : chop'[u].started = chop[u].started /\ chop'[u].gra = chop[u].gra
  BY <1>1, <1>2 DEF Chopper
<1>4. PICK W : calls' = [calls EXCEPT ![p.srv] = @ \cup {Call("ro_reply", t, W, Reader(p))}]
  BY DEF StartRo
<1>5. CallsOK' /\ DOMAIN calls' = Server /\ calls' = [s \in Server |-> calls'[s]]
  <2> DEFINE d == Call("ro_reply", t, W, Reader(p))
  <2>1. d.t = t /\ d.to.p = p /\ d.op = "ro_reply" BY DEF Call, Reader
  <2>2. calls' = [calls EXCEPT ![p.srv] = @ \cup {d}] BY <1>4
  <2> HIDE DEF d
  <2>3. StartedTxns' = StartedTxns BY <1>1, <1>3, StartedSame
  <2>4. QED BY <1>1, <2>1, <2>2, <2>3, AddCallOK
<1>6. QED
  BY <1>1, <1>3, <1>5, KeptInv DEF GraphInv, StateOK, AsksOK, GraphsGood

\* rcc_finish_txn keeps the invariant.
LEMMA FinishTxnInv ==
  ASSUME GraphInv, NEW t \in Txn, NEW s \in Server, FinishTxn(t, s)
  PROVE  GraphInv'
<1> DEFINE g == UnionAtServer(s, gra[s], chop[t].gra)
<1>1. /\ prog' = prog /\ last' = last /\ asks' = asks /\ chop' = chop
      /\ gra' = [gra EXCEPT ![s] = g]
      /\ calls' = [calls EXCEPT ![s] = @ \cup {Call("commit", t, {}, Coordinator)}]
  BY DEF FinishTxn, coordVars, GraphInv, StateOK
<1>2. t \in StartedTxns BY DEF FinishTxn, Started, StartedTxns
<1>3. Good(g) BY UnionAtServerGood DEF Good, GraphInv, GraphsGood
<1> HIDE DEF g
<1>4. gra' \in [Server -> Graph] /\ \A r \in Server : Good(gra'[r])
  BY <1>1, <1>3 DEF GraphInv, StateOK, GraphsGood, Good, GoodGraph
<1>5. CallsOK' /\ DOMAIN calls' = Server /\ calls' = [r \in Server |-> calls'[r]]
  <2> DEFINE d == Call("commit", t, {}, Coordinator)
  <2>1. d.t = t /\ d.op = "commit" BY DEF Call
  <2>2. calls' = [calls EXCEPT ![s] = @ \cup {d}] BY <1>1
  <2> HIDE DEF d
  <2>3. StartedTxns' = StartedTxns BY <1>1, StartedSame
  <2>4. QED BY <1>1, <1>2, <2>1, <2>2, <2>3, AddCallOK
<1>6. QED BY <1>1, <1>4, <1>5, KeptInv DEF GraphInv, StateOK, AsksOK, GraphsGood

\* rcc_ask_txn keeps the invariant.
LEMMA AskTxnInv ==
  ASSUME GraphInv, NEW m \in asks, AskTxn(m)
  PROVE  GraphInv'
<1>1. /\ prog' = prog /\ gra' = gra /\ last' = last /\ chop' = chop
      /\ asks' = asks \ {m}
      /\ calls' = [calls EXCEPT ![m.s] =
                      @ \cup {Call("ask_reply", m.t, {m.t}, Asker(m.from))}]
  BY DEF AskTxn, coordVars
<1>2. CallsOK' /\ DOMAIN calls' = Server /\ calls' = [r \in Server |-> calls'[r]]
  <2> DEFINE d == Call("ask_reply", m.t, {m.t}, Asker(m.from))
  <2>1. d.t = m.t /\ d.op = "ask_reply" BY DEF Call
  <2>2. m.t \in Txn BY DEF GraphInv, AsksOK
  <2>3. calls' = [calls EXCEPT ![m.s] = @ \cup {d}] BY <1>1
  <2> HIDE DEF d
  <2>4. StartedTxns' = StartedTxns BY <1>1, StartedSame
  <2>5. QED BY <1>1, <2>1, <2>2, <2>3, <2>4, AddCallOK
<1>3. QED BY <1>1, <1>2, KeptInv DEF GraphInv, StateOK, AsksOK, GraphsGood

\* the callback of an answer keeps the invariant.
LEMMA AskReplyInv ==
  ASSUME GraphInv, NEW m \in asks, AskReply(m)
  PROVE  GraphInv'
<1>1. /\ prog' = prog /\ last' = last /\ chop' = chop /\ asks' = asks \ {m}
      /\ gra' = [gra EXCEPT ![m.s] = UnionAtServer(m.s, @, m.g)]
      /\ calls' = [calls EXCEPT ![m.s] = @ \cup {Call("to_decide", m.t, {}, Nobody)}]
  BY DEF AskReply, coordVars
<1>2. Good(m.g) BY DEF AskReply, GraphInv, GraphsGood
<1>3. ASSUME NEW r \in Server PROVE Good(UnionAtServer(m.s, gra[r], m.g))
  BY <1>2, UnionAtServerGood DEF Good, GraphInv, GraphsGood
<1>4. gra' \in [Server -> Graph] /\ \A r \in Server : Good(gra'[r])
  <2>1. \A r \in Server : UnionAtServer(m.s, gra[r], m.g) \in Graph
    BY <1>3 DEF Good, GoodGraph
  <2>2. QED BY <1>1, <1>3, <2>1 DEF GraphInv, StateOK, GraphsGood
<1>5. CallsOK' /\ DOMAIN calls' = Server /\ calls' = [r \in Server |-> calls'[r]]
  <2> DEFINE d == Call("to_decide", m.t, {}, Nobody)
  <2>1. d.t = m.t /\ d.op = "to_decide" BY DEF Call
  <2>2. m.t \in Txn BY DEF GraphInv, AsksOK
  <2>3. calls' = [calls EXCEPT ![m.s] = @ \cup {d}] BY <1>1
  <2> HIDE DEF d
  <2>4. StartedTxns' = StartedTxns BY <1>1, StartedSame
  <2>5. QED BY <1>1, <2>1, <2>2, <2>3, <2>4, AddCallOK
<1>6. QED BY <1>1, <1>4, <1>5, KeptInv DEF GraphInv, StateOK, AsksOK, GraphsGood

\* The rest of commit keeps the invariant.
LEMMA CommitInv ==
  ASSUME GraphInv, NEW s \in Server, NEW c \in calls[s], Commit(s, c)
  PROVE  GraphInv'
<1> DEFINE g == [gra[s] EXCEPT !.cmt = @ \cup {c.t}]
           d == Call("to_decide", c.t, {}, c.to)
<1>1. /\ UNCHANGED <<prog, last, asks, chop>> /\ gra' = [gra EXCEPT ![s] = g]
      /\ calls' = [calls EXCEPT ![s] = (@ \ {c}) \cup {d}]
  BY DEF Commit, coordVars, GraphInv, StateOK
<1>2. c.t \in Txn /\ c.t \in StartedTxns BY DEF GraphInv, CallsOK, Commit
<1>3. Good(g)
  <2>1. StartedTxns \subseteq Txn BY DEF StartedTxns
  <2>2. QED BY <1>2, <2>1, CommitGood DEF Good, GraphInv, GraphsGood
<1>4. d.t = c.t /\ d.op = "to_decide" BY DEF Call
<1> HIDE DEF g, d
<1>5. gra' \in [Server -> Graph] /\ \A r \in Server : Good(gra'[r])
  BY <1>1, <1>3 DEF GraphInv, StateOK, GraphsGood, Good, GoodGraph
<1>6. StartedTxns' = StartedTxns BY <1>1, StartedSame
<1>7. CallsOK' /\ DOMAIN calls' = Server /\ calls' = [r \in Server |-> calls'[r]]
  BY <1>1, <1>2, <1>4, <1>6 DEF GraphInv, StateOK, CallsOK
<1>8. QED BY <1>1, <1>5, <1>7, KeptInv DEF GraphInv, StateOK, AsksOK, GraphsGood

\* A callback that leaves the graphs alone.
LEMMA QuietCallInv ==
  ASSUME GraphInv, NEW s \in Server, NEW c, NEW new, NEW S \in SUBSET Txn,
         RunCall(s, c, new, S), prog' = prog, UNCHANGED <<last, gra>>,
         \A d \in new : d.t \in Txn /\ d.op # "ro_reply" /\ d.op # "commit",
         chop' \in [Txn -> Chopper],
         \A u \in Txn : chop'[u].started = chop[u].started /\ chop'[u].gra = chop[u].gra
  PROVE  GraphInv'
<1>1. /\ CallsOK' /\ DOMAIN calls' = Server /\ calls' = [r \in Server |-> calls'[r]]
      /\ AsksOK' /\ \A m \in asks' : m.type = "asked" => m \in asks
  BY RunCallOK, StartedSame
<1>2. QED BY <1>1, KeptInv DEF GraphInv, StateOK, GraphsGood

\* to_decide keeps the invariant.
LEMMA ToDecideInv ==
  ASSUME GraphInv, NEW s \in Server, NEW c \in calls[s], ToDecide(s, c)
  PROVE  GraphInv'
<1>1. UNCHANGED <<prog, gra, last, chop>> BY DEF ToDecide, coordVars
<1>2. c.t \in Txn BY DEF GraphInv, CallsOK
<1>3. chop \in [Txn -> Chopper] BY DEF GraphInv, StateOK
<1>4. CASE c.t \in deciding[s]
  <2>1. RunCall(s, c, {}, {}) BY <1>4 DEF ToDecide
  <2>2. QED BY <1>1, <1>3, <2>1, QuietCallInv
<1>5. CASE c.t \notin deciding[s]
  <2> DEFINE anc == Ancestors(gra[s], c.t)
             d == Call("anc_finish", c.t, anc, c.to)
  <2>1. RunCall(s, c, {d}, anc) BY <1>5 DEF ToDecide
  <2>2. anc \in SUBSET Txn BY DEF Ancestors
  <2>3. d.t \in Txn /\ d.op # "ro_reply" /\ d.op # "commit" BY <1>2 DEF Call
  <2> HIDE DEF anc, d
  <2>4. QED BY <1>1, <1>3, <2>1, <2>2, <2>3, QuietCallInv
<1>6. QED BY <1>4, <1>5

\* anc_finish_cb keeps the invariant.
LEMMA AncFinishInv ==
  ASSUME GraphInv, NEW s \in Server, NEW c \in calls[s], AncFinish(s, c)
  PROVE  GraphInv'
<1> DEFINE scc_anc == SccParents(gra[s], c.t)
           d == Call("scc_commit", c.t, scc_anc, c.to)
<1>1. UNCHANGED <<prog, gra, last, chop>> /\ RunCall(s, c, {d}, scc_anc)
  BY DEF AncFinish, coordVars
<1>2. c.t \in Txn /\ chop \in [Txn -> Chopper] /\ gra[s] \in Graph
  BY DEF GraphInv, CallsOK, StateOK
<1>3. scc_anc \in SUBSET Txn
  <2>1. \A x \in gra[s].e : x[1] \in Txn BY <1>2 DEF Graph
  <2>2. QED BY <2>1 DEF SccParents
<1>4. d.t \in Txn /\ d.op # "ro_reply" /\ d.op # "commit" BY <1>2 DEF Call
<1> HIDE DEF scc_anc, d
<1>5. QED BY <1>1, <1>2, <1>3, <1>4, QuietCallInv

\* The reply to a finish request does not touch what the coordinator has
\* collected.
LEMMA ReplyToOK ==
  ASSUME GraphInv, NEW s \in Server, NEW c \in calls[s], ReplyTo(c, s)
  PROVE  /\ chop' \in [Txn -> Chopper]
         /\ \A u \in Txn : chop'[u].started = chop[u].started /\ chop'[u].gra = chop[u].gra
<1>1. c.t \in Txn /\ chop \in [Txn -> Chopper] BY DEF GraphInv, CallsOK, StateOK
<1>2. CASE c.to = Coordinator
  <2>1. chop' = [chop EXCEPT ![c.t].finished = chop[c.t].finished \cup {s}]
    BY <1>2 DEF ReplyTo, OnFinished
  <2>2. QED BY <1>1, <2>1 DEF Chopper
<1>3. CASE c.to # Coordinator
  <2>1. chop' = chop BY <1>3 DEF ReplyTo, coordVars
  <2>2. QED BY <1>1, <2>1
<1>4. QED BY <1>2, <1>3

\* scc_anc_commit_cb, decided already, keeps the invariant.
LEMMA SccDecidedInv ==
  ASSUME GraphInv, NEW s \in Server, NEW c \in calls[s], SccDecided(s, c)
  PROVE  GraphInv'
<1>1. UNCHANGED <<prog, gra, last>> /\ RunCall(s, c, {}, {}) /\ ReplyTo(c, s)
  BY DEF SccDecided
<1>2. QED BY <1>1, ReplyToOK, QuietCallInv

\* scc_anc_commit_cb, commit, keeps the invariant.
LEMMA SccCommitInv ==
  ASSUME GraphInv, NEW s \in Server, NEW c \in calls[s], SccCommit(s, c)
  PROVE  GraphInv'
<1> DEFINE scc == Scc(gra[s], c.t)
<1>1. UNCHANGED <<prog, last>> /\ RunCall(s, c, {}, {}) /\ ReplyTo(c, s)
  BY DEF SccCommit
<1>2. gra' = [gra EXCEPT ![s].dcd = @ \cup scc] BY DEF SccCommit
<1>3. scc \in SUBSET Txn BY DEF Scc, Descendants
<1> HIDE DEF scc
<1> DEFINE g == [gra[s] EXCEPT !.dcd = @ \cup scc]
<1>4. Good(g) BY <1>3, DecideGood DEF Good, GraphInv, GraphsGood
<1>5. gra' = [gra EXCEPT ![s] = g] BY <1>2 DEF GraphInv, StateOK
<1> HIDE DEF g
<1>6. gra' \in [Server -> Graph] /\ \A r \in Server : Good(gra'[r])
  BY <1>4, <1>5 DEF GraphInv, StateOK, GraphsGood, Good, GoodGraph
<1>7. /\ CallsOK' /\ DOMAIN calls' = Server /\ calls' = [r \in Server |-> calls'[r]]
      /\ AsksOK' /\ \A m \in asks' : m.type = "asked" => m \in asks
  BY <1>1, RunCallOK, ReplyToOK, StartedSame
<1>8. QED BY <1>1, <1>6, <1>7, ReplyToOK, KeptInv DEF GraphInv, GraphsGood

\* the answer of rcc_ask_txn keeps the invariant.
LEMMA SendAnswerInv ==
  ASSUME GraphInv, NEW s \in Server, NEW c \in calls[s], SendAnswer(s, c)
  PROVE  GraphInv'
<1> DEFINE g == SubGraph(gra[s], c.t)
           n == AskRsp(c.t, c.to.s, g)
<1>1. /\ UNCHANGED <<prog, gra, last, chop>> /\ asks' = asks \cup {n}
      /\ calls' = [calls EXCEPT ![s] = @ \ {c}]
  BY DEF SendAnswer, coordVars
<1>2. c.t \in Txn BY DEF GraphInv, CallsOK
<1>3. Good(g) BY <1>2, SubGraphGood DEF Good, GraphInv, GraphsGood
<1>4. n.t = c.t /\ n.g = g BY DEF AskRsp
<1> HIDE DEF g, n
<1>5. AsksOK' /\ \A m \in asks' : m.type = "asked" => Good(m.g)
  BY <1>1, <1>2, <1>3, <1>4 DEF GraphInv, AsksOK, GraphsGood, Good, GoodGraph
<1>6. CallsOK' /\ DOMAIN calls' = Server /\ calls' = [r \in Server |-> calls'[r]]
  BY <1>1, DropCallOK, StartedSame
<1>7. QED BY <1>1, <1>5, <1>6, KeptInv DEF GraphInv, StateOK, GraphsGood

\* the reply of start_ro keeps the invariant.
LEMMA SendReadInv ==
  ASSUME GraphInv, NEW s \in Server, NEW c \in calls[s], SendRead(s, c)
  PROVE  GraphInv'
<1>1. /\ UNCHANGED <<prog, gra, last, asks>> /\ calls' = [calls EXCEPT ![s] = @ \ {c}]
      /\ chop' = [chop EXCEPT ![c.t].started = chop[c.t].started \cup {c.to.p}]
  BY DEF SendRead, OnRead
<1>2. /\ c.t \in Txn /\ c.to.p \in prog[c.t] /\ chop \in [Txn -> Chopper]
      /\ prog \in [Txn -> SUBSET Piece]
  BY DEF GraphInv, CallsOK, StateOK, SendRead
<1>3. /\ chop' \in [Txn -> Chopper]
      /\ \A u \in Txn : /\ chop'[u].gra = chop[u].gra
                        /\ chop[u].started \subseteq chop'[u].started
                        /\ chop'[u].started \subseteq prog[u] \cup chop[u].started
  BY <1>1, <1>2 DEF Chopper
<1>4. StartedTxns \subseteq StartedTxns' BY <1>1, <1>3, StartedGrows DEF GraphInv
<1>5. Conflicts \subseteq Conflicts' BY <1>1, <1>2, ConflictsGrow
<1>6. \A g : Good(g) => GoodGraph(g, StartedTxns', Conflicts')
  BY <1>4, <1>5, GoodGrows DEF Good
<1>7. CallsOK' /\ DOMAIN calls' = Server /\ calls' = [r \in Server |-> calls'[r]]
  BY <1>1, <1>4, DropCallOK
<1>8. StateOK' BY <1>1, <1>3, <1>7 DEF GraphInv, StateOK
<1>9. AsksOK' BY <1>1 DEF GraphInv, AsksOK
<1>10. GraphsGood' BY <1>1, <1>3, <1>6 DEF GraphInv, GraphsGood, Good
<1>11. QED BY <1>7, <1>8, <1>9, <1>10 DEF GraphInv

-----------------------------------------------------------------------------
(* 5. The theorems.                                                        *)

\* The invariant holds initially.
LEMMA GraphInit == Init => GraphInv
<1> SUFFICES ASSUME Init PROVE GraphInv OBVIOUS
<1>1. /\ gra = [s \in Server |-> EmptyGraph] /\ asks = {}
      /\ calls = [s \in Server |-> {}] /\ last = [k \in Key |-> NoTxn]
      /\ chop = [t \in Txn |-> [gra |-> EmptyGraph, got |-> {}, started |-> {},
                                finished |-> {}, early |-> EarlyReturn]]
      /\ prog \in [Txn -> SUBSET Piece]
  BY WorkloadAssumption DEF Init
<1>2. EmptyGraph \in Graph BY EmptyGood DEF GoodGraph
<1>3. \A u \in Txn : chop[u] \in Chopper /\ chop[u].gra = EmptyGraph
  BY <1>1, <1>2, WorkloadAssumption DEF Chopper
<1>4. StateOK BY <1>1, <1>2, <1>3 DEF StateOK
<1>5. CallsOK /\ AsksOK BY <1>1 DEF CallsOK, AsksOK
<1>6. GraphsGood BY <1>1, <1>3, EmptyGood DEF GraphsGood, Good
<1>7. QED BY <1>4, <1>5, <1>6 DEF GraphInv

\* Every step keeps it.
LEMMA GraphStep == GraphInv /\ [Next]_vars => GraphInv'
<1> SUFFICES ASSUME GraphInv, [Next]_vars PROVE GraphInv' OBVIOUS
<1>1. ASSUME NEW t \in Txn, Request(t) PROVE GraphInv'
  BY <1>1, StartPieInv, StartRoInv, FinishTxnInv DEF Request
<1>2. ASSUME Ask PROVE GraphInv'
  BY <1>2, AskTxnInv, AskReplyInv DEF Ask
<1>3. ASSUME NEW s \in Server, Callback(s) PROVE GraphInv'
  <2>1. PICK c \in calls[s] :
          \/ Commit(s, c) \/ ToDecide(s, c) \/ AncFinish(s, c)
          \/ SccDecided(s, c) \/ SccCommit(s, c) \/ SccAbort(s, c)
          \/ SendAnswer(s, c) \/ SendRead(s, c)
    BY <1>3 DEF Callback
  <2>2. CASE SccAbort(s, c)
    <3>1. UNCHANGED <<prog, gra, last, calls, chop, asks>>
      BY <2>2 DEF SccAbort, coordVars
    <3>2. StartedTxns' = StartedTxns BY <3>1, StartedSame
    <3>3. QED BY <3>1, <3>2, KeptInv DEF GraphInv, StateOK, CallsOK, AsksOK, GraphsGood
  <2>3. QED
    BY <2>1, <2>2, CommitInv, ToDecideInv, AncFinishInv, SccDecidedInv, SccCommitInv,
       SendAnswerInv, SendReadInv
<1>4. CASE UNCHANGED vars
  <2>1. UNCHANGED <<prog, gra, last, calls, chop, asks>>
    BY <1>4 DEF vars, serverVars, coordVars
  <2>2. StartedTxns' = StartedTxns BY <2>1, StartedSame
  <2>3. QED BY <2>1, <2>2, KeptInv DEF GraphInv, StateOK, CallsOK, AsksOK, GraphsGood
<1>5. QED BY <1>1, <1>2, <1>3, <1>4 DEF Next

\* The inductive invariant of the graphs.
THEOREM GraphInvariance == Spec => []GraphInv
<1>1. QED BY GraphInit, GraphStep, PTL DEF Spec

\* send_ask_req and anc_finish_cb rely on it: wherever a transaction is called
\* committing, its coordinator has all the replies to rcc_start_pie, so that
\* no server will still add an edge into it.
THEOREM CommittingIsStartedAlways == Spec => []CommittingIsStarted
<1>1. GraphInv => CommittingIsStarted
  BY DEF GraphInv, GraphsGood, Good, GoodGraph, StartedTxns, CommittingIsStarted
<1>2. QED BY <1>1, GraphInvariance, PTL

\* kiss is the only source of edges: whatever union_graph, sub_txn_graph and
\* rcc_ask_txn carry around, an edge leads from the transaction in the entry
\* of a column to one that touches the column.
THEOREM EdgesAreConflictsAlways == Spec => []EdgesAreConflicts
<1>1. GraphInv => EdgesAreConflicts
  BY DEF GraphInv, GraphsGood, Good, GoodGraph, Conflicts, EdgesAreConflicts
<1>2. QED BY <1>1, GraphInvariance, PTL

-----------------------------------------------------------------------------
(* 6. sorted_scc.  Its loop is a recursive function; that it is well       *)
(* defined, and what it returns, is shown by induction over sets of        *)
(* naturals.                                                               *)

\* Induction over the naturals, for a set.
LEMMA SetInduction ==
  ASSUME NEW S, 0 \in S, \A n \in Nat : n \in S => n + 1 \in S
  PROVE  Nat \subseteq S
<1> DEFINE T == Nat \ S
<1> SUFFICES ASSUME T # {} PROVE FALSE OBVIOUS
<1>1. T \subseteq Nat OBVIOUS
<1>2. PICK x \in T : \A y \in T : ~(<<y, x>> \in OpToRel(<, Nat))
  <2> HIDE DEF T
  <2> QED BY <1>1, NatLessThanWellFounded, WFMin
<1>3. \A y \in T : ~(y < x) BY <1>1, <1>2 DEF OpToRel
<1>4. x # 0 /\ x \in Nat OBVIOUS
<1>5. x - 1 \in Nat /\ x - 1 < x /\ (x - 1) + 1 = x BY <1>4
<1>6. x - 1 \notin T BY <1>3, <1>5
<1> QED BY <1>5, <1>6

\* A function can be iterated.
LEMMA Iterates ==
  ASSUME NEW X, NEW x0 \in X, NEW F \in [X -> X]
  PROVE  \E f \in [Nat -> X] : f[0] = x0 /\ \A n \in Nat : f[n + 1] = F[f[n]]
<1> DEFINE A(n) == {a \in [0..n -> X] : a[0] = x0 /\ \A m \in 0..(n - 1) : a[m + 1] = F[a[m]]}
           E == {n \in Nat : A(n) # {}}
           Same == {n \in Nat : \A i, j \in Nat : n <= i /\ n <= j =>
                        \A a \in A(i), b \in A(j) : a[n] = b[n]}
<1>1. Nat \subseteq E
  <2>1. 0 \in E
    <3>1. [i \in 0..0 |-> x0] \in A(0) OBVIOUS
    <3> QED BY <3>1
  <2>2. ASSUME NEW n \in Nat, n \in E PROVE n + 1 \in E
    <3>1. PICK a : a \in A(n) BY <2>2
    <3> DEFINE b == [i \in 0..(n + 1) |-> IF i <= n THEN a[i] ELSE F[a[n]]]
    <3>2. a \in [0..n -> X] /\ a[0] = x0 /\ \A m \in 0..(n - 1) : a[m + 1] = F[a[m]] BY <3>1
    <3>3. b \in [0..(n + 1) -> X] BY <3>2
    <3>4. b[0] = x0 BY <3>2
    <3>5. ASSUME NEW m \in 0..n PROVE b[m + 1] = F[b[m]]
      <4>1. CASE m = n BY <4>1
      <4>2. CASE m # n
        <5>1. m \in 0..(n - 1) /\ m + 1 <= n /\ m <= n /\ m + 1 \in 0..(n + 1) BY <4>2
        <5>2. b[m + 1] = a[m + 1] /\ b[m] = a[m] BY <5>1
        <5> QED BY <3>2, <5>1, <5>2
      <4> QED BY <4>1, <4>2
    <3>6. (n + 1) - 1 = n OBVIOUS
    <3> HIDE DEF b
    <3>7. b \in A(n + 1) BY <3>3, <3>4, <3>5, <3>6
    <3> QED BY <3>7
  <2> HIDE DEF E
  <2> QED BY <2>1, <2>2, SetInduction
<1>2. Nat \subseteq Same
  <2>1. 0 \in Same OBVIOUS
  <2>2. ASSUME NEW n \in Nat, n \in Same PROVE n + 1 \in Same
    <3> SUFFICES ASSUME NEW i \in Nat, NEW j \in Nat, n + 1 <= i, n + 1 <= j,
                        NEW a \in A(i), NEW b \in A(j)
                 PROVE  a[n + 1] = b[n + 1]
      <4> HIDE DEF A
      <4> QED OBVIOUS
    <3>1. a[n] = b[n]
      <4>1. n <= i /\ n <= j OBVIOUS
      <4> HIDE DEF A
      <4> QED BY <2>2, <4>1
    <3>2. n \in 0..(i - 1) /\ n \in 0..(j - 1) OBVIOUS
    <3> QED BY <3>1, <3>2
  <2> HIDE DEF Same
  <2> QED BY <2>1, <2>2, SetInduction
<1> DEFINE h(n) == (CHOOSE a : a \in A(n))[n]
           f == [n \in Nat |-> h(n)]
<1>3. ASSUME NEW n \in Nat PROVE \E a : a \in A(n) /\ h(n) = a[n]
  <2>1. \E a : a \in A(n) BY <1>1
  <2> QED BY <2>1
<1> HIDE DEF h
<1>4. ASSUME NEW n \in Nat PROVE h(n) \in X
  <2>1. PICK a : a \in A(n) /\ h(n) = a[n] BY <1>3
  <2>2. n \in 0..n OBVIOUS
  <2> QED BY <2>1, <2>2
<1>5. h(0) = x0
  <2>1. PICK a : a \in A(0) /\ h(0) = a[0] BY <1>3
  <2> QED BY <2>1
<1>6. ASSUME NEW n \in Nat PROVE h(n + 1) = F[h(n)]
  <2>1. PICK a : a \in A(n) /\ h(n) = a[n] BY <1>3
  <2>2. n + 1 \in Nat OBVIOUS
  <2>3. PICK b : b \in A(n + 1) /\ h(n + 1) = b[n + 1] BY <1>3, <2>2
  <2>4. a[n] = b[n]
    <3>1. n <= n /\ n <= n + 1 OBVIOUS
    <3> HIDE DEF A
    <3> QED BY <1>2, <2>1, <2>2, <2>3, <3>1
  <2>5. n \in 0..((n + 1) - 1) OBVIOUS
  <2>6. b[n + 1] = F[b[n]] BY <2>3, <2>5
  <2> QED BY <2>1, <2>3, <2>4, <2>6
<1> HIDE DEF A
<1>7. f \in [Nat -> X] BY <1>4
<1>8. f[0] = x0 /\ \A n \in Nat : f[n + 1] = F[f[n]] BY <1>5, <1>6
<1> HIDE DEF f
<1> QED BY <1>7, <1>8

\* sort_vv: every rank is taken once.
LEMMA AscendingFacts ==
  ASSUME NEW S \in SUBSET Nat, IsFiniteSet(S)
  PROVE  /\ Cardinality(S) \in Nat
         /\ Ascending(S) \in [1..Cardinality(S) -> S]
         /\ \A i, j \in 1..Cardinality(S) : Ascending(S)[i] = Ascending(S)[j] => i = j
<1> DEFINE n == Cardinality(S)
           Below(t) == {u \in S : u < t}
           asc(i) == CHOOSE u \in S : Cardinality(Below(u)) = i - 1
           rank == [t \in S |-> Cardinality(Below(t)) + 1]
<1>1. n \in Nat BY FS_CardinalityType
<1>2. ASSUME NEW t \in S
      PROVE  IsFiniteSet(Below(t)) /\ Cardinality(Below(t)) \in Nat /\ Cardinality(Below(t)) < n
  <2>1. Below(t) \in SUBSET S /\ t \notin Below(t) OBVIOUS
  <2>2. IsFiniteSet(Below(t)) /\ Cardinality(Below(t)) <= n /\ (n = Cardinality(Below(t)) => S = Below(t))
    BY <2>1, FS_Subset
  <2>3. Cardinality(Below(t)) \in Nat BY <2>2, FS_CardinalityType
  <2> QED BY <1>1, <2>1, <2>2, <2>3
<1>3. rank \in [S -> 1..n]
  <2> HIDE DEF n, Below
  <2> QED BY <1>1, <1>2
<1>4. ASSUME NEW t \in S, NEW u \in S, t < u PROVE rank[t] < rank[u]
  <2>1. Below(t) \in SUBSET Below(u) /\ t \in Below(u) /\ t \notin Below(t)
    <3>1. t \in Nat /\ u \in Nat /\ \A x \in S : x \in Nat OBVIOUS
    <3>2. ~(t < t) /\ \A x \in S : x < t => x < u BY <1>4, <3>1
    <3> QED BY <1>4, <3>2
  <2>2. Cardinality(Below(t)) <= Cardinality(Below(u))
        /\ (Cardinality(Below(u)) = Cardinality(Below(t)) => Below(u) = Below(t))
    BY <1>2, <2>1, FS_Subset
  <2> HIDE DEF Below
  <2> QED BY <1>2, <2>1, <2>2
<1>5. ASSUME NEW t \in S, NEW u \in S, rank[t] = rank[u] PROVE t = u
  <2>1. rank[t] \in Nat /\ rank[u] \in Nat BY <1>3
  <2> HIDE DEF rank
  <2> QED BY <1>4, <1>5, <2>1
<1>6. rank \in Injection(S, 1..n)
  <2> HIDE DEF rank
  <2> QED BY <1>3, <1>5 DEF Injection, IsInjective
<1>7. IsFiniteSet(1..n) /\ Cardinality(1..n) = n
  <2> HIDE DEF n
  <2> QED BY <1>1, FS_Interval
<1>8. rank \in Surjection(S, 1..n)
  <2> HIDE DEF rank
  <2> QED BY <1>6, <1>7, FS_Injection
<1>9. ASSUME NEW i \in 1..n PROVE \E t \in S : rank[t] = i
  <2> HIDE DEF rank
  <2> QED BY <1>8 DEF Surjection
<1>10. ASSUME NEW i \in 1..n
       PROVE  asc(i) \in S /\ Cardinality(Below(asc(i))) = i - 1
  <2>1. PICK t \in S : rank[t] = i BY <1>9
  <2>2. Cardinality(Below(t)) = i - 1
    <3>1. rank[t] = Cardinality(Below(t)) + 1 OBVIOUS
    <3> HIDE DEF rank, Below
    <3> QED BY <1>2, <2>1, <3>1
  <2> HIDE DEF Below
  <2> QED BY <2>2
<1>11. Ascending(S) = [i \in 1..n |-> asc(i)] BY DEF Ascending
<1> HIDE DEF Below, asc
<1>12. ASSUME NEW i \in 1..n, NEW j \in 1..n, asc(i) = asc(j) PROVE i = j
  <2>1. i - 1 = j - 1 BY <1>10, <1>12
  <2> QED BY <1>1, <2>1
<1>13. [i \in 1..n |-> asc(i)] \in [1..n -> S] BY <1>10
<1> HIDE DEF n
<1>14. /\ Ascending(S) \in [1..n -> S]
       /\ \A i, j \in 1..n : Ascending(S)[i] = Ascending(S)[j] => i = j
  BY <1>11, <1>12, <1>13
<1> QED BY <1>1, <1>14 DEF n

\* Different positions of a sequence hold different elements.
Distinct(q) == \A i, j \in 1..Len(q) : q[i] = q[j] => i = j

Elems(q) == {q[i] : i \in 1..Len(q)}

\* Two sequences of different elements that share none, one after the other.
LEMMA ConcatDistinct ==
  ASSUME NEW S, NEW a \in Seq(S), NEW b \in Seq(S), Distinct(a), Distinct(b),
         Elems(a) \cap Elems(b) = {}
  PROVE  a \o b \in Seq(S) /\ Distinct(a \o b) /\ Elems(a \o b) = Elems(a) \cup Elems(b)
<1> DEFINE c == a \o b
<1>1. /\ c \in Seq(S) /\ Len(c) = Len(a) + Len(b) /\ Len(a) \in Nat /\ Len(b) \in Nat
      /\ \A i \in 1..Len(c) : c[i] = IF i <= Len(a) THEN a[i] ELSE b[i - Len(a)]
  OBVIOUS
<1>2. \A i \in 1..Len(a) : i \in 1..Len(c) /\ c[i] = a[i] BY <1>1
<1>3. \A i \in 1..Len(b) : Len(a) + i \in 1..Len(c) /\ c[Len(a) + i] = b[i]
  <2> SUFFICES ASSUME NEW i \in 1..Len(b)
               PROVE  Len(a) + i \in 1..Len(c) /\ c[Len(a) + i] = b[i]
    OBVIOUS
  <2>1. Len(a) + i \in 1..Len(c) /\ ~(Len(a) + i <= Len(a)) /\ (Len(a) + i) - Len(a) = i BY <1>1
  <2> QED BY <1>1, <2>1
<1>4. ASSUME NEW i \in 1..Len(c)
      PROVE  \/ i \in 1..Len(a) /\ c[i] = a[i]
             \/ i - Len(a) \in 1..Len(b) /\ c[i] = b[i - Len(a)] /\ ~(i <= Len(a))
  BY <1>1
<1> HIDE DEF c
<1>5. ASSUME NEW i \in 1..Len(c), NEW j \in 1..Len(c), c[i] = c[j] PROVE i = j
  <2>1. CASE i \in 1..Len(a) /\ c[i] = a[i] /\ j \in 1..Len(a) /\ c[j] = a[j]
    BY <1>5, <2>1 DEF Distinct
  <2>2. CASE /\ i - Len(a) \in 1..Len(b) /\ c[i] = b[i - Len(a)]
             /\ j - Len(a) \in 1..Len(b) /\ c[j] = b[j - Len(a)]
    <3>1. i - Len(a) = j - Len(a) BY <1>5, <2>2 DEF Distinct
    <3> QED BY <1>1, <3>1
  <2>3. CASE i \in 1..Len(a) /\ c[i] = a[i] /\ j - Len(a) \in 1..Len(b) /\ c[j] = b[j - Len(a)]
    BY <1>5, <2>3 DEF Elems
  <2>4. CASE j \in 1..Len(a) /\ c[j] = a[j] /\ i - Len(a) \in 1..Len(b) /\ c[i] = b[i - Len(a)]
    BY <1>5, <2>4 DEF Elems
  <2> QED BY <1>4, <2>1, <2>2, <2>3, <2>4
<1>6. Elems(c) = Elems(a) \cup Elems(b)
  <2>1. Elems(c) \subseteq Elems(a) \cup Elems(b) BY <1>4 DEF Elems
  <2>2. Elems(a) \subseteq Elems(c) BY <1>2 DEF Elems
  <2>3. Elems(b) \subseteq Elems(c) BY <1>3 DEF Elems
  <2> QED BY <2>1, <2>2, <2>3
<1>7. Distinct(c) BY <1>5 DEF Distinct
<1> QED BY <1>1, <1>6, <1>7 DEF c

\* An element that is not in a sequence, appended to it.
LEMMA AppendDistinct ==
  ASSUME NEW S, NEW o \in Seq(S), Distinct(o), NEW t \in S, t \notin Elems(o)
  PROVE  Append(o, t) \in Seq(S) /\ Distinct(Append(o, t)) /\ Elems(Append(o, t)) = Elems(o) \cup {t}
<1> DEFINE o2 == Append(o, t)
<1>1. /\ o2 \in Seq(S) /\ Len(o2) = Len(o) + 1 /\ o2[Len(o) + 1] = t /\ Len(o) \in Nat
      /\ \A i \in 1..Len(o) : o2[i] = o[i]
  OBVIOUS
<1>2. \A i \in 1..Len(o2) : (i \in 1..Len(o) /\ o2[i] = o[i]) \/ (i = Len(o) + 1 /\ o2[i] = t)
  BY <1>1
<1>3. 1..Len(o) \subseteq 1..Len(o2) /\ Len(o) + 1 \in 1..Len(o2) BY <1>1
<1> HIDE DEF o2
<1>4. Elems(o2) = Elems(o) \cup {t}
  <2>1. Elems(o2) \subseteq Elems(o) \cup {t} BY <1>2 DEF Elems
  <2>2. Elems(o) \subseteq Elems(o2) BY <1>1, <1>3 DEF Elems
  <2>3. t \in Elems(o2) BY <1>1, <1>3 DEF Elems
  <2> QED BY <2>1, <2>2, <2>3
<1>5. Distinct(o2)
  <2> SUFFICES ASSUME NEW i \in 1..Len(o2), NEW j \in 1..Len(o2), o2[i] = o2[j] PROVE i = j
    BY DEF Distinct
  <2>1. \A h \in 1..Len(o) : o[h] # t BY DEF Elems
  <2> QED BY <1>2, <2>1 DEF Distinct
<1> QED BY <1>1, <1>4, <1>5 DEF o2

\* sort_vv lists the set, each member once.
LEMMA AscendingSeq ==
  ASSUME NEW S \in SUBSET Nat, IsFiniteSet(S), NEW T, S \subseteq T
  PROVE  Ascending(S) \in Seq(T) /\ Distinct(Ascending(S)) /\ Elems(Ascending(S)) = S
<1>1. PICK a, n : a = Ascending(S) /\ n = Cardinality(S) OBVIOUS
<1>2. n \in Nat /\ a \in [1..n -> S] /\ \A i, j \in 1..n : a[i] = a[j] => i = j
  BY <1>1, AscendingFacts
<1>3. a \in Seq(T) /\ Len(a) = n
  <2>1. a \in [1..n -> T] BY <1>2
  <2> QED BY <1>2, <2>1
<1>4. a \in Surjection(1..n, S)
  <2>1. Cardinality(1..n) = n BY <1>2, FS_Interval
  <2>2. a \in Injection(1..n, S) BY <1>2 DEF Injection, IsInjective
  <2>3. Cardinality(1..n) = Cardinality(S) BY <1>1, <2>1
  <2>4. Cardinality(1..n) = Cardinality(S) <=> a \in Surjection(1..n, S)
    <3> PICK D : D = 1..n OBVIOUS
    <3>1. a \in Injection(D, S) BY <2>2
    <3>2. Cardinality(D) = Cardinality(S) <=> a \in Surjection(D, S) BY <3>1, FS_Injection
    <3> QED BY <3>2
  <2> QED BY <2>3, <2>4
<1>5. \A t \in S : \E i \in 1..n : a[i] = t BY <1>4 DEF Surjection
<1>6. Elems(a) = S
  <2>1. Elems(a) = {a[i] : i \in 1..n} BY <1>3 DEF Elems
  <2>2. \A i \in 1..n : a[i] \in S BY <1>2
  <2> QED BY <1>5, <2>1, <2>2
<1> QED BY <1>1, <1>2, <1>3, <1>6 DEF Distinct

\* The loop of sorted_scc: what is in the result and on the stack is in the
\* component, each member once; a member with a parent in the component is
\* there only once all its parents are in the result, and then it is there.
SortInv(g, scc, p) ==
    /\ p \in [stack : Seq(scc), out : Seq(scc)]
    /\ Distinct(p.stack) /\ Distinct(p.out) /\ Elems(p.stack) \cap Elems(p.out) = {}
    /\ \A c \in Elems(p.stack) \cup Elems(p.out) :
           c \in SccRoots(g, scc) \/ IParents(g, c) \subseteq Elems(p.out)
    /\ \A c \in scc : IParents(g, c) \subseteq Elems(p.out) =>
                         c \in Elems(p.stack) \cup Elems(p.out)

\* After n turns there are n members in the result, or the loop has ended.
Turns(p, n) == Len(p.out) = n \/ Len(p.stack) = 0

\* A turn of the loop keeps that: no member is pushed twice, because the one
\* that pushes it is the last of its parents, and that one pushes it.
LEMMA SortTurnInv ==
  ASSUME NEW g, NEW scc \in SUBSET Nat, IsFiniteSet(scc), NEW p, SortInv(g, scc, p)
  PROVE  /\ SortInv(g, scc, SortTurn(g, scc, p))
         /\ \A n \in Nat : Turns(p, n) => Turns(SortTurn(g, scc, p), n + 1)
<1> PICK st, o : st = p.stack /\ o = p.out OBVIOUS
<1> DEFINE k == Len(st)
           t == st[k]
           o2 == Append(o, t)
           R == ReadyChildren(g, scc, t, Elems(o2))
           pre == SubSeq(st, 1, k - 1)
           st2 == pre \o Ascending(R)
<1>1. /\ st \in Seq(scc) /\ o \in Seq(scc) /\ Distinct(st) /\ Distinct(o)
      /\ Elems(st) \cap Elems(o) = {}
      /\ \A c \in Elems(st) \cup Elems(o) : c \in SccRoots(g, scc) \/ IParents(g, c) \subseteq Elems(o)
      /\ \A c \in scc : IParents(g, c) \subseteq Elems(o) => c \in Elems(st) \cup Elems(o)
  BY DEF SortInv
<1>2. CASE k = 0
  <2>2. SortTurn(g, scc, p) = p BY <1>2 DEF SortTurn
  <2> QED BY <1>2, <2>2 DEF Turns
<1>3. CASE k # 0
  <2>2. SortTurn(g, scc, p) = [stack |-> st2, out |-> o2] BY <1>3 DEF SortTurn, Elems
  <2>3. k \in Nat /\ k >= 1 /\ k \in 1..k BY <1>1, <1>3
  <2>4. t \in scc /\ t \in Elems(st) /\ t \notin Elems(o)
    <3>1. t \in scc BY <1>1, <2>3
    <3>2. t \in Elems(st) BY <2>3 DEF Elems
    <3> QED BY <1>1, <3>1, <3>2
  <2>5. o2 \in Seq(scc) /\ Distinct(o2) /\ Elems(o2) = Elems(o) \cup {t} /\ Len(o2) = Len(o) + 1
    <3> HIDE DEF t
    <3> QED BY <1>1, <2>4, AppendDistinct
  <2>6. /\ pre \in Seq(scc) /\ Len(pre) = k - 1
        /\ \A i \in 1..(k - 1) : pre[i] = st[i] /\ i \in 1..k
    BY <1>1, <2>3
  <2>7. /\ Distinct(pre) /\ Elems(pre) \subseteq Elems(st) /\ t \notin Elems(pre)
        /\ Elems(st) \subseteq Elems(pre) \cup {t}
    <3> HIDE DEF pre
    <3>1. Distinct(pre) BY <1>1, <2>6 DEF Distinct
    <3>2. Elems(pre) \subseteq Elems(st) BY <2>6 DEF Elems
    <3>3. t \notin Elems(pre)
      <4> SUFFICES ASSUME NEW i \in 1..(k - 1), pre[i] = t PROVE FALSE
        BY <2>6 DEF Elems
      <4>1. st[i] = st[k] /\ i \in 1..k BY <2>6
      <4>2. i = k BY <1>1, <2>3, <4>1 DEF Distinct
      <4> QED BY <2>3, <4>2
    <3>4. Elems(st) \subseteq Elems(pre) \cup {t}
      <4> SUFFICES ASSUME NEW i \in 1..k PROVE st[i] \in Elems(pre) \cup {t} BY DEF Elems
      <4>1. CASE i = k BY <4>1
      <4>2. CASE i # k
        <5>1. i \in 1..(k - 1) BY <2>3, <4>2
        <5> QED BY <2>6, <5>1 DEF Elems
      <4> QED BY <4>1, <4>2
    <3> QED BY <3>1, <3>2, <3>3, <3>4
  <2> HIDE DEF o2, pre, t, k
  <2>8. R \subseteq scc /\ \A c \in R : t \in IParents(g, c) /\ IParents(g, c) \subseteq Elems(o2)
    BY DEF ReadyChildren, IChildren, IParents
  <2>9. \A c \in scc : t \in IParents(g, c) /\ IParents(g, c) \subseteq Elems(o2) => c \in R
    BY DEF ReadyChildren, IChildren, IParents
  <2>10. R \cap (Elems(st) \cup Elems(o)) = {}
    <3> SUFFICES ASSUME NEW c \in R, c \in Elems(st) \cup Elems(o) PROVE FALSE
      OBVIOUS
    <3>1. c \notin SccRoots(g, scc) BY <2>4, <2>8 DEF SccRoots
    <3>2. t \in Elems(o) BY <1>1, <2>8, <3>1
    <3> QED BY <2>4, <3>2
  <2> HIDE DEF R
  <2>11. R \in SUBSET Nat /\ IsFiniteSet(R) BY <2>8, FS_Subset
  <2>12. Ascending(R) \in Seq(scc) /\ Distinct(Ascending(R)) /\ Elems(Ascending(R)) = R
    BY <2>8, <2>11, AscendingSeq
  <2>13. /\ st2 \in Seq(scc) /\ Distinct(st2) /\ Elems(st2) = Elems(pre) \cup Elems(Ascending(R))
    <3>1. Elems(pre) \cap Elems(Ascending(R)) = {} BY <2>7, <2>10, <2>12
    <3> QED BY <2>6, <2>7, <2>12, <3>1, ConcatDistinct
  <2> HIDE DEF st2
  <2>14. Elems(st2) \cap Elems(o2) = {}
    <3>1. t \notin R BY <2>4, <2>10
    <3> QED BY <1>1, <2>5, <2>7, <2>10, <2>12, <2>13, <3>1
  <2>15. ASSUME NEW c \in Elems(st2) \cup Elems(o2)
         PROVE  c \in SccRoots(g, scc) \/ IParents(g, c) \subseteq Elems(o2)
    <3>1. CASE c \in R BY <2>8, <3>1
    <3>2. CASE c \in Elems(st) \cup Elems(o) BY <1>1, <2>5, <3>2
    <3>3. c \in R \cup Elems(st) \cup Elems(o) BY <2>4, <2>5, <2>7, <2>12, <2>13, <2>15
    <3> QED BY <3>1, <3>2, <3>3
  <2>16. ASSUME NEW c \in scc, IParents(g, c) \subseteq Elems(o2)
         PROVE  c \in Elems(st2) \cup Elems(o2)
    <3>1. CASE t \in IParents(g, c) BY <2>12, <2>13, <2>9, <2>16, <3>1
    <3>2. CASE t \notin IParents(g, c)
      <4>1. IParents(g, c) \subseteq Elems(o) BY <2>5, <2>16, <3>2
      <4>2. c \in Elems(st) \cup Elems(o) BY <1>1, <4>1
      <4> QED BY <2>5, <2>7, <2>13, <4>2
    <3> QED BY <3>1, <3>2
  <2>17. [stack |-> st2, out |-> o2] \in [stack : Seq(scc), out : Seq(scc)] BY <2>5, <2>13
  <2> PICK q : q = [stack |-> st2, out |-> o2] OBVIOUS
  <2>18. q.stack = st2 /\ q.out = o2 /\ SortTurn(g, scc, p) = q BY <2>2
  <2>19. ASSUME NEW n \in Nat, Turns(p, n) PROVE Turns(q, n + 1)
    <3>1. Len(o) = n BY <1>3, <2>19 DEF Turns, k
    <3> QED BY <2>5, <2>18, <3>1 DEF Turns
  <2>20. SortInv(g, scc, q) BY <2>5, <2>13, <2>14, <2>15, <2>17, <2>18, <2>16 DEF SortInv
  <2> QED BY <2>18, <2>19, <2>20
<1> QED BY <1>2, <1>3

\* sorted_scc returns different members of the component; if it misses some,
\* then each of those has a parent that is not in the result.
LEMMA SortedDistinct ==
  ASSUME NEW g, NEW scc \in SUBSET Nat, IsFiniteSet(scc)
  PROVE  /\ SortedScc(g, scc) \in Seq(scc) /\ Distinct(SortedScc(g, scc))
         /\ \/ Len(SortedScc(g, scc)) = Cardinality(scc)
            \/ \A c \in scc : IParents(g, c) \subseteq Elems(SortedScc(g, scc))
                                => c \in Elems(SortedScc(g, scc))
<1> DEFINE up == Ascending(SccRoots(g, scc))
           start == [stack |-> [i \in 1..Len(up) |-> up[Len(up) + 1 - i]], out |-> <<>>]
           pass[n \in Nat] ==
             IF n = 0 THEN start
             ELSE CHOOSE q \in {SortTurn(g, scc, p) : p \in {pass[n - 1]}} : TRUE
           X == {p \in [stack : Seq(scc), out : Seq(scc)] : SortInv(g, scc, p)}
           F == [p \in X |-> SortTurn(g, scc, p)]
           Step(f) == [n \in Nat |-> IF n = 0 THEN start
                        ELSE CHOOSE q \in {SortTurn(g, scc, p) : p \in {f[n - 1]}} : TRUE]
<1>1. SortedScc(g, scc) = pass[Cardinality(scc)].out BY DEF SortedScc
<1>2. pass = CHOOSE f : f = Step(f) BY DEF pass
<1>3. start \in X
  <2>1. SccRoots(g, scc) \in SUBSET scc BY DEF SccRoots
  <2>2. IsFiniteSet(SccRoots(g, scc)) BY <2>1, FS_Subset
  <2>3. up \in Seq(scc) /\ Distinct(up) /\ Elems(up) = SccRoots(g, scc)
    BY <2>1, <2>2, AscendingSeq
  <2> HIDE DEF up
  <2> PICK n : n = Len(up) OBVIOUS
  <2> DEFINE back == [i \in 1..n |-> up[n + 1 - i]]
  <2>4. n \in Nat /\ \A i \in 1..n : n + 1 - i \in 1..n /\ up[n + 1 - i] \in scc BY <2>3
  <2>5. back \in Seq(scc) /\ Len(back) = n
    <3>1. back \in [1..n -> scc] BY <2>4
    <3> HIDE DEF back
    <3> QED BY <2>4, <3>1
  <2>6. Elems(back) = SccRoots(g, scc) /\ Distinct(back)
    <3>1. Elems(back) = Elems(up)
      <4>1. Elems(back) \subseteq Elems(up) BY <2>4, <2>5 DEF Elems
      <4>2. \A i \in 1..n : n + 1 - (n + 1 - i) = i BY <2>4
      <4>3. Elems(up) \subseteq Elems(back) BY <2>4, <2>5, <4>2 DEF Elems
      <4> QED BY <4>1, <4>3
    <3>2. ASSUME NEW i \in 1..n, NEW j \in 1..n, back[i] = back[j] PROVE i = j
      <4>1. up[n + 1 - i] = up[n + 1 - j] BY <3>2
      <4>2. n + 1 - i = n + 1 - j BY <2>3, <2>4, <4>1 DEF Distinct
      <4> QED BY <2>4, <4>2
    <3> HIDE DEF back
    <3> QED BY <2>3, <2>5, <3>1, <3>2 DEF Distinct
  <2>7. start.stack = back /\ start.out = <<>> /\ start = [stack |-> back, out |-> <<>>] OBVIOUS
  <2> HIDE DEF back, start
  <2>8. <<>> \in Seq(scc) /\ Elems(<<>>) = {} /\ Distinct(<<>>) BY DEF Elems, Distinct
  <2>9. start \in [stack : Seq(scc), out : Seq(scc)] BY <2>5, <2>7, <2>8
  <2>10. Elems(start.stack) = SccRoots(g, scc) /\ Elems(start.out) = {}
    BY <2>6, <2>7, <2>8
  <2>11. Distinct(start.stack) /\ Distinct(start.out) BY <2>6, <2>7, <2>8
  <2>12. \A c \in scc : IParents(g, c) \subseteq {} => c \in SccRoots(g, scc) BY DEF SccRoots
  <2> QED BY <2>9, <2>10, <2>11, <2>12 DEF SortInv
<1>4. ASSUME NEW p \in X
      PROVE  /\ SortTurn(g, scc, p) \in X
             /\ \A n \in Nat : Turns(p, n) => Turns(SortTurn(g, scc, p), n + 1)
  <2>1. SortInv(g, scc, p) OBVIOUS
  <2>2. /\ SortInv(g, scc, SortTurn(g, scc, p))
        /\ \A n \in Nat : Turns(p, n) => Turns(SortTurn(g, scc, p), n + 1)
    BY <2>1, SortTurnInv
  <2> QED BY <2>2 DEF SortInv
<1>5. Turns(start, 0) BY DEF Turns
<1> HIDE DEF X, start
<1>6. F \in [X -> X] BY <1>4
<1>7. PICK f \in [Nat -> X] : f[0] = start /\ \A n \in Nat : f[n + 1] = F[f[n]]
  <2> HIDE DEF F
  <2> QED BY <1>3, <1>6, Iterates
<1>8. ASSUME NEW n \in Nat, n # 0
      PROVE  f[n] = CHOOSE q \in {SortTurn(g, scc, p) : p \in {f[n - 1]}} : TRUE
  <2>1. n - 1 \in Nat /\ (n - 1) + 1 = n BY <1>8
  <2>2. f[n] = F[f[n - 1]] /\ f[n - 1] \in X BY <1>7, <2>1
  <2>3. f[n] = SortTurn(g, scc, f[n - 1]) BY <2>2
  <2>4. {SortTurn(g, scc, p) : p \in {f[n - 1]}} = {SortTurn(g, scc, f[n - 1])} OBVIOUS
  <2> QED BY <2>3, <2>4
<1>9. f = Step(f) BY <1>7, <1>8
<1>10. pass = Step(pass) BY <1>2, <1>9
<1> HIDE DEF pass
<1>11. pass[0] = start BY <1>10
<1>12. ASSUME NEW n \in Nat PROVE pass[n + 1] = SortTurn(g, scc, pass[n])
  <2>1. n + 1 \in Nat /\ n + 1 # 0 /\ (n + 1) - 1 = n OBVIOUS
  <2>2. pass[n + 1] = CHOOSE q \in {SortTurn(g, scc, p) : p \in {pass[(n + 1) - 1]}} : TRUE
    BY <1>10, <2>1
  <2>3. {SortTurn(g, scc, p) : p \in {pass[n]}} = {SortTurn(g, scc, pass[n])} OBVIOUS
  <2> QED BY <2>1, <2>2, <2>3
<1> DEFINE T == {n \in Nat : pass[n] \in X /\ Turns(pass[n], n)}
<1>13. 0 \in T BY <1>3, <1>11, <1>5
<1>14. ASSUME NEW n \in Nat, n \in T PROVE n + 1 \in T BY <1>4, <1>12, <1>14
<1>15. Nat \subseteq T
  <2> HIDE DEF T
  <2> QED BY <1>13, <1>14, SetInduction
<1>16. PICK n, q : n = Cardinality(scc) /\ q = pass[n] OBVIOUS
<1>17. q \in X /\ Turns(q, n)
  <2>1. n \in Nat BY <1>16, FS_CardinalityType
  <2> QED BY <1>15, <1>16, <2>1
<1>18. SortedScc(g, scc) = q.out BY <1>1, <1>16
<1>19. SortInv(g, scc, q) BY <1>17 DEF X
<1>20. q.out \in Seq(scc) /\ Distinct(q.out) BY <1>19 DEF SortInv
<1>21. ASSUME Len(q.out) # n, NEW c \in scc, IParents(g, c) \subseteq Elems(q.out)
       PROVE  c \in Elems(q.out)
  <2>1. Elems(q.stack) = {}
    <3>1. Len(q.stack) = 0 BY <1>17, <1>21 DEF Turns
    <3> QED BY <3>1 DEF Elems
  <2> QED BY <1>19, <1>21, <2>1 DEF SortInv
<1> QED BY <1>16, <1>18, <1>20, <1>21

-----------------------------------------------------------------------------
(* 7. What is executed.                                                    *)

\* The part of TypeOK that GraphInv does not say.
Rest ==
    /\ prog \in Workloads
    /\ res \in [Server -> SUBSET Txn]
    /\ deciding \in [Server -> SUBSET Txn]
    /\ asking \in [Server -> SUBSET Txn]
    /\ down \subseteq Server
    /\ log \in [Key -> Seq(Txn)]
    /\ answered \subseteq Txn
    /\ prec \in [Txn -> SUBSET Txn]
    /\ seen \in [Txn -> [Key -> SUBSET Txn]]

\* A transaction executed on a column has an immediate piece there that was
\* requested, or a deferred one at a server that has decided it.
Accounted(t, k) ==
    \/ \E p \in prog[t] : p.kind = "imm" /\ k \in p.keys /\ p \in chop[t].got
    \/ \E s \in Server : k \in DeferredKeys(t, s) /\ t \in gra[s].dcd

LogInv ==
    SeparatePieces => \A k \in Key :
        Distinct(log[k]) /\ \A t \in Elems(log[k]) : Accounted(t, k)

ExecInv == GraphInv /\ Rest /\ LogInv

\* What was requested and what was decided only grows.
Grows ==
    /\ prog' = prog
    /\ \A t \in Txn : chop[t].got \subseteq chop'[t].got
    /\ \A s \in Server : gra[s].dcd \subseteq gra'[s].dcd

\* So a transaction stays accounted for.
LEMMA AccountedKept ==
  ASSUME Grows, NEW t \in Txn, NEW k, Accounted(t, k)
  PROVE  Accounted(t, k)'
<1>1. prog' = prog /\ chop[t].got \subseteq chop'[t].got BY DEF Grows
<1>2. \A s \in Server : DeferredKeys(t, s)' = DeferredKeys(t, s) BY <1>1 DEF DeferredKeys
<1>3. CASE \E p \in prog[t] : p.kind = "imm" /\ k \in p.keys /\ p \in chop[t].got
  BY <1>1, <1>3 DEF Accounted
<1>4. CASE \E s \in Server : k \in DeferredKeys(t, s) /\ t \in gra[s].dcd
  BY <1>2, <1>4 DEF Accounted, Grows
<1> QED BY <1>3, <1>4 DEF Accounted

\* A step that executes nothing.
LEMMA LogKept ==
  ASSUME ExecInv, Grows, UNCHANGED log
  PROVE  LogInv'
<1> SUFFICES ASSUME SeparatePieces, NEW k \in Key, NEW t \in Elems(log[k])
             PROVE  Accounted(t, k)'
  BY DEF LogInv, ExecInv
<1>1. t \in Txn BY DEF ExecInv, Rest, Elems
<1> QED BY <1>1, AccountedKept DEF ExecInv, LogInv

\* send_ask_req is asked about transactions.
LEMMA RunCallRest ==
  ASSUME asking \in [Server -> SUBSET Txn], NEW s, NEW c, NEW new, NEW S \in SUBSET Txn,
         RunCall(s, c, new, S)
  PROVE  asking' \in [Server -> SUBSET Txn]
<1>1. ToAsk(s, S) \in SUBSET Txn BY DEF ToAsk
<1>2. asking' = [asking EXCEPT ![s] = @ \cup ToAsk(s, S)] BY DEF RunCall
<1> HIDE DEF ToAsk
<1> QED BY <1>1, <1>2

\* The reply to a finish request answers the client or not.
LEMMA ReplyToRest ==
  ASSUME GraphInv, answered \subseteq Txn, NEW s \in Server, NEW c \in calls[s], ReplyTo(c, s)
  PROVE  answered' \subseteq Txn /\ \A u \in Txn : chop'[u].got = chop[u].got
<1>1. c.t \in Txn /\ chop \in [Txn -> Chopper] BY DEF GraphInv, CallsOK, StateOK
<1>2. CASE c.to = Coordinator
  <2>1. chop' = [chop EXCEPT ![c.t].finished = chop[c.t].finished \cup {s}]
    BY <1>2 DEF ReplyTo, OnFinished
  <2>2. answered' \in {answered, answered \cup {c.t}} BY <1>2 DEF ReplyTo, OnFinished
  <2> QED BY <1>1, <2>1, <2>2 DEF Chopper
<1>3. CASE c.to # Coordinator
  <2>1. chop' = chop /\ answered' = answered BY <1>3 DEF ReplyTo, coordVars
  <2> QED BY <2>1
<1> QED BY <1>2, <1>3

\* rcc_start_pie executes an immediate piece, once.
LEMMA StartPieExec ==
  ASSUME ExecInv, GraphInv', NEW t \in Txn, NEW p \in prog[t], StartPie(t, p)
  PROVE  ExecInv' /\ Grows
<1> PICK s, h, E : /\ s = p.srv
                   /\ E = KissEdges(t, p.keys, IF p.kind = "imm" THEN "I" ELSE "D")
                   /\ h = SubGraph(AddVertex(gra[s], t, s, E), t)
  OBVIOUS
<1>1. /\ UNCHANGED <<prog, res, deciding, asking, down, seen>>
      /\ gra' = [gra EXCEPT ![s] = AddVertex(gra[s], t, s, E)]
      /\ log' = [k \in Key |-> IF p.kind = "imm" /\ k \in p.keys
                               THEN Append(log[k], t) ELSE log[k]]
      /\ OnStarted(t, p, h)
      /\ Began(t, p)
  BY DEF StartPie
<1>2. /\ prog \in [Txn -> SUBSET Piece] /\ gra \in [Server -> Graph] /\ chop \in [Txn -> Chopper]
      /\ log \in [Key -> Seq(Txn)] /\ answered \subseteq Txn /\ prec \in [Txn -> SUBSET Txn]
  BY DEF ExecInv, GraphInv, StateOK, Rest
<1>3. /\ p \notin chop[t].got
      /\ prec' = IF chop[t].got = {} THEN [prec EXCEPT ![t] = answered] ELSE prec
  BY <1>1 DEF Began
<1>4. PICK c : /\ c = [chop[t] EXCEPT !.gra = UnionGraph(@, h),
                             !.got = @ \cup {p}, !.started = @ \cup {p},
                             !.early = @ /\ h.v = {t} /\ ~(p.kind = "def" /\ p.out)]
               /\ chop' = [chop EXCEPT ![t] = c]
               /\ answered' \in {answered, answered \cup {t}}
  BY <1>1 DEF OnStarted
<1>5. c.got = chop[t].got \cup {p} BY <1>2, <1>4 DEF Chopper
<1>6. Grows
  <2>1. \A u \in Txn : chop[u].got \subseteq chop'[u].got BY <1>2, <1>4, <1>5
  <2>2. \A r \in Server : gra[r].dcd \subseteq gra'[r].dcd
    BY <1>1, <1>2 DEF AddVertex, UnionGraph
  <2> QED BY <1>1, <2>1, <2>2 DEF Grows
<1>7. Rest'
  <2>1. log' \in [Key -> Seq(Txn)]
    <3>1. \A k \in Key : log[k] \in Seq(Txn) /\ Append(log[k], t) \in Seq(Txn) BY <1>2
    <3> QED BY <1>1, <3>1
  <2>2. answered' \subseteq Txn BY <1>2, <1>4
  <2>3. prec' \in [Txn -> SUBSET Txn] BY <1>2, <1>3
  <2> QED BY <1>1, <2>1, <2>2, <2>3 DEF ExecInv, Rest
<1>8. ASSUME SeparatePieces, NEW k \in Key
      PROVE  Distinct(log'[k]) /\ \A u \in Elems(log'[k]) : Accounted(u, k)'
  <2> PICK q : q = log[k] OBVIOUS
  <2>1. q \in Seq(Txn) /\ Distinct(q) /\ \A u \in Elems(q) : u \in Txn /\ Accounted(u, k)
    BY <1>2, <1>8 DEF ExecInv, LogInv, Elems
  <2>2. \A u \in Elems(q) : Accounted(u, k)' BY <1>6, <2>1, AccountedKept
  <2>3. CASE ~(p.kind = "imm" /\ k \in p.keys)
    <3>1. log'[k] = q BY <1>1, <2>3
    <3> QED BY <2>1, <2>2, <3>1
  <2>4. CASE p.kind = "imm" /\ k \in p.keys
    <3>1. log'[k] = Append(q, t) BY <1>1, <2>4
    <3>2. \A x \in prog[t] : k \in x.keys => x = p
      BY <1>8, <2>4 DEF SeparatePieces, ExecInv, Rest
    <3>3. t \notin Elems(q)
      <4> SUFFICES ASSUME Accounted(t, k) PROVE FALSE BY <2>1
      <4>1. CASE \E x \in prog[t] : x.kind = "imm" /\ k \in x.keys /\ x \in chop[t].got
        BY <1>3, <3>2, <4>1
      <4>2. CASE \E r \in Server : k \in DeferredKeys(t, r)
        BY <2>4, <3>2, <4>2 DEF DeferredKeys
      <4> QED BY <4>1, <4>2 DEF Accounted
    <3>4. p \in prog'[t] /\ p \in chop'[t].got BY <1>1, <1>2, <1>4, <1>5
    <3>5. Accounted(t, k)' BY <2>4, <3>4 DEF Accounted
    <3>6. Distinct(Append(q, t)) /\ Elems(Append(q, t)) = Elems(q) \cup {t}
      BY <2>1, <3>3, AppendDistinct
    <3> QED BY <2>2, <3>1, <3>5, <3>6
  <2> QED BY <2>3, <2>4
<1> QED BY <1>6, <1>7, <1>8 DEF ExecInv, LogInv

\* What exe_deferred executes on a column: different members of the component,
\* each with a deferred piece there, its finish request come and not decided.
LEMMA ExecutesDistinct ==
  ASSUME NEW s, NEW k, NEW order \in Seq(Txn), Distinct(order)
  PROVE  /\ Executes(s, order, k) \in Seq(Txn)
         /\ Distinct(Executes(s, order, k))
         /\ \A t \in Elems(Executes(s, order, k)) :
                t \in Elems(order) /\ t \notin gra[s].dcd /\ k \in DeferredKeys(t, s)
<1> DEFINE I == {i \in 1..Len(order) : order[i] \in res[s] \ gra[s].dcd
                                      /\ k \in DeferredKeys(order[i], s)}
           turns == Ascending(I)
           x == [j \in 1..Len(turns) |-> order[turns[j]]]
<1>1. Executes(s, order, k) = x BY DEF Executes
<1>2. /\ I \subseteq 1..Len(order)
      /\ \A i \in I : /\ order[i] \in Txn /\ order[i] \in Elems(order)
                     /\ order[i] \notin gra[s].dcd /\ k \in DeferredKeys(order[i], s)
  BY DEF Elems
<1>3. Len(order) \in Nat OBVIOUS
<1> HIDE DEF I
<1>4. I \in SUBSET Nat /\ IsFiniteSet(I)
  <2>1. IsFiniteSet(1..Len(order)) BY <1>3, FS_Interval
  <2> QED BY <1>2, <1>3, <2>1, FS_Subset
<1>5. turns \in Seq(I) /\ Distinct(turns) BY <1>4, AscendingSeq
<1> HIDE DEF turns
<1>6. Len(turns) \in Nat /\ \A j \in 1..Len(turns) : turns[j] \in I BY <1>5
<1>7. x \in Seq(Txn) /\ Len(x) = Len(turns)
  <2>1. x \in [1..Len(turns) -> Txn] BY <1>2, <1>6
  <2> HIDE DEF x
  <2> QED BY <1>6, <2>1
<1>8. Distinct(x)
  <2> SUFFICES ASSUME NEW i \in 1..Len(turns), NEW j \in 1..Len(turns), x[i] = x[j] PROVE i = j
    BY <1>7 DEF Distinct
  <2>1. order[turns[i]] = order[turns[j]] OBVIOUS
  <2>2. turns[i] = turns[j] BY <1>2, <1>6, <2>1 DEF Distinct
  <2> QED BY <1>5, <2>2 DEF Distinct
<1>9. ASSUME NEW t \in Elems(x)
      PROVE  t \in Elems(order) /\ t \notin gra[s].dcd /\ k \in DeferredKeys(t, s)
  <2>1. PICK j \in 1..Len(turns) : t = x[j] BY <1>7 DEF Elems
  <2>2. t = order[turns[j]] /\ turns[j] \in I BY <1>6, <2>1
  <2> QED BY <1>2, <2>2
<1> QED BY <1>1, <1>7, <1>8, <1>9

\* scc_anc_commit_cb executes what has not been executed.
LEMMA SccCommitExec ==
  ASSUME ExecInv, GraphInv', IsFiniteSet(Txn),
         NEW s \in Server, NEW c \in calls[s], SccCommit(s, c)
  PROVE  ExecInv' /\ Grows
<1> PICK scc, order : scc = Scc(gra[s], c.t) /\ order = SortedScc(gra[s], scc) OBVIOUS
<1>1. /\ UNCHANGED <<prog, res, deciding, down, prec, seen>>
      /\ log' = [k \in Key |-> log[k] \o Executes(s, order, k)]
      /\ gra' = [gra EXCEPT ![s].dcd = @ \cup scc]
      /\ RunCall(s, c, {}, {}) /\ ReplyTo(c, s)
  BY DEF SccCommit
<1>2. /\ gra \in [Server -> Graph] /\ log \in [Key -> Seq(Txn)] /\ answered \subseteq Txn
      /\ asking \in [Server -> SUBSET Txn] /\ prog \in Workloads
  BY DEF ExecInv, GraphInv, StateOK, Rest
<1>3. scc \in SUBSET Txn /\ scc \in SUBSET Nat /\ IsFiniteSet(scc)
  <2>1. scc \in SUBSET Txn BY DEF Scc, Descendants
  <2> QED BY <2>1, IdAssumption, FS_Subset
<1>4. order \in Seq(scc) /\ Distinct(order) BY <1>3, SortedDistinct
<1>5. order \in Seq(Txn) /\ Elems(order) \subseteq scc
  <2>1. order \in [1..Len(order) -> scc] /\ Len(order) \in Nat BY <1>4
  <2>2. order \in [1..Len(order) -> Txn] BY <1>3, <2>1
  <2> QED BY <2>1, <2>2 DEF Elems
<1>6. answered' \subseteq Txn /\ \A u \in Txn : chop'[u].got = chop[u].got
  BY <1>1, <1>2, ReplyToRest DEF ExecInv
<1>7. gra'[s].dcd = gra[s].dcd \cup scc /\ \A r \in Server : gra[r].dcd \subseteq gra'[r].dcd
  BY <1>1, <1>2 DEF Graph
<1>8. Grows BY <1>1, <1>6, <1>7 DEF Grows
<1>9. asking' \in [Server -> SUBSET Txn] BY <1>1, <1>2, RunCallRest
<1>10. ASSUME SeparatePieces, NEW k \in Key
       PROVE  Distinct(log'[k]) /\ \A u \in Elems(log'[k]) : Accounted(u, k)'
  <2> PICK q, x : q = log[k] /\ x = Executes(s, order, k) OBVIOUS
  <2>1. log'[k] = q \o x BY <1>1
  <2>2. q \in Seq(Txn) /\ Distinct(q) /\ \A u \in Elems(q) : u \in Txn /\ Accounted(u, k)
    BY <1>2, <1>10 DEF ExecInv, LogInv, Elems
  <2>3. /\ x \in Seq(Txn) /\ Distinct(x)
        /\ \A u \in Elems(x) : u \in Elems(order) /\ u \notin gra[s].dcd /\ k \in DeferredKeys(u, s)
    BY <1>4, <1>5, ExecutesDistinct
  <2>4. Elems(q) \cap Elems(x) = {}
    <3> SUFFICES ASSUME NEW u \in Elems(q), u \in Elems(x) PROVE FALSE OBVIOUS
    <3>1. u \in Txn /\ Accounted(u, k) /\ u \notin gra[s].dcd BY <2>2, <2>3
    <3>2. PICK d \in prog[u] : d.srv = s /\ d.kind = "def" /\ k \in d.keys
      BY <2>3 DEF DeferredKeys
    <3>3. \A y \in prog[u] : k \in y.keys => y = d BY <1>2, <1>10, <3>1, <3>2 DEF SeparatePieces
    <3>4. CASE \E y \in prog[u] : y.kind = "imm" /\ k \in y.keys BY <3>2, <3>3, <3>4
    <3>5. CASE \E r \in Server : k \in DeferredKeys(u, r) /\ u \in gra[r].dcd
      <4>1. PICK r \in Server : k \in DeferredKeys(u, r) /\ u \in gra[r].dcd BY <3>5
      <4>2. PICK y \in prog[u] : y.srv = r /\ k \in y.keys BY <4>1 DEF DeferredKeys
      <4> QED BY <3>1, <3>2, <3>3, <4>1, <4>2
    <3> QED BY <3>1, <3>4, <3>5 DEF Accounted
  <2>5. q \o x \in Seq(Txn) /\ Distinct(q \o x) /\ Elems(q \o x) = Elems(q) \cup Elems(x)
    BY <2>2, <2>3, <2>4, ConcatDistinct
  <2>6. \A u \in Elems(q) : Accounted(u, k)' BY <1>8, <2>2, AccountedKept
  <2>7. ASSUME NEW u \in Elems(x) PROVE Accounted(u, k)'
    <3>1. u \in gra'[s].dcd BY <1>5, <1>7, <2>3
    <3>2. k \in DeferredKeys(u, s)' BY <1>1, <2>3 DEF DeferredKeys
    <3> QED BY <3>1, <3>2 DEF Accounted
  <2> QED BY <2>1, <2>5, <2>6, <2>7
<1>11. log' \in [Key -> Seq(Txn)]
  <2> SUFFICES ASSUME NEW k \in Key PROVE log[k] \o Executes(s, order, k) \in Seq(Txn)
    BY <1>1
  <2>1. Executes(s, order, k) \in Seq(Txn) BY <1>4, <1>5, ExecutesDistinct
  <2> QED BY <1>2, <2>1
<1>12. Rest' BY <1>1, <1>6, <1>9, <1>11 DEF ExecInv, Rest
<1> QED BY <1>8, <1>10, <1>12 DEF ExecInv, LogInv

\* A request other than rcc_start_pie executes nothing.
LEMMA RequestExec ==
  ASSUME ExecInv, GraphInv', NEW t \in Txn,
         (\E p \in prog[t] : StartRo(t, p)) \/ (\E s \in Server : FinishTxn(t, s))
  PROVE  ExecInv' /\ Grows
<1>1. /\ gra \in [Server -> Graph] /\ chop \in [Txn -> Chopper] /\ answered \subseteq Txn
      /\ log \in [Key -> Seq(Txn)] /\ prec \in [Txn -> SUBSET Txn]
      /\ seen \in [Txn -> [Key -> SUBSET Txn]] /\ res \in [Server -> SUBSET Txn]
  BY DEF ExecInv, GraphInv, StateOK, Rest
<1>2. ASSUME NEW p \in prog[t], StartRo(t, p) PROVE ExecInv' /\ Grows
  <2>1. /\ UNCHANGED <<prog, gra, res, deciding, asking, down, log, answered>>
        /\ chop' = [chop EXCEPT ![t].got = @ \cup {p}]
        /\ seen' = [seen EXCEPT ![t] = [k \in Key |->
                      IF k \in p.keys THEN {log[k][i] : i \in 1..Len(log[k])} ELSE @[k]]]
        /\ prec' = IF chop[t].got = {} THEN [prec EXCEPT ![t] = answered] ELSE prec
    BY <1>2 DEF StartRo, Began
  <2>2. Grows BY <1>1, <2>1 DEF Grows, Chopper
  <2>3. prec' \in [Txn -> SUBSET Txn] BY <1>1, <2>1
  <2>4. seen' \in [Txn -> [Key -> SUBSET Txn]]
    <3>1. \A k \in Key : {log[k][i] : i \in 1..Len(log[k])} \in SUBSET Txn BY <1>1
    <3>2. [k \in Key |-> IF k \in p.keys THEN {log[k][i] : i \in 1..Len(log[k])}
                                          ELSE seen[t][k]] \in [Key -> SUBSET Txn]
      BY <1>1, <3>1
    <3> QED BY <1>1, <2>1, <3>2
  <2>5. Rest' BY <2>1, <2>3, <2>4 DEF ExecInv, Rest
  <2> QED BY <2>1, <2>2, <2>5, LogKept DEF ExecInv
<1>3. ASSUME NEW s \in Server, FinishTxn(t, s) PROVE ExecInv' /\ Grows
  <2> PICK g : g = UnionAtServer(s, gra[s], chop[t].gra) OBVIOUS
  <2>1. /\ UNCHANGED <<prog, res, deciding, asking, down, log, chop, answered, prec, seen>>
        /\ gra' = [gra EXCEPT ![s] = g]
    BY <1>3 DEF FinishTxn, coordVars
  <2>2. gra[s].dcd \subseteq g.dcd BY DEF UnionAtServer, UnionGraph
  <2>3. Grows BY <1>1, <2>1, <2>2 DEF Grows
  <2>4. Rest' BY <2>1 DEF ExecInv, Rest
  <2> QED BY <2>1, <2>3, <2>4, LogKept DEF ExecInv
<1> QED BY <1>2, <1>3

\* Neither does rcc_ask_txn or the callback of its answer.
LEMMA AskExec ==
  ASSUME ExecInv, GraphInv', Ask
  PROVE  ExecInv' /\ Grows
<1>1. PICK m \in asks : AskTxn(m) \/ AskReply(m) BY DEF Ask
<1>2. UNCHANGED <<prog, res, deciding, asking, down, log, chop, answered, prec, seen>>
  BY <1>1 DEF AskTxn, AskReply, coordVars
<1>3. gra \in [Server -> Graph] BY DEF ExecInv, GraphInv, StateOK
<1>4. \A r \in Server : gra[r].dcd \subseteq gra'[r].dcd
  <2>1. CASE gra' = gra BY <2>1
  <2>2. CASE gra' = [gra EXCEPT ![m.s] = UnionAtServer(m.s, @, m.g)]
    BY <1>3, <2>2 DEF UnionAtServer, UnionGraph
  <2> QED BY <1>1, <2>1, <2>2 DEF AskTxn, AskReply
<1>5. Grows BY <1>2, <1>4 DEF Grows
<1>6. Rest' BY <1>2 DEF ExecInv, Rest
<1> QED BY <1>2, <1>5, <1>6, LogKept DEF ExecInv

\* Nor the rest of commit, which only makes the transaction committing.
LEMMA CommitExec ==
  ASSUME ExecInv, GraphInv', NEW s \in Server, NEW c \in calls[s], Commit(s, c)
  PROVE  ExecInv' /\ Grows
<1>1. /\ c.t \in Txn /\ gra \in [Server -> Graph] /\ res \in [Server -> SUBSET Txn]
  BY DEF ExecInv, GraphInv, StateOK, CallsOK, Rest
<1>2. /\ UNCHANGED <<prog, deciding, asking, down, log, chop, answered, prec, seen>>
      /\ gra' = [gra EXCEPT ![s].cmt = @ \cup {c.t}]
      /\ res' = [res EXCEPT ![s] = @ \cup {c.t}]
  BY DEF Commit, coordVars
<1>3. \A r \in Server : gra'[r].dcd = gra[r].dcd BY <1>1, <1>2 DEF Graph
<1>4. Grows BY <1>2, <1>3 DEF Grows
<1>5. Rest' BY <1>1, <1>2 DEF ExecInv, Rest
<1> QED BY <1>2, <1>4, <1>5, LogKept DEF ExecInv

\* Nor a callback other than the commit of a component.
LEMMA CallbackExec ==
  ASSUME ExecInv, GraphInv', NEW s \in Server, NEW c \in calls[s],
         \/ ToDecide(s, c) \/ AncFinish(s, c) \/ SccDecided(s, c)
         \/ SccAbort(s, c) \/ SendAnswer(s, c) \/ SendRead(s, c)
  PROVE  ExecInv' /\ Grows
<1>1. /\ c.t \in Txn /\ gra \in [Server -> Graph] /\ chop \in [Txn -> Chopper]
      /\ asking \in [Server -> SUBSET Txn] /\ deciding \in [Server -> SUBSET Txn]
      /\ answered \subseteq Txn /\ down \subseteq Server
  BY DEF ExecInv, GraphInv, StateOK, CallsOK, Rest
<1>2. UNCHANGED <<prog, gra, res, log, prec, seen>>
  BY DEF ToDecide, AncFinish, SccDecided, SccAbort, SendAnswer, SendRead
<1>3. /\ deciding' \in [Server -> SUBSET Txn] /\ asking' \in [Server -> SUBSET Txn]
      /\ down' \subseteq Server /\ answered' \subseteq Txn
      /\ \A u \in Txn : chop'[u].got = chop[u].got
  <2>1. CASE ToDecide(s, c)
    <3>1. UNCHANGED <<down, answered, chop>> BY <2>1 DEF ToDecide, coordVars
    <3>2. deciding' \in [Server -> SUBSET Txn] BY <1>1, <2>1 DEF ToDecide
    <3>3. \E new : \E S \in SUBSET Txn : RunCall(s, c, new, S)
      <4>1. Ancestors(gra[s], c.t) \in SUBSET Txn BY DEF Ancestors
      <4>2. CASE c.t \in deciding[s] BY <2>1, <4>2 DEF ToDecide
      <4>3. CASE c.t \notin deciding[s] BY <2>1, <4>1, <4>3 DEF ToDecide
      <4> QED BY <4>2, <4>3
    <3> QED BY <1>1, <3>1, <3>2, <3>3, RunCallRest
  <2>2. CASE AncFinish(s, c)
    <3>1. UNCHANGED <<deciding, down, answered, chop>> BY <2>2 DEF AncFinish, coordVars
    <3>2. \E new : RunCall(s, c, new, SccParents(gra[s], c.t)) BY <2>2 DEF AncFinish
    <3>3. SccParents(gra[s], c.t) \in SUBSET Txn
      <4>1. \A x \in gra[s].e : x[1] \in Txn BY <1>1 DEF Graph
      <4> QED BY <4>1 DEF SccParents
    <3> QED BY <1>1, <3>1, <3>2, <3>3, RunCallRest
  <2>3. CASE SccDecided(s, c)
    <3>1. UNCHANGED <<deciding, down>> /\ RunCall(s, c, {}, {}) /\ ReplyTo(c, s)
      BY <2>3 DEF SccDecided
    <3>2. asking' \in [Server -> SUBSET Txn] BY <1>1, <3>1, RunCallRest
    <3>3. answered' \subseteq Txn /\ \A u \in Txn : chop'[u].got = chop[u].got
      BY <1>1, <3>1, ReplyToRest DEF ExecInv
    <3> QED BY <1>1, <3>1, <3>2, <3>3
  <2>4. CASE SccAbort(s, c)
    <3>1. UNCHANGED <<deciding, asking, chop, answered>> /\ down' = down \cup {s}
      BY <2>4 DEF SccAbort, coordVars
    <3> QED BY <1>1, <3>1
  <2>5. CASE SendAnswer(s, c)
    <3>1. UNCHANGED <<deciding, asking, down, chop, answered>> BY <2>5 DEF SendAnswer, coordVars
    <3> QED BY <1>1, <3>1
  <2>6. CASE SendRead(s, c)
    <3>1. /\ UNCHANGED <<deciding, asking, down>>
          /\ chop' = [chop EXCEPT ![c.t].started = chop[c.t].started \cup {c.to.p}]
          /\ answered' \in {answered, answered \cup {c.t}}
      BY <2>6 DEF SendRead, OnRead
    <3> QED BY <1>1, <3>1 DEF Chopper
  <2> QED BY <2>1, <2>2, <2>3, <2>4, <2>5, <2>6
<1>4. Grows BY <1>2, <1>3 DEF Grows
<1>5. Rest' BY <1>2, <1>3 DEF ExecInv, Rest
<1> QED BY <1>2, <1>4, <1>5, LogKept DEF ExecInv

\* The invariant holds initially.
LEMMA ExecInit == Init => ExecInv
<1> SUFFICES ASSUME Init PROVE ExecInv OBVIOUS
<1>1. GraphInv BY GraphInit
<1>2. Rest
  <2>1. <<>> \in Seq(Txn) OBVIOUS
  <2> QED BY <2>1 DEF Init, Rest
<1>3. \A k \in Key : log[k] = <<>> BY DEF Init
<1>4. Elems(<<>>) = {} /\ Distinct(<<>>) BY DEF Elems, Distinct
<1>5. LogInv BY <1>3, <1>4 DEF LogInv
<1> QED BY <1>1, <1>2, <1>5 DEF ExecInv

\* Every step keeps it.
LEMMA ExecStep ==
  ASSUME IsFiniteSet(Txn), ExecInv, [Next]_vars
  PROVE  ExecInv' /\ Grows
<1>1. GraphInv' BY GraphStep DEF ExecInv
<1>2. ASSUME NEW t \in Txn, Request(t) PROVE ExecInv' /\ Grows
  BY <1>1, <1>2, StartPieExec, RequestExec DEF Request
<1>3. ASSUME Ask PROVE ExecInv' /\ Grows BY <1>1, <1>3, AskExec
<1>4. ASSUME NEW s \in Server, Callback(s) PROVE ExecInv' /\ Grows
  BY <1>1, <1>4, CommitExec, SccCommitExec, CallbackExec DEF Callback
<1>5. CASE UNCHANGED vars
  <2>1. UNCHANGED <<prog, gra, res, deciding, asking, down, log, chop, answered, prec, seen>>
    BY <1>5 DEF vars, serverVars, coordVars
  <2>2. Grows BY <2>1 DEF Grows
  <2>3. Rest' BY <2>1 DEF ExecInv, Rest
  <2> QED BY <1>1, <2>1, <2>2, <2>3, LogKept DEF ExecInv
<1> QED BY <1>2, <1>3, <1>4, <1>5 DEF Next

\* The variables keep their types and, if the pieces of a transaction touch
\* different columns, whatever has been executed on a column is accounted for
\* by an immediate piece that was requested or by a deferred one that is
\* decided, and no transaction is there twice.
THEOREM ExecInvariance ==
  ASSUME IsFiniteSet(Txn)
  PROVE  Spec => []ExecInv
<1>1. ExecInv /\ [Next]_vars => ExecInv' BY ExecStep
<1> QED BY <1>1, ExecInit, PTL DEF Spec

\* All variables keep their types; for log this needs that the loop of
\* sorted_scc, a recursive function, returns members of the component.
THEOREM RococoTypeCorrect ==
  ASSUME IsFiniteSet(Txn)
  PROVE  Spec => []TypeOK
<1>1. ExecInv => TypeOK
  BY DEF ExecInv, GraphInv, StateOK, Rest, TypeOK, Chopper
<1> QED BY <1>1, ExecInvariance, PTL

\* start, and scc_anc_commit_cb by whichever of the paths to a decision comes
\* first, execute the pieces of a transaction once: exe_deferred passes over
\* what is decided, and sorted_scc lists no member of the component twice.
THEOREM ExecutedOnceAlways ==
  ASSUME SeparatePieces, IsFiniteSet(Txn)
  PROVE  Spec => []ExecutedOnce
<1>1. ExecInv => ExecutedOnce BY DEF ExecInv, LogInv, Distinct, ExecutedOnce
<1> QED BY <1>1, ExecInvariance, PTL

-----------------------------------------------------------------------------
(* 8. Why a server stops.                                                  *)

\* Every member of S has an EDGE_I parent in S: the edges form a cycle.
ICycle(g, S) == S # {} /\ \A t \in S : IParents(g, t) \cap S # {}

\* t has an EDGE_I parent outside of its component.
OuterParent(g, t) == t \in g.v /\ ~(IParents(g, t) \subseteq Scc(g, t))

Explained(g) == (\E t \in Txn : OuterParent(g, t)) \/ (\E S \in SUBSET Txn : ICycle(g, S))

\* An edge leads to a vertex.
Rooted(g) == \A x \in g.e : x[2] \in g.v

\* The numbers up to n are n.
LEMMA CardUpTo == \A n \in Nat : Cardinality(1..n) = n
BY FS_Interval

\* Members of a component have the same component.
LEMMA SccSame ==
  ASSUME NEW g, NEW t \in Txn, NEW u \in Scc(g, t)
  PROVE  Scc(g, t) \subseteq Scc(g, u)
<1> DEFINE Closed(C) == \A x \in g.e : x[1] \in C => x[2] \in C
<1>1. \A a \in Txn, b \in Txn : b \in Descendants(g, a) <=>
          \A C \in SUBSET Txn : a \in C /\ Closed(C) => b \in C
  BY DEF Descendants
<1>2. u \in Txn /\ u \in Descendants(g, t) /\ t \in Descendants(g, u)
  BY DEF Scc, Descendants
<1> SUFFICES ASSUME NEW w \in Scc(g, t) PROVE w \in Scc(g, u) OBVIOUS
<1>3. w \in Txn /\ w \in Descendants(g, t) /\ t \in Descendants(g, w)
  BY DEF Scc, Descendants
<1> HIDE DEF Closed
<1>4. w \in Descendants(g, u) BY <1>1, <1>2, <1>3
<1>5. u \in Descendants(g, w) BY <1>1, <1>2, <1>3
<1> QED BY <1>4, <1>5 DEF Scc

\* A member is in the component of every other.
LEMMA SccBack ==
  ASSUME NEW g, NEW t \in Txn, NEW u \in Txn, u \in Scc(g, t)
  PROVE  t \in Scc(g, u)
BY DEF Scc

\* If sorted_scc misses a member, there is such a parent or such a cycle: the
\* missing members all have a parent among themselves.
LEMMA SortFails ==
  ASSUME NEW g \in Graph, Rooted(g), NEW t \in Txn, IsFiniteSet(Txn), NEW scc, scc = Scc(g, t),
         Len(SortedScc(g, scc)) # Cardinality(scc)
  PROVE  Explained(g)
<1> PICK o : o = SortedScc(g, scc) OBVIOUS
<1>1. scc \in SUBSET Txn /\ scc \in SUBSET Nat /\ IsFiniteSet(scc)
  <2>1. scc \in SUBSET Txn BY DEF Scc, Descendants
  <2> QED BY <2>1, IdAssumption, FS_Subset
<1>2. /\ o \in Seq(scc) /\ Distinct(o)
      /\ \A c \in scc : IParents(g, c) \subseteq Elems(o) => c \in Elems(o)
  BY <1>1, SortedDistinct
<1> DEFINE S == scc \ Elems(o)
<1>3. S # {}
  <2> SUFFICES ASSUME Elems(o) = scc PROVE FALSE
    <3>1. Elems(o) \subseteq scc BY <1>2 DEF Elems
    <3> QED BY <3>1
  <2> PICK n, D : n = Len(o) /\ D = 1..n OBVIOUS
  <2>1. n \in Nat /\ o \in [D -> scc] BY <1>2
  <2>2. o \in Injection(D, scc) BY <1>2, <2>1 DEF Distinct, Injection, IsInjective
  <2>3. o \in Surjection(D, scc) BY <2>1 DEF Surjection, Elems
  <2>4. Cardinality(D) = Cardinality(scc) BY <1>1, <2>2, <2>3, FS_Injection
  <2>5. Cardinality(1..n) = n BY <2>1, CardUpTo
  <2> QED BY <2>4, <2>5
<1>4. CASE \A c \in S : IParents(g, c) \subseteq scc
  <2>1. \A c \in S : IParents(g, c) \cap S # {} BY <1>2, <1>4
  <2>2. S \in SUBSET Txn BY <1>1
  <2> QED BY <1>3, <2>1, <2>2 DEF ICycle, Explained
<1>5. CASE \E c \in S : ~(IParents(g, c) \subseteq scc)
  <2>1. PICK c \in scc : ~(IParents(g, c) \subseteq scc) BY <1>5
  <2>2. PICK x \in g.e : x[2] = c BY <2>1 DEF IParents
  <2>3. c \in g.v BY <2>2 DEF Rooted
  <2>4. ~(IParents(g, c) \subseteq Scc(g, c))
    <3>1. c \in Txn BY <1>1
    <3>2. c \in Scc(g, t) /\ scc = Scc(g, t) BY <2>1
    <3>3. Scc(g, c) \subseteq scc
      <4>1. t \in Scc(g, c)
        BY <3>1, <3>2, SccBack
      <4> QED BY <3>1, <4>1, SccSame
    <3> QED BY <2>1, <3>3
  <2> QED BY <1>1, <2>3, <2>4 DEF OuterParent, Explained
<1> QED BY <1>4, <1>5

\* The edges there are: those the servers know.
AllEdges == UNION {gra[s].e : s \in Server}

\* A graph with edges from A.
KnownIn(g, A) == Rooted(g) /\ g.e \subseteq A

KnownInv ==
    /\ \A s \in Server : KnownIn(gra[s], AllEdges)
    /\ \A u \in Txn : KnownIn(chop[u].gra, AllEdges)
    /\ \A m \in asks : m.type = "asked" => KnownIn(m.g, AllEdges)

\* A transaction in the entry of a column has a piece there that was requested.
EntryInv ==
    \A k \in Key : last[k] # NoTxn =>
        \E p \in prog[last[k]] : p.kind # "ro" /\ k \in p.keys /\ p \in chop[last[k]].got

HasImm(t) == \E p \in prog[t] : p.kind = "imm" /\ p \in chop[t].got

\* Then an EDGE_I joins two whose immediate pieces were requested, and every
\* set of transactions has one without an EDGE_I parent in the set.
ImmInv ==
    ImmediateApart =>
      /\ \A x \in AllEdges : x[3] = "I" => HasImm(x[1]) /\ HasImm(x[2])
      /\ \A S \in SUBSET Txn : S # {} =>
            \E b \in S : \A x \in AllEdges : x[3] = "I" /\ x[2] = b => x[1] \notin S

StopInv ==
    ExecInv /\ KnownInv /\ EntryInv /\ ImmInv /\ \A s \in down : Explained(gra[s])

\* union_graph makes no edge.
LEMMA UnionKnown ==
  ASSUME NEW A, NEW s, NEW g, NEW h, KnownIn(g, A), KnownIn(h, A)
  PROVE  KnownIn(UnionGraph(g, h), A) /\ KnownIn(UnionAtServer(s, g, h), A)
<1>1. /\ UnionGraph(g, h).e = g.e \cup h.e /\ UnionGraph(g, h).v = g.v \cup h.v
      /\ UnionAtServer(s, g, h).e = g.e \cup h.e /\ UnionAtServer(s, g, h).v = g.v \cup h.v
  BY DEF UnionGraph, UnionAtServer
<1>2. \A x \in g.e \cup h.e : x[2] \in g.v \cup h.v BY DEF KnownIn, Rooted
<1>3. g.e \cup h.e \subseteq A BY DEF KnownIn
<1> QED BY <1>1, <1>2, <1>3 DEF KnownIn, Rooted

\* sub_txn_graph keeps the edges between the vertices it keeps.
LEMMA SubKnown ==
  ASSUME NEW A, NEW g, NEW t, KnownIn(g, A)
  PROVE  KnownIn(SubGraph(g, t), A)
BY DEF SubGraph, KnownIn, Rooted

\* start_pie adds edges into the vertex it adds.
LEMMA AddKnown ==
  ASSUME NEW A, NEW g, NEW t, NEW s, NEW E, KnownIn(g, A), \A x \in E : x[2] = t
  PROVE  /\ KnownIn(AddVertex(g, t, s, E), A \cup E)
         /\ AddVertex(g, t, s, E).e = g.e \cup E
<1>1. AddVertex(g, t, s, E).e = g.e \cup E /\ AddVertex(g, t, s, E).v = g.v \cup {t}
  BY DEF AddVertex, UnionGraph
<1> QED BY <1>1 DEF KnownIn, Rooted

\* A known graph stays known.
LEMMA KnownGrows ==
  ASSUME NEW A, NEW B, A \subseteq B
  PROVE  \A g : KnownIn(g, A) => KnownIn(g, B)
BY DEF KnownIn

\* What was requested stays requested.
LEMMA RequestedKept ==
  ASSUME Grows
  PROVE  /\ \A t \in Txn : HasImm(t) => HasImm(t)'
         /\ (EntryInv /\ last \in [Key -> Txn \cup {NoTxn}] /\ UNCHANGED last) => EntryInv'
<1>1. prog' = prog /\ \A t \in Txn : chop[t].got \subseteq chop'[t].got BY DEF Grows
<1>2. \A t \in Txn : HasImm(t) => HasImm(t)' BY <1>1 DEF HasImm
<1>3. ASSUME EntryInv, last \in [Key -> Txn \cup {NoTxn}], UNCHANGED last PROVE EntryInv'
  <2> SUFFICES ASSUME NEW k \in Key, last[k] # NoTxn
               PROVE  \E p \in prog[last[k]] : /\ p.kind # "ro" /\ k \in p.keys
                                               /\ p \in chop'[last[k]].got
    BY <1>1, <1>3 DEF EntryInv
  <2>1. last[k] \in Txn BY <1>3
  <2> QED BY <1>1, <1>3, <2>1 DEF EntryInv
<1> QED BY <1>2, <1>3

\* A step that adds no edge and leaves the entries alone.
LEMMA StopKept ==
  ASSUME StopInv, ExecInv', Grows, UNCHANGED last,
         \A s \in Server : KnownIn(gra'[s], AllEdges) /\ gra[s].e \subseteq gra'[s].e,
         \A u \in Txn : KnownIn(chop'[u].gra, AllEdges),
         \A m \in asks' : m.type = "asked" => KnownIn(m.g, AllEdges),
         \A s \in down' : Explained(gra'[s])
  PROVE  StopInv'
<1>1. AllEdges' = AllEdges
  <2>1. \A s \in Server : gra'[s].e \subseteq AllEdges BY DEF KnownIn
  <2> QED BY <2>1 DEF AllEdges
<1>2. KnownInv' BY <1>1 DEF KnownInv
<1>3. EntryInv' BY RequestedKept DEF StopInv, ExecInv, GraphInv, StateOK
<1>4. \A x \in AllEdges : x[1] \in Txn /\ x[2] \in Txn
  <2>1. \A s \in Server : gra[s].e \subseteq Txn \X Txn \X EdgeType
    BY DEF StopInv, ExecInv, GraphInv, StateOK, Graph
  <2> QED BY <2>1 DEF AllEdges
<1>5. \A t \in Txn : HasImm(t) => HasImm(t)' BY RequestedKept
<1>6. ImmInv' BY <1>1, <1>4, <1>5 DEF StopInv, ImmInv
<1> QED BY <1>2, <1>3, <1>6 DEF StopInv

\* rcc_start_pie adds edges into the transaction it starts.  An immediate
\* piece is the first of its transaction, so no EDGE_I leads out of it yet.
LEMMA StartPieStop ==
  ASSUME StopInv, ExecInv', Grows, NEW t \in Txn, NEW p \in prog[t], StartPie(t, p)
  PROVE  StopInv'
<1> PICK s, type : s = p.srv /\ type = IF p.kind = "imm" THEN "I" ELSE "D" OBVIOUS
<1> PICK E : E = KissEdges(t, p.keys, type) OBVIOUS
<1> PICK g : g = AddVertex(gra[s], t, s, E) OBVIOUS
<1> PICK h : h = SubGraph(g, t) OBVIOUS
<1>1. /\ prog' = prog /\ down' = down /\ asks' = asks /\ p.kind # "ro" /\ s \notin down
      /\ gra' = [gra EXCEPT ![s] = g] /\ last' = KissLast(t, p.keys)
      /\ OnStarted(t, p, h) /\ p \notin chop[t].got
  BY DEF StartPie, Idle, Began
<1>2. /\ prog \in [Txn -> SUBSET Piece] /\ prog \in Workloads /\ gra \in [Server -> Graph]
      /\ last \in [Key -> Txn \cup {NoTxn}] /\ chop \in [Txn -> Chopper]
      /\ down \subseteq Server
  BY DEF StopInv, ExecInv, GraphInv, StateOK, Rest
<1>3. p \in Piece /\ s \in Server /\ p.keys \subseteq Key BY <1>2 DEF Piece
<1>4. PICK c : /\ c = [chop[t] EXCEPT !.gra = UnionGraph(@, h),
                             !.got = @ \cup {p}, !.started = @ \cup {p},
                             !.early = @ /\ h.v = {t} /\ ~(p.kind = "def" /\ p.out)]
               /\ chop' = [chop EXCEPT ![t] = c]
  BY <1>1 DEF OnStarted
<1>5. c.gra = UnionGraph(chop[t].gra, h) /\ c.got = chop[t].got \cup {p}
  BY <1>2, <1>4 DEF Chopper
<1>6. E = {<<last[k], t, type>> : k \in {j \in p.keys : last[j] # NoTxn}} BY DEF KissEdges
<1>7. \A x \in E : x[2] = t /\ x[3] = type /\ \E k \in p.keys : last[k] # NoTxn /\ x[1] = last[k]
  BY <1>6
<1>8. KnownIn(g, AllEdges \cup E) /\ g.e = gra[s].e \cup E
  BY <1>3, <1>7, AddKnown DEF StopInv, KnownInv
<1>9. AllEdges' = AllEdges \cup E
  <2>1. \A r \in Server : gra'[r].e = IF r = s THEN gra[r].e \cup E ELSE gra[r].e
    BY <1>1, <1>2, <1>8
  <2>2. \A x : x \in AllEdges <=> \E r \in Server : x \in gra[r].e BY DEF AllEdges
  <2>3. \A x : x \in AllEdges' <=> \E r \in Server : x \in gra'[r].e BY DEF AllEdges
  <2>4. \A x : x \in AllEdges' <=> x \in AllEdges \cup E BY <1>3, <2>1, <2>2, <2>3
  <2> QED BY <2>4
<1>10. \A y : KnownIn(y, AllEdges) => KnownIn(y, AllEdges \cup E) BY KnownGrows
<1>11. KnownInv'
  <2>1. ASSUME NEW r \in Server PROVE KnownIn(gra'[r], AllEdges \cup E)
    BY <1>1, <1>2, <1>8, <1>10 DEF StopInv, KnownInv
  <2>2. KnownIn(c.gra, AllEdges \cup E)
    <3>1. KnownIn(h, AllEdges \cup E) BY <1>8, SubKnown
    <3>2. KnownIn(chop[t].gra, AllEdges \cup E) BY <1>10 DEF StopInv, KnownInv
    <3>3. KnownIn(UnionGraph(chop[t].gra, h), AllEdges \cup E) BY <3>1, <3>2, UnionKnown
    <3> QED BY <1>5, <3>3
  <2>3. ASSUME NEW u \in Txn PROVE KnownIn(chop'[u].gra, AllEdges \cup E)
    BY <1>2, <1>4, <1>10, <2>2 DEF StopInv, KnownInv
  <2>4. \A m \in asks' : m.type = "asked" => KnownIn(m.g, AllEdges \cup E)
    BY <1>1, <1>10 DEF StopInv, KnownInv
  <2> QED BY <1>9, <2>1, <2>3, <2>4 DEF KnownInv
<1>12. p \in chop'[t].got /\ \A u \in Txn : chop[u].got \subseteq chop'[u].got
  BY <1>2, <1>4, <1>5 DEF Grows
<1>13. EntryInv'
  <2> SUFFICES ASSUME NEW k \in Key, last'[k] # NoTxn
               PROVE  \E q \in prog[last'[k]] : /\ q.kind # "ro" /\ k \in q.keys
                                                /\ q \in chop'[last'[k]].got
    BY <1>1 DEF EntryInv
  <2>1. CASE last'[k] = last[k]
    <3>1. last[k] \in Txn BY <1>2, <2>1
    <3> QED BY <1>12, <2>1, <3>1 DEF StopInv, EntryInv
  <2>2. CASE last'[k] # last[k]
    <3>1. last'[k] = t /\ k \in p.keys BY <1>1, <2>2 DEF KissLast
    <3> QED BY <1>1, <1>12, <3>1
  <2> QED BY <2>1, <2>2
<1>14. \A u \in Txn : HasImm(u) => HasImm(u)' BY RequestedKept
<1>15. \A x \in AllEdges : x[1] \in Txn /\ x[2] \in Txn
  <2>1. \A r \in Server : gra[r].e \subseteq Txn \X Txn \X EdgeType BY <1>2 DEF Graph
  <2> QED BY <2>1 DEF AllEdges
<1>16. ASSUME ImmediateApart
       PROVE  /\ \A x \in AllEdges' : x[3] = "I" => HasImm(x[1])' /\ HasImm(x[2])'
              /\ \A S \in SUBSET Txn : S # {} =>
                   \E b \in S : \A x \in AllEdges' : x[3] = "I" /\ x[2] = b => x[1] \notin S
  <2>1. /\ \A x \in AllEdges : x[3] = "I" => HasImm(x[1]) /\ HasImm(x[2])
        /\ \A S \in SUBSET Txn : S # {} =>
              \E b \in S : \A x \in AllEdges : x[3] = "I" /\ x[2] = b => x[1] \notin S
    BY <1>16 DEF StopInv, ImmInv
  <2>2. \A x \in AllEdges : x[3] = "I" => HasImm(x[1])' /\ HasImm(x[2])' BY <1>14, <1>15, <2>1
  <2>3. CASE p.kind # "imm"
    <3>1. \A x \in E : x[3] # "I" BY <1>7, <2>3
    <3>2. \A x \in AllEdges' : x[3] = "I" => x \in AllEdges BY <1>9, <3>1
    <3>3. \A x \in AllEdges' : x[3] = "I" => HasImm(x[1])' /\ HasImm(x[2])' BY <2>2, <3>2
    <3>4. ASSUME NEW S \in SUBSET Txn, S # {}
          PROVE  \E b \in S : \A x \in AllEdges' : x[3] = "I" /\ x[2] = b => x[1] \notin S
      <4>1. PICK b \in S : \A x \in AllEdges : x[3] = "I" /\ x[2] = b => x[1] \notin S
        BY <2>1, <3>4
      <4> QED BY <3>2, <4>1
    <3> QED BY <3>3, <3>4
  <2>4. CASE p.kind = "imm"
    <3>1. ~HasImm(t) BY <1>1, <1>2, <1>16, <2>4 DEF HasImm, ImmediateApart
    <3>2. ASSUME NEW k \in p.keys, last[k] # NoTxn PROVE last[k] \in Txn /\ HasImm(last[k])
      <4>1. last[k] \in Txn BY <1>2, <1>3, <3>2
      <4>2. PICK q \in prog[last[k]] : q.kind # "ro" /\ k \in q.keys /\ q \in chop[last[k]].got
        BY <1>3, <3>2 DEF StopInv, EntryInv
      <4>3. q.kind # "def"
        <5>1. p.keys \cap q.keys # {} BY <4>2
        <5> QED BY <1>2, <1>16, <2>4, <4>1, <5>1 DEF ImmediateApart
      <4>4. q.kind = "imm"
        <5>1. q \in Piece BY <1>2, <4>1
        <5> QED BY <4>2, <4>3, <5>1 DEF Piece
      <4> QED BY <4>1, <4>2, <4>4 DEF HasImm
    <3>3. HasImm(t)' BY <1>1, <1>12, <2>4 DEF HasImm
    <3>4. \A x \in E : x[2] = t /\ x[1] \in Txn /\ HasImm(x[1]) BY <1>7, <3>2
    <3>5. \A x \in E : HasImm(x[1])' /\ HasImm(x[2])' BY <1>14, <3>3, <3>4
    <3>6. \A x \in E : x[1] # t BY <3>1, <3>4
    <3>7. ASSUME NEW S \in SUBSET Txn, S # {}
          PROVE  \E b \in S : \A x \in AllEdges' : x[3] = "I" /\ x[2] = b => x[1] \notin S
      <4>1. CASE S \ {t} = {}
        <5>1. S = {t} BY <3>7, <4>1
        <5>2. \A x \in AllEdges : x[3] = "I" => x[2] # t BY <2>1, <3>1
        <5> QED BY <1>9, <3>6, <5>1, <5>2
      <4>2. CASE S \ {t} # {}
        <5>1. S \ {t} \in SUBSET Txn OBVIOUS
        <5>2. PICK b \in S \ {t} :
                \A x \in AllEdges : x[3] = "I" /\ x[2] = b => x[1] \notin S \ {t}
          BY <2>1, <4>2, <5>1
        <5>3. \A x \in AllEdges : x[3] = "I" => x[1] # t BY <2>1, <3>1
        <5>4. \A x \in AllEdges' : x[3] = "I" /\ x[2] = b => x[1] \notin S
          BY <1>9, <3>4, <5>2, <5>3
        <5> QED BY <5>4
      <4> QED BY <4>1, <4>2
    <3>8. \A x \in AllEdges' : x[3] = "I" => HasImm(x[1])' /\ HasImm(x[2])' BY <1>9, <2>2, <3>5
    <3> QED BY <3>7, <3>8
  <2> QED BY <2>3, <2>4
<1>17. ImmInv' BY <1>16 DEF ImmInv
<1>18. \A r \in down' : Explained(gra'[r]) BY <1>1, <1>2 DEF StopInv
<1> QED BY <1>11, <1>13, <1>17, <1>18 DEF StopInv

\* The other requests merge graphs or leave them alone.
LEMMA RequestStop ==
  ASSUME StopInv, ExecInv', Grows, NEW t \in Txn,
         (\E p \in prog[t] : StartRo(t, p)) \/ (\E s \in Server : FinishTxn(t, s))
  PROVE  StopInv'
<1>1. gra \in [Server -> Graph] /\ chop \in [Txn -> Chopper] /\ down \subseteq Server
  BY DEF StopInv, ExecInv, GraphInv, StateOK, Rest
<1>2. ASSUME NEW p \in prog[t], StartRo(t, p) PROVE StopInv'
  <2>1. /\ UNCHANGED <<gra, last, down, asks>>
        /\ chop' = [chop EXCEPT ![t].got = @ \cup {p}]
    BY <1>2 DEF StartRo
  <2>2. \A u \in Txn : chop'[u].gra = chop[u].gra BY <1>1, <2>1 DEF Chopper
  <2> QED BY <2>1, <2>2, StopKept DEF StopInv, KnownInv
<1>3. ASSUME NEW s \in Server, FinishTxn(t, s) PROVE StopInv'
  <2> PICK g : g = UnionAtServer(s, gra[s], chop[t].gra) OBVIOUS
  <2>1. /\ UNCHANGED <<last, down, asks, chop>> /\ gra' = [gra EXCEPT ![s] = g] /\ s \notin down
    BY <1>3 DEF FinishTxn, coordVars, Idle
  <2>2. KnownIn(g, AllEdges) /\ gra[s].e \subseteq g.e
    <3>1. KnownIn(g, AllEdges) BY UnionKnown DEF StopInv, KnownInv
    <3> QED BY <3>1 DEF UnionAtServer, UnionGraph
  <2>3. \A r \in Server : KnownIn(gra'[r], AllEdges) /\ gra[r].e \subseteq gra'[r].e
    BY <1>1, <2>1, <2>2 DEF StopInv, KnownInv
  <2>4. \A r \in down' : Explained(gra'[r]) BY <1>1, <2>1 DEF StopInv
  <2> QED BY <2>1, <2>3, <2>4, StopKept DEF StopInv, KnownInv
<1> QED BY <1>2, <1>3

\* So do rcc_ask_txn and the callback of its answer.
LEMMA AskStop ==
  ASSUME StopInv, ExecInv', Grows, Ask
  PROVE  StopInv'
<1>1. PICK m \in asks : AskTxn(m) \/ AskReply(m) BY DEF Ask
<1>2. gra \in [Server -> Graph] /\ down \subseteq Server
  BY DEF StopInv, ExecInv, GraphInv, StateOK, Rest
<1>3. UNCHANGED <<last, down, chop>> /\ asks' = asks \ {m} /\ m.s \notin down
  BY <1>1 DEF AskTxn, AskReply, coordVars, Idle
<1>4. /\ \A r \in Server : KnownIn(gra'[r], AllEdges) /\ gra[r].e \subseteq gra'[r].e
      /\ \A r \in down' : gra'[r] = gra[r]
  <2>1. CASE AskTxn(m)
    <3>1. gra' = gra BY <2>1 DEF AskTxn
    <3> QED BY <3>1 DEF StopInv, KnownInv
  <2>2. CASE AskReply(m)
    <3>1. gra' = [gra EXCEPT ![m.s] = UnionAtServer(m.s, @, m.g)] /\ m.type = "asked"
      BY <2>2 DEF AskReply
    <3>2. ASSUME NEW r \in Server
          PROVE  KnownIn(UnionAtServer(m.s, gra[r], m.g), AllEdges)
      <4>1. KnownIn(gra[r], AllEdges) /\ KnownIn(m.g, AllEdges) BY <3>1 DEF StopInv, KnownInv
      <4> QED BY <4>1, UnionKnown
    <3>3. \A r \in Server : gra[r].e \subseteq UnionAtServer(m.s, gra[r], m.g).e
      BY DEF UnionAtServer, UnionGraph
    <3>4. \A r \in Server : gra'[r] = IF r = m.s THEN UnionAtServer(m.s, gra[r], m.g) ELSE gra[r]
      BY <1>2, <3>1
    <3> QED BY <1>2, <1>3, <3>2, <3>3, <3>4 DEF StopInv, KnownInv
  <2> QED BY <1>1, <2>1, <2>2
<1> QED BY <1>3, <1>4, StopKept DEF StopInv, KnownInv

\* A callback adds no edge; the one that stops the server has its cause.
LEMMA CallbackStop ==
  ASSUME StopInv, ExecInv', Grows, IsFiniteSet(Txn), NEW s \in Server, Callback(s)
  PROVE  StopInv'
<1>1. PICK c \in calls[s] :
        /\ Runnable(s, c)
        /\ \/ Commit(s, c) \/ ToDecide(s, c) \/ AncFinish(s, c)
           \/ SccDecided(s, c) \/ SccCommit(s, c) \/ SccAbort(s, c)
           \/ SendAnswer(s, c) \/ SendRead(s, c)
  BY DEF Callback
<1>2. /\ gra \in [Server -> Graph] /\ chop \in [Txn -> Chopper] /\ down \subseteq Server
      /\ c.t \in Txn
  BY DEF StopInv, ExecInv, GraphInv, StateOK, CallsOK, Rest
<1>3. last' = last /\ s \notin down
  BY <1>1 DEF Commit, ToDecide, AncFinish, SccDecided, SccCommit, SccAbort, SendAnswer, SendRead,
              Runnable
<1>4. \A u \in Txn : chop'[u].gra = chop[u].gra
  <2>1. CASE ReplyTo(c, s) BY <2>1, ReplyToOK DEF StopInv, ExecInv
  <2>2. CASE chop' = chop BY <2>2
  <2>3. CASE SendRead(s, c)
    <3>1. chop' = [chop EXCEPT ![c.t].started = chop[c.t].started \cup {c.to.p}]
      BY <2>3 DEF SendRead, OnRead
    <3> QED BY <1>2, <3>1 DEF Chopper
  <2> QED
    BY <1>1, <2>1, <2>2, <2>3
    DEF Commit, ToDecide, AncFinish, SccDecided, SccCommit, SccAbort, SendAnswer, coordVars
<1>5. \A m \in asks' : m.type = "asked" => KnownIn(m.g, AllEdges)
  <2>1. ASSUME NEW new, NEW S, RunCall(s, c, new, S)
        PROVE  \A m \in asks' : m.type = "asked" => KnownIn(m.g, AllEdges)
    <3>1. asks' = asks \cup AskReqs(s, S) BY <2>1 DEF RunCall
    <3>2. \A m \in AskReqs(s, S) : m.type = "ask" BY DEF AskReqs, AskReq
    <3> QED BY <3>1, <3>2 DEF StopInv, KnownInv
  <2>2. CASE SendAnswer(s, c)
    <3> PICK n : n = AskRsp(c.t, c.to.s, SubGraph(gra[s], c.t)) OBVIOUS
    <3>1. asks' = asks \cup {n} BY <2>2 DEF SendAnswer
    <3>2. n.g = SubGraph(gra[s], c.t) BY DEF AskRsp
    <3>3. KnownIn(n.g, AllEdges) BY <3>2, SubKnown DEF StopInv, KnownInv
    <3> QED BY <3>1, <3>3 DEF StopInv, KnownInv
  <2>3. CASE asks' = asks BY <2>3 DEF StopInv, KnownInv
  <2> QED
    BY <1>1, <2>1, <2>2, <2>3
    DEF Commit, ToDecide, AncFinish, SccDecided, SccCommit, SccAbort, SendRead
<1>6. CASE SccCommit(s, c) \/ Commit(s, c)
  <2>1. \/ \E scc : gra' = [gra EXCEPT ![s].dcd = @ \cup scc]
        \/ gra' = [gra EXCEPT ![s].cmt = @ \cup {c.t}]
    BY <1>6 DEF SccCommit, Commit
  <2>2. \A r \in Server : /\ gra'[r].e = gra[r].e /\ gra'[r].v = gra[r].v
                          /\ (r # s => gra'[r] = gra[r])
    BY <1>2, <2>1 DEF Graph
  <2>3. down' = down BY <1>6 DEF SccCommit, Commit
  <2>4. \A r \in Server : KnownIn(gra'[r], AllEdges) /\ gra[r].e \subseteq gra'[r].e
    BY <2>2 DEF StopInv, KnownInv, KnownIn, Rooted
  <2>5. \A r \in down' : Explained(gra'[r]) BY <1>2, <1>3, <2>2, <2>3 DEF StopInv
  <2> QED BY <1>3, <1>4, <1>5, <2>4, <2>5, StopKept DEF StopInv, KnownInv
<1>7. CASE ~(SccCommit(s, c) \/ Commit(s, c))
  <2>1. gra' = gra
    BY <1>1, <1>7 DEF ToDecide, AncFinish, SccDecided, SccAbort, SendAnswer, SendRead
  <2>2. \A r \in down' : Explained(gra[r])
    <3>1. CASE SccAbort(s, c)
      <4>1. /\ down' = down \cup {s}
            /\ Len(SortedScc(gra[s], Scc(gra[s], c.t))) # Cardinality(Scc(gra[s], c.t))
        BY <3>1 DEF SccAbort
      <4>2. gra[s] \in Graph /\ Rooted(gra[s]) BY <1>2 DEF StopInv, KnownInv, KnownIn
      <4>3. Explained(gra[s]) BY <1>2, <4>1, <4>2, SortFails
      <4> QED BY <4>1, <4>3 DEF StopInv
    <3>2. CASE ~SccAbort(s, c)
      <4>1. down' = down
        BY <1>1, <1>7, <3>2 DEF ToDecide, AncFinish, SccDecided, SendAnswer, SendRead
      <4> QED BY <4>1 DEF StopInv
    <3> QED BY <3>1, <3>2
  <2> QED BY <1>3, <1>4, <1>5, <2>1, <2>2, StopKept DEF StopInv, KnownInv
<1> QED BY <1>6, <1>7

\* The invariant holds initially.
LEMMA StopInit == Init => StopInv
<1> SUFFICES ASSUME Init PROVE StopInv OBVIOUS
<1>1. ExecInv BY ExecInit
<1>2. /\ \A s \in Server : gra[s] = EmptyGraph
      /\ \A u \in Txn : chop[u].gra = EmptyGraph
      /\ asks = {} /\ down = {} /\ \A k \in Key : last[k] = NoTxn
  BY DEF Init
<1>3. EmptyGraph.e = {} BY DEF EmptyGraph
<1>4. AllEdges = {} BY <1>2, <1>3 DEF AllEdges
<1>5. KnownInv BY <1>2, <1>3 DEF KnownInv, KnownIn, Rooted
<1>6. EntryInv BY <1>2 DEF EntryInv
<1>7. ImmInv BY <1>4 DEF ImmInv
<1> QED BY <1>1, <1>2, <1>5, <1>6, <1>7 DEF StopInv

\* Every step keeps it.
LEMMA StopStep ==
  ASSUME IsFiniteSet(Txn), StopInv, [Next]_vars
  PROVE  StopInv'
<1>1. ExecInv' /\ Grows BY ExecStep DEF StopInv
<1>2. ASSUME NEW t \in Txn, Request(t) PROVE StopInv'
  BY <1>1, <1>2, StartPieStop, RequestStop DEF Request
<1>3. ASSUME Ask PROVE StopInv' BY <1>1, <1>3, AskStop
<1>4. ASSUME NEW s \in Server, Callback(s) PROVE StopInv' BY <1>1, <1>4, CallbackStop
<1>5. CASE UNCHANGED vars
  <2>1. UNCHANGED <<gra, last, down, chop, asks>> BY <1>5 DEF vars, serverVars, coordVars
  <2> QED BY <1>1, <2>1, StopKept DEF StopInv, KnownInv
<1> QED BY <1>2, <1>3, <1>4, <1>5 DEF Next

\* The graph of a server that a failed verify() of sorted_scc has stopped
\* shows the cause: an EDGE_I parent outside of a component, or a cycle of
\* EDGE_I edges.
THEOREM AbortsExplained ==
  ASSUME IsFiniteSet(Txn)
  PROVE  Spec => [](\A s \in down : Explained(gra[s]))
<1>1. StopInv /\ [Next]_vars => StopInv' BY StopStep
<1>2. StopInv => \A s \in down : Explained(gra[s]) BY DEF StopInv
<1> QED BY <1>1, <1>2, StopInit, PTL DEF Spec

\* Where a transaction has one immediate piece, on columns no deferred piece
\* touches, no such cycle comes about: start gives the edges an order in
\* time.  What is left is the parent outside of the component, for which the
\* loop of sorted_scc waits in vain.
THEOREM AbortNeedsOuterParentAlways ==
  ASSUME IsFiniteSet(Txn), ImmediateApart
  PROVE  Spec => []AbortNeedsOuterParent
<1>1. StopInv /\ [Next]_vars => StopInv' BY StopStep
<1>2. StopInv => AbortNeedsOuterParent
  <2> SUFFICES ASSUME StopInv, NEW s \in down
               PROVE  \E t \in gra[s].v : ~(IParents(gra[s], t) \subseteq Scc(gra[s], t))
    BY DEF AbortNeedsOuterParent
  <2>1. s \in Server BY DEF StopInv, ExecInv, Rest
  <2>2. ASSUME NEW S \in SUBSET Txn, ICycle(gra[s], S) PROVE FALSE
    <3>1. S # {} /\ \A t \in S : IParents(gra[s], t) \cap S # {} BY <2>2 DEF ICycle
    <3>2. PICK b \in S : \A x \in AllEdges : x[3] = "I" /\ x[2] = b => x[1] \notin S
      BY <3>1 DEF StopInv, ImmInv
    <3>3. PICK x \in gra[s].e : x[2] = b /\ x[3] = "I" /\ x[1] \in S BY <3>1 DEF IParents
    <3>4. x \in AllEdges BY <2>1 DEF AllEdges
    <3> QED BY <3>2, <3>3, <3>4
  <2> QED BY <2>2 DEF StopInv, Explained, OuterParent
<1> QED BY <1>1, <1>2, StopInit, PTL DEF Spec

-----------------------------------------------------------------------------
(* 9. What is answered is executed.                                        *)

Edge(g, a, b) == \E x \in g.e : x[1] = a /\ x[2] = b

\* A piece that was requested has left its mark at its server.
MarkInv ==
    \A t \in Txn : \A p \in prog[t] : p.kind # "ro" =>
        /\ p \in chop[t].started => p \in chop[t].got
        /\ p \in chop[t].got =>
             /\ t \in gra[p.srv].v /\ <<t, p.srv>> \in gra[p.srv].srv
             /\ \A k \in p.keys : /\ last[k] # NoTxn
                                  /\ last[k] # t => Edge(gra[p.srv], last[k], t)

\* An edge comes from an entry.
EdgeInv == \A x \in AllEdges : \E k \in Touched(prog, x[2]) : last[k] = x[1]

\* What is called decided, or asked about and answered, has started.
DecidedInv ==
    /\ \A s \in Server : gra[s].dcd \subseteq StartedTxns
    /\ \A u \in Txn : chop[u].gra.dcd \subseteq StartedTxns
    /\ \A m \in asks : m.type = "asked" => m.g.dcd \subseteq StartedTxns /\ m.t \in StartedTxns

RunsAt(t, s) == \E p \in prog[t] : p.srv = s /\ p.kind # "ro"

\* A server calls a transaction of its own committing after the finish request.
HomeInv == \A s \in Server : \A t \in gra[s].cmt : RunsAt(t, s) => t \in res[s]

\* x and t form a cycle.
Mate(x, t) ==
    /\ x # t
    /\ \E k \in Touched(prog, t) : last[k] = x
    /\ \E k \in Touched(prog, x) : last[k] = t

\* A decision waits for the other one of the cycle, or was committing when it
\* was told; if it does not know of the cycle, then it does not wait at all.
WaitOK(s, c) ==
    \A x \in Txn : Mate(x, c.t) =>
        IF Edge(gra[s], x, c.t) THEN x \in c.wait \cup Finished(gra[s]) ELSE c.wait = {}

Decision == {"anc_finish", "scc_commit"}

CallInv ==
    \A s \in Server : \A c \in calls[s] :
        /\ c.op = "ro_reply" => c.to.p.kind = "ro"
        /\ c.op = "ask_reply" => c.wait = {c.t}
        /\ c.op \in Decision \cup {"to_decide"} =>
             c.t \in StartedTxns /\ (c.to = Coordinator => c.t \in res[s])
        /\ c.op \in Decision => c.t \in deciding[s] /\ WaitOK(s, c)

\* On one site nobody is asked.
SiteInv ==
    \A s \in Server : (\A t \in Txn : \A p \in prog[t] : p.srv = s) =>
        /\ asks = {} /\ \A c \in calls[s] : c.op # "ask_reply"
        /\ \A r \in Server : r # s => calls[r] = {}

Done(t, s) == \A k \in DeferredKeys(t, s) : t \in Executed(k)

\* The decision about t has no reply to send.
Quiet(t, s) ==
    /\ t \in deciding[s]
    /\ \A c \in calls[s] : c.op \in Decision /\ c.t = t => c.to # Coordinator

DoneInv == \A s \in Server : \A t \in gra[s].dcd : RunsAt(t, s) => Done(t, s) \/ Quiet(t, s)

FinInv ==
    /\ StopInv /\ MarkInv /\ EdgeInv /\ DecidedInv /\ HomeInv
    /\ CallInv /\ SiteInv /\ DoneInv /\ FinishedIsExecuted

\* A component of two is joined by edges both ways.
LEMMA DirectEdge ==
  ASSUME NEW g \in Graph, NEW t \in Txn, NEW x \in Txn, x # t, x \in Scc(g, t),
         Scc(g, t) \subseteq {t, x}
  PROVE  Edge(g, x, t)
<1> DEFINE Closed(C) == \A y \in g.e : y[1] \in C => y[2] \in C
<1>1. \A a \in Txn, b \in Txn : b \in Descendants(g, a) <=>
          \A C \in SUBSET Txn : a \in C /\ Closed(C) => b \in C
  BY DEF Descendants
<1>2. x \in Descendants(g, t) /\ t \in Descendants(g, x) BY DEF Scc
<1>3. \A y \in g.e : y[1] \in Txn /\ y[2] \in Txn BY DEF Graph
<1>4. \A y \in g.e : \A a \in Txn : y[1] \in Descendants(g, a) => y[2] \in Descendants(g, a)
  BY <1>3 DEF Descendants
<1>5. \A y \in g.e : y[2] \in Descendants(g, y[1]) BY <1>3 DEF Descendants
<1> DEFINE C == Descendants(g, x) \ {t}
<1>6. C \in SUBSET Txn /\ x \in C /\ t \notin C
  <2>1. x \in Descendants(g, x) /\ Descendants(g, x) \subseteq Txn BY DEF Descendants
  <2> QED BY <2>1
<1>7. ~Closed(C)
  <2> HIDE DEF C, Closed
  <2> QED BY <1>1, <1>2, <1>6
<1>8. PICK y \in g.e : y[1] \in C /\ y[2] \notin C BY <1>7
<1>9. y[2] = t BY <1>4, <1>8
<1>10. y[1] \in Scc(g, t)
  <2> PICK a : a = y[1] OBVIOUS
  <2>1. a \in Txn /\ a \in Descendants(g, x) BY <1>3, <1>8
  <2> HIDE DEF Closed
  <2>2. a \in Descendants(g, t) BY <1>1, <1>2, <2>1
  <2>3. t \in Descendants(g, a) BY <1>5, <1>9
  <2> QED BY <2>2, <2>3 DEF Scc
<1>11. y[1] = x BY <1>8, <1>10
<1> QED BY <1>9, <1>11 DEF Edge

\* More edges, larger components.
LEMMA SccGrows ==
  ASSUME NEW g, NEW h, NEW t \in Txn, \A x \in g.e : \E y \in h.e : y[1] = x[1] /\ y[2] = x[2]
  PROVE  Scc(g, t) \subseteq Scc(h, t)
<1>1. ASSUME NEW a PROVE Descendants(g, a) \subseteq Descendants(h, a)
  <2> SUFFICES ASSUME NEW b \in Descendants(g, a), NEW C \in SUBSET Txn, a \in C,
                      \A y \in h.e : y[1] \in C => y[2] \in C
               PROVE  b \in Txn /\ b \in C
    BY DEF Descendants
  <2>1. \A x \in g.e : x[1] \in C => x[2] \in C OBVIOUS
  <2> QED BY <2>1 DEF Descendants
<1> QED BY <1>1 DEF Scc

\* Ancestors are where edges come from.
LEMMA AncestorsSources ==
  ASSUME NEW g \in Graph, NEW t \in Txn
  PROVE  /\ \A a \in Ancestors(g, t) : \E x \in g.e : x[1] = a
         /\ \A a \in SccParents(g, t) : \E x \in g.e : x[1] = a
<1>1. \A x \in g.e : x[1] \in Txn BY DEF Graph
<1> DEFINE C == {t} \cup {x[1] : x \in g.e}
<1>2. C \in SUBSET Txn /\ t \in C /\ \A x \in g.e : x[1] \in C BY <1>1
<1>3. \A a \in Ancestors(g, t) : a \in C /\ a # t
  <2> HIDE DEF C
  <2> QED BY <1>2 DEF Ancestors
<1> QED BY <1>3 DEF SccParents

\* A parent that is not decided is an ancestor.
LEMMA ParentIsAncestor ==
  ASSUME NEW g \in Graph, NEW t, NEW a, a # t, Edge(g, a, t), a \notin g.dcd
  PROVE  a \in Ancestors(g, t)
<1>1. PICK x \in g.e : x[1] = a /\ x[2] = t BY DEF Edge
<1>2. a \in Txn BY <1>1 DEF Graph
<1> QED BY <1>1, <1>2 DEF Ancestors

\* A transaction without parents has no ancestors.
LEMMA NoParents ==
  ASSUME NEW g \in Graph, NEW t \in Txn, \A x \in g.e : x[2] = t => x[1] = t
  PROVE  Ancestors(g, t) = {} /\ SccParents(g, t) = {}
<1>1. Ancestors(g, t) = {}
  <2> SUFFICES ASSUME NEW a \in Ancestors(g, t) PROVE FALSE OBVIOUS
  <2>1. {t} \in SUBSET Txn /\ t \in {t}
        /\ \A x \in g.e : x[2] \in {t} /\ x[1] \notin g.dcd => x[1] \in {t}
    OBVIOUS
  <2> QED BY <2>1 DEF Ancestors
<1>2. Scc(g, t) \subseteq {t}
  <2> SUFFICES ASSUME NEW a \in Scc(g, t), a # t PROVE FALSE OBVIOUS
  <2>1. a \in Txn /\ t \in Descendants(g, a) BY DEF Scc, Descendants
  <2>2. Txn \ {t} \in SUBSET Txn /\ a \in Txn \ {t} BY <2>1
  <2>3. \A x \in g.e : x[1] \in Txn \ {t} => x[2] \in Txn \ {t} BY DEF Graph
  <2> QED BY <2>1, <2>2, <2>3 DEF Descendants
<1>3. \A x \in g.e : x[2] \in Scc(g, t) => x[1] \in {t} BY <1>2
<1>4. t \in Scc(g, t) BY DEF Scc, Descendants
<1> QED BY <1>1, <1>3, <1>4 DEF SccParents

\* The types of what is used below.
LEMMA FinTypes ==
  ASSUME StopInv
  PROVE  /\ prog \in Workloads /\ prog \in [Txn -> SUBSET Piece] /\ gra \in [Server -> Graph]
         /\ last \in [Key -> Txn \cup {NoTxn}] /\ chop \in [Txn -> Chopper]
         /\ calls = [s \in Server |-> calls[s]] /\ \A s \in Server : \A c \in calls[s] : c.t \in Txn
         /\ res \in [Server -> SUBSET Txn] /\ deciding \in [Server -> SUBSET Txn]
         /\ log \in [Key -> Seq(Txn)] /\ down \subseteq Server
         /\ \A t \in Txn : Touched(prog, t) \subseteq Key
         /\ \A s \in Server : \A x \in gra[s].e : x[1] \in Txn /\ x[2] \in Txn /\ x \in AllEdges
<1>1. /\ prog \in Workloads /\ prog \in [Txn -> SUBSET Piece] /\ gra \in [Server -> Graph]
      /\ last \in [Key -> Txn \cup {NoTxn}] /\ chop \in [Txn -> Chopper]
      /\ calls = [s \in Server |-> calls[s]] /\ \A s \in Server : \A c \in calls[s] : c.t \in Txn
      /\ res \in [Server -> SUBSET Txn] /\ deciding \in [Server -> SUBSET Txn]
      /\ log \in [Key -> Seq(Txn)] /\ down \subseteq Server
  BY DEF StopInv, ExecInv, GraphInv, StateOK, CallsOK, Rest
<1>2. \A t \in Txn : Touched(prog, t) \subseteq Key
  <2> SUFFICES ASSUME NEW t \in Txn, NEW p \in prog[t] PROVE p.keys \subseteq Key
    BY DEF Touched
  <2>1. p \in Piece BY <1>1
  <2> QED BY <2>1 DEF Piece
<1>3. \A s \in Server : \A x \in gra[s].e : x[1] \in Txn /\ x[2] \in Txn BY <1>1 DEF Graph
<1>4. \A s \in Server : \A x \in gra[s].e : x \in AllEdges BY DEF AllEdges
<1> QED BY <1>1, <1>2, <1>3, <1>4

\* The entries are as InPairs expects them.
LEMMA LastIsEntries ==
  ASSUME StopInv
  PROVE  last \in Entries(prog)
<1> SUFFICES ASSUME NEW k \in Key, last[k] # NoTxn PROVE k \in Touched(prog, last[k])
  BY FinTypes DEF Entries
<1>1. PICK p \in prog[last[k]] : p.kind # "ro" /\ k \in p.keys BY DEF StopInv, EntryInv
<1> QED BY <1>1 DEF Touched

\* Two transactions that form a cycle meet no third one.
LEMMA MatesAlone ==
  ASSUME StopInv, InPairs, NEW x \in Txn, NEW t \in Txn, Mate(x, t), ~AtOneSite(prog)
  PROVE  \A y \in Txn : Touched(prog, y) \cap Touched(prog, t) # {} => y \in {t, x}
<1> PICK h : h = EntryGraph(prog, last) OBVIOUS
<1>1. h.e = {y \in Txn \X Txn \X {"D"} : \E k \in Touched(prog, y[2]) : last[k] = y[1]}
  BY DEF EntryGraph, EmptyGraph
<1>2. <<x, t, "D">> \in h.e /\ <<t, x, "D">> \in h.e BY <1>1 DEF Mate
<1>3. x \in Descendants(h, t)
  <2> SUFFICES ASSUME NEW C \in SUBSET Txn, t \in C, \A y \in h.e : y[1] \in C => y[2] \in C
               PROVE  x \in C
    BY DEF Descendants
  <2> QED BY <1>2
<1>4. t \in Descendants(h, x)
  <2> SUFFICES ASSUME NEW C \in SUBSET Txn, x \in C, \A y \in h.e : y[1] \in C => y[2] \in C
               PROVE  t \in C
    BY DEF Descendants
  <2> QED BY <1>2
<1>5. x \in Scc(EntryGraph(prog, last), t) \ {t} BY <1>3, <1>4 DEF Scc, Mate
<1> QED BY <1>5, FinTypes, LastIsEntries DEF InPairs

\* The component of t in the graph of a server: t, and another one if they
\* form a cycle that the server knows.
LEMMA SccMates ==
  ASSUME StopInv, EdgeInv, InPairs, NEW s \in Server, NEW t \in Txn,
         NEW x \in Scc(gra[s], t), x # t
  PROVE  Mate(x, t) /\ Edge(gra[s], x, t)
<1> PICK g, h : g = gra[s] /\ h = EntryGraph(prog, last) OBVIOUS
<1>1. g \in Graph /\ x \in Txn BY FinTypes DEF Scc, Descendants
<1>2. h.e = {y \in Txn \X Txn \X {"D"} : \E k \in Touched(prog, y[2]) : last[k] = y[1]}
  BY DEF EntryGraph, EmptyGraph
<1>3. \A y \in g.e : y[1] \in Txn /\ y[2] \in Txn /\ \E k \in Touched(prog, y[2]) : last[k] = y[1]
  BY FinTypes DEF EdgeInv
<1>4. ASSUME NEW y \in g.e PROVE \E z \in h.e : z[1] = y[1] /\ z[2] = y[2]
  <2>1. <<y[1], y[2], "D">> \in h.e BY <1>2, <1>3
  <2> QED BY <2>1
<1>5. Scc(g, t) \subseteq Scc(h, t) BY <1>4, SccGrows
<1>6. Scc(h, t) \subseteq {t, x} BY <1>5, FinTypes, LastIsEntries DEF InPairs
<1>7. Edge(g, x, t) BY <1>1, <1>5, <1>6, DirectEdge
<1>8. t \in Scc(g, x) BY <1>1, SccBack
<1>9. Scc(g, x) \subseteq Scc(g, t) BY <1>1, <1>8, SccSame
<1>10. Edge(g, t, x) BY <1>1, <1>5, <1>6, <1>8, <1>9, DirectEdge
<1>11. Mate(x, t) BY <1>3, <1>7, <1>10 DEF Edge, Mate
<1> QED BY <1>7, <1>11

\* If a server does not know of the edge from the other one, it knows of none.
LEMMA UnknownMate ==
  ASSUME StopInv, EdgeInv, InPairs, ~AtOneSite(prog), NEW s \in Server, NEW t \in Txn,
         NEW x \in Txn, Mate(x, t), ~Edge(gra[s], x, t)
  PROVE  Ancestors(gra[s], t) = {} /\ SccParents(gra[s], t) = {}
<1>1. ASSUME NEW y \in gra[s].e, y[2] = t PROVE y[1] = t
  <2>1. y[1] \in Txn /\ y \in AllEdges BY FinTypes
  <2>2. PICK k \in Touched(prog, t) : last[k] = y[1] BY <1>1, <2>1 DEF EdgeInv
  <2>3. k \in Key /\ last[k] # NoTxn BY <2>1, <2>2, FinTypes, WorkloadAssumption
  <2>4. k \in Touched(prog, y[1]) BY <2>2, <2>3, LastIsEntries DEF Entries
  <2>5. y[1] \in {t, x} BY <2>1, <2>2, <2>4, MatesAlone
  <2>6. y[1] # x BY <1>1 DEF Edge
  <2> QED BY <2>5, <2>6
<1> QED BY <1>1, NoParents, FinTypes

\* What CallInv says of a callback.
CallOK(s, c) ==
    /\ c.op = "ro_reply" => c.to.p.kind = "ro"
    /\ c.op = "ask_reply" => c.wait = {c.t}
    /\ c.op \in Decision \cup {"to_decide"} =>
         c.t \in StartedTxns /\ (c.to = Coordinator => c.t \in res[s])
    /\ c.op \in Decision => c.t \in deciding[s] /\ WaitOK(s, c)

\* A step that leaves the graphs, the columns and the finish requests alone,
\* and requests at most a read-only piece.
StillStep ==
    /\ UNCHANGED <<prog, gra, last, log, res>>
    /\ \A s \in Server : deciding[s] \subseteq deciding'[s]
    /\ \A u \in Txn : /\ chop'[u].gra = chop[u].gra
                      /\ chop[u].started \subseteq chop'[u].started
                      /\ \A p \in prog[u] : p.kind # "ro" =>
                           /\ p \in chop'[u].got <=> p \in chop[u].got
                           /\ p \in chop'[u].started <=> p \in chop[u].started
    /\ StartedTxns \subseteq StartedTxns'
    /\ \A s \in Server : \A c \in calls'[s] : c \in calls[s] \/ CallOK(s, c)'
    /\ \A s \in Server : \A c \in calls'[s] :
         c.op \in Decision /\ c.to = Coordinator =>
            \/ \E d \in calls[s] : d.op \in Decision /\ d.t = c.t /\ d.to = Coordinator
            \/ c.t \notin deciding[s]
    /\ \A m \in asks' : m \in asks \/ (m.type = "asked" => /\ m.g.dcd \subseteq StartedTxns'
                                                           /\ m.t \in StartedTxns')
    /\ SiteInv'
    /\ FinishedIsExecuted'

\* Such a step keeps the invariant.
LEMMA FinKept ==
  ASSUME FinInv, StopInv', StillStep
  PROVE  FinInv'
<1>1. /\ StopInv /\ MarkInv /\ EdgeInv /\ DecidedInv /\ HomeInv
      /\ CallInv /\ SiteInv /\ DoneInv /\ FinishedIsExecuted
  BY DEF FinInv
<1>2. /\ prog' = prog /\ gra' = gra /\ last' = last /\ log' = log /\ res' = res
      /\ StartedTxns \subseteq StartedTxns'
  BY DEF StillStep
<1>3. MarkInv' BY <1>1, <1>2 DEF MarkInv, StillStep, Edge
<1>4. EdgeInv'
  <2>1. AllEdges' = AllEdges BY <1>2 DEF AllEdges
  <2> QED BY <1>1, <1>2, <2>1 DEF EdgeInv
<1>5. DecidedInv'
  <2>1. \A u \in Txn : chop'[u].gra = chop[u].gra BY DEF StillStep
  <2>2. \A m \in asks' : m.type = "asked" => m.g.dcd \subseteq StartedTxns' /\ m.t \in StartedTxns'
    BY <1>1, <1>2 DEF StillStep, DecidedInv
  <2> QED BY <1>1, <1>2, <2>1, <2>2 DEF DecidedInv
<1>6. HomeInv' BY <1>1, <1>2 DEF HomeInv, RunsAt
<1>7. CallInv'
  <2> SUFFICES ASSUME NEW s \in Server, NEW c \in calls'[s] PROVE CallOK(s, c)'
    BY DEF CallInv, CallOK
  <2>1. CASE c \in calls[s]
    <3>1. CallOK(s, c) BY <1>1, <2>1 DEF CallInv, CallOK
    <3>2. deciding[s] \subseteq deciding'[s] BY DEF StillStep
    <3>3. WaitOK(s, c) => WaitOK(s, c)' BY <1>2 DEF WaitOK, Mate, Edge, Finished
    <3> QED BY <1>2, <3>1, <3>2, <3>3 DEF CallOK
  <2> QED BY <2>1 DEF StillStep
<1>8. DoneInv'
  <2> SUFFICES ASSUME NEW s \in Server, NEW t \in gra[s].dcd, RunsAt(t, s)
               PROVE  Done(t, s)' \/ Quiet(t, s)'
    BY <1>2 DEF DoneInv, RunsAt
  <2>1. CASE Done(t, s) BY <1>2, <2>1 DEF Done, DeferredKeys, Executed
  <2>2. CASE Quiet(t, s)
    <3>1. t \in deciding'[s] BY <2>2 DEF Quiet, StillStep
    <3>2. \A c \in calls'[s] : c.op \in Decision /\ c.t = t => c.to # Coordinator
      BY <2>2 DEF Quiet, StillStep
    <3> QED BY <3>1, <3>2 DEF Quiet
  <2> QED BY <1>1, <2>1, <2>2 DEF DoneInv
<1> QED BY <1>3, <1>4, <1>5, <1>6, <1>7, <1>8 DEF FinInv, StillStep

\* What was executed stays executed.
LEMMA FinishedSame ==
  ASSUME FinishedIsExecuted, prog' = prog, log' = log,
         \A u \in Txn : chop'[u].finished = chop[u].finished
  PROVE  FinishedIsExecuted'
<1>1. \A u, r, k : DeferredKeys(u, r)' = DeferredKeys(u, r) /\ Executed(k)' = Executed(k)
  BY DEF DeferredKeys, Executed
<1> QED BY <1>1 DEF FinishedIsExecuted

\* A transaction that an edge or an entry names runs where its pieces are.
LEMMA SiteInvolved ==
  ASSUME FinInv, NEW s \in Server, \A t \in Txn : \A p \in prog[t] : p.srv = s,
         NEW S, \A a \in S : \E x \in gra[s].e : x[1] = a
  PROVE  ToAsk(s, S) = {} /\ DecideCalls(s, S) = {}
<1>1. ASSUME NEW a \in S PROVE a \in Involved(gra[s], s)
  <2>1. PICK x \in gra[s].e : x[1] = a BY <1>1
  <2>2. a \in Txn /\ x[2] \in Txn /\ x \in AllEdges BY <2>1, FinTypes DEF FinInv
  <2>3. PICK k \in Touched(prog, x[2]) : last[k] = a BY <2>1, <2>2 DEF FinInv, EdgeInv
  <2>4. k \in Key /\ last[k] # NoTxn BY <2>2, <2>3, FinTypes, WorkloadAssumption DEF FinInv
  <2>5. PICK p \in prog[a] : p.kind # "ro" /\ k \in p.keys /\ p \in chop[a].got
    BY <2>3, <2>4 DEF FinInv, StopInv, EntryInv
  <2>6. p.srv = s BY <2>2, <2>5
  <2> QED BY <2>2, <2>5, <2>6 DEF FinInv, MarkInv, Involved
<1> QED BY <1>1 DEF ToAsk, DecideCalls

\* send_ask_req on one site.
LEMMA RunCallSite ==
  ASSUME FinInv, NEW s \in Server, NEW c \in calls[s], NEW new, NEW S,
         \A d \in new : d.op # "ask_reply",
         \A a \in S : \E x \in gra[s].e : x[1] = a, RunCall(s, c, new, S), prog' = prog
  PROVE  SiteInv'
<1> SUFFICES ASSUME NEW r \in Server, \A t \in Txn : \A p \in prog[t] : p.srv = r
             PROVE  /\ asks' = {} /\ \A d \in calls'[r] : d.op # "ask_reply"
                    /\ \A q \in Server : q # r => calls'[q] = {}
  BY DEF SiteInv
<1>1. /\ asks = {} /\ \A d \in calls[r] : d.op # "ask_reply"
      /\ \A q \in Server : q # r => calls[q] = {}
  BY DEF FinInv, SiteInv
<1>2. s = r BY <1>1
<1>3. ToAsk(s, S) = {} /\ DecideCalls(s, S) = {} BY <1>2, SiteInvolved
<1>4. AskReqs(s, S) = {} BY <1>3 DEF AskReqs
<1>5. /\ calls' = [calls EXCEPT ![s] = (@ \ {c}) \cup new \cup DecideCalls(s, S)]
      /\ asks' = asks \cup AskReqs(s, S)
  BY DEF RunCall
<1>6. calls = [q \in Server |-> calls[q]] BY FinTypes DEF FinInv
<1>7. /\ \A q \in Server : q # s => calls'[q] = calls[q]
      /\ calls'[s] = (calls[s] \ {c}) \cup new \cup DecideCalls(s, S)
  BY <1>5, <1>6
<1> QED BY <1>1, <1>2, <1>3, <1>4, <1>5, <1>7

\* On one site the server knows all edges into a transaction that has started.
LEMMA SiteKnows ==
  ASSUME FinInv, AtOneSite(prog), NEW s \in Server, NEW c \in calls[s], c.t \in StartedTxns,
         NEW x, Mate(x, c.t)
  PROVE  Edge(gra[s], x, c.t)
<1>1. PICK r \in Server : \A t \in Txn : \A p \in prog[t] : p.srv = r BY DEF AtOneSite
<1>2. r = s BY <1>1 DEF FinInv, SiteInv
<1>3. PICK k \in Touched(prog, c.t) : last[k] = x /\ x # c.t BY DEF Mate
<1>4. PICK p \in prog[c.t] : p.kind # "ro" /\ k \in p.keys BY <1>3 DEF Touched
<1>5. c.t \in Txn /\ p \in chop[c.t].started /\ p.srv = s
  BY <1>1, <1>2, <1>4 DEF StartedTxns
<1> QED BY <1>3, <1>4, <1>5 DEF FinInv, MarkInv

\* The callbacks and messages that send_ask_req leaves.
LEMMA RunCallCalls ==
  ASSUME FinInv, NEW s \in Server, NEW c \in calls[s], NEW new, NEW S, RunCall(s, c, new, S)
  PROVE  /\ \A q \in Server : \A d \in calls'[q] :
              \/ d \in calls[q]
              \/ q = s /\ d \in new
              \/ d.op = "to_decide" /\ d.t \in StartedTxns /\ d.to # Coordinator
         /\ \A m \in asks' : m \in asks \/ m.type = "ask"
<1>1. /\ calls' = [calls EXCEPT ![s] = (@ \ {c}) \cup new \cup DecideCalls(s, S)]
      /\ asks' = asks \cup AskReqs(s, S)
  BY DEF RunCall
<1>2. calls = [q \in Server |-> calls[q]] BY FinTypes DEF FinInv
<1>3. \A m \in AskReqs(s, S) : m.type = "ask" BY DEF AskReqs, AskReq
<1>4. gra[s].cmt \subseteq StartedTxns
  BY DEF FinInv, StopInv, ExecInv, GraphInv, GraphsGood, Good, GoodGraph
<1>5. Nobody # Coordinator
  <2>1. Nobody.who # Coordinator.who BY DEF Nobody, Coordinator
  <2> QED BY <2>1
<1>6. \A d \in DecideCalls(s, S) : d.op = "to_decide" /\ d.t \in StartedTxns /\ d.to # Coordinator
  BY <1>4, <1>5 DEF DecideCalls, Call
<1> HIDE DEF DecideCalls, AskReqs
<1> QED BY <1>1, <1>2, <1>3, <1>6

\* rcc_ro_start_pie keeps the invariant.
LEMMA StartRoFin ==
  ASSUME FinInv, StopInv', NEW t \in Txn, NEW p \in prog[t], StartRo(t, p)
  PROVE  FinInv'
<1>1. /\ UNCHANGED <<prog, gra, last, log, res, deciding, asks>> /\ p.kind = "ro"
      /\ chop' = [chop EXCEPT ![t].got = @ \cup {p}]
  BY DEF StartRo
<1>2. PICK W : calls' = [calls EXCEPT ![p.srv] = @ \cup {Call("ro_reply", t, W, Reader(p))}]
  BY DEF StartRo
<1>3. /\ chop \in [Txn -> Chopper] /\ calls = [s \in Server |-> calls[s]] /\ p \in Piece
  BY FinTypes DEF FinInv
<1>4. p.srv \in Server BY <1>3 DEF Piece
<1> PICK d : d = Call("ro_reply", t, W, Reader(p)) OBVIOUS
<1>5. d.op = "ro_reply" /\ d.to.p = p BY DEF Call, Reader
<1>6. \A s \in Server : calls'[s] = IF s = p.srv THEN calls[s] \cup {d} ELSE calls[s]
  BY <1>2, <1>3, <1>4
<1>7. \A u \in Txn : /\ chop'[u].gra = chop[u].gra /\ chop'[u].started = chop[u].started
                     /\ chop'[u].finished = chop[u].finished
                     /\ chop'[u].got = IF u = t THEN chop[u].got \cup {p} ELSE chop[u].got
  BY <1>1, <1>3 DEF Chopper
<1>8. StartedTxns' = StartedTxns BY <1>1, <1>7 DEF StartedTxns
<1>9. d.op \notin Decision /\ d.op \notin Decision \cup {"to_decide"} BY <1>5 DEF Decision
<1>10. \A s \in Server : \A c \in calls'[s] : c \in calls[s] \/ CallOK(s, c)'
  BY <1>1, <1>5, <1>6, <1>9 DEF CallOK
<1>11. SiteInv'
  <2> SUFFICES ASSUME NEW r \in Server, \A u \in Txn : \A q \in prog[u] : q.srv = r
               PROVE  /\ asks' = {} /\ \A c \in calls'[r] : c.op # "ask_reply"
                      /\ \A q \in Server : q # r => calls'[q] = {}
    BY <1>1 DEF SiteInv
  <2>1. p.srv = r OBVIOUS
  <2>2. /\ asks = {} /\ \A c \in calls[r] : c.op # "ask_reply"
        /\ \A q \in Server : q # r => calls[q] = {}
    BY DEF FinInv, SiteInv
  <2>3. \A c \in calls'[r] : c \in calls[r] \/ c = d BY <1>6
  <2>4. \A q \in Server : q # r => calls'[q] = calls[q] BY <1>6, <2>1
  <2>5. d.op # "ask_reply" BY <1>5
  <2>6. asks' = {} BY <1>1, <2>2
  <2> QED BY <2>2, <2>3, <2>4, <2>5, <2>6
<1>12. FinishedIsExecuted'
  BY <1>1, <1>7, FinishedSame DEF FinInv
<1>13. \A s \in Server : \A c \in calls'[s] : c.op \in Decision => c \in calls[s]
  BY <1>6, <1>9
<1>14. \A u \in Txn : \A q \in prog[u] : q.kind # "ro" =>
          /\ q \in chop'[u].got <=> q \in chop[u].got
          /\ q \in chop'[u].started <=> q \in chop[u].started
  BY <1>1, <1>7
<1>15. \A u \in Txn : chop'[u].gra = chop[u].gra /\ chop[u].started \subseteq chop'[u].started
  BY <1>7
<1>16. StillStep
  BY <1>1, <1>8, <1>10, <1>11, <1>12, <1>13, <1>14, <1>15 DEF StillStep
<1> QED BY <1>16, FinKept

\* rcc_ask_txn keeps the invariant.
LEMMA AskTxnFin ==
  ASSUME FinInv, StopInv', NEW m \in asks, AskTxn(m)
  PROVE  FinInv'
<1>1. /\ UNCHANGED <<prog, gra, last, log, res, deciding, chop>> /\ asks' = asks \ {m}
      /\ calls' = [calls EXCEPT ![m.s] =
                      @ \cup {Call("ask_reply", m.t, {m.t}, Asker(m.from))}]
  BY DEF AskTxn, coordVars
<1>2. calls = [s \in Server |-> calls[s]] BY FinTypes DEF FinInv
<1> PICK d : d = Call("ask_reply", m.t, {m.t}, Asker(m.from)) OBVIOUS
<1>3. d.op = "ask_reply" /\ d.wait = {d.t} BY DEF Call
<1>4. \A s \in Server : \A c \in calls'[s] : c \in calls[s] \/ c = d BY <1>1, <1>2
<1>5. d.op # "ro_reply" /\ d.op \notin Decision /\ d.op \notin Decision \cup {"to_decide"}
  BY <1>3 DEF Decision
<1>6. \A s \in Server : \A c \in calls'[s] : c \in calls[s] \/ CallOK(s, c)'
  BY <1>3, <1>4, <1>5 DEF CallOK
<1>7. SiteInv' BY <1>1 DEF FinInv, SiteInv
<1>8. StartedTxns' = StartedTxns BY <1>1 DEF StartedTxns
<1>9. FinishedIsExecuted' BY <1>1, FinishedSame DEF FinInv
<1>10. StillStep BY <1>1, <1>4, <1>5, <1>6, <1>7, <1>8, <1>9 DEF StillStep
<1> QED BY <1>10, FinKept

\* to_decide keeps the invariant: a decision that begins waits for the other
\* one of a cycle, or else for nobody.
LEMMA ToDecideFin ==
  ASSUME FinInv, InPairs, StopInv', NEW s \in Server, NEW c \in calls[s], ToDecide(s, c)
  PROVE  FinInv'
<1>1. UNCHANGED <<prog, gra, last, log, res, chop>> /\ c.op = "to_decide"
  BY DEF ToDecide, coordVars
<1> PICK g, anc : g = gra[s] /\ anc = Ancestors(g, c.t) OBVIOUS
<1> PICK d : d = Call("anc_finish", c.t, anc, c.to) OBVIOUS
<1> PICK new, S : IF c.t \in deciding[s] THEN new = {} /\ S = {} ELSE new = {d} /\ S = anc
  OBVIOUS
<1>2. /\ RunCall(s, c, new, S)
      /\ deciding' = IF c.t \in deciding[s] THEN deciding
                     ELSE [deciding EXCEPT ![s] = @ \cup {c.t}]
  BY DEF ToDecide
<1>3. /\ c.t \in Txn /\ g \in Graph /\ deciding \in [Server -> SUBSET Txn]
  BY FinTypes DEF FinInv
<1>4. d.op = "anc_finish" /\ d.t = c.t /\ d.wait = anc /\ d.to = c.to BY DEF Call
<1>5. \A a \in S : \E x \in gra[s].e : x[1] = a BY <1>3, AncestorsSources
<1>6. SiteInv'
  <2>1. \A e \in new : e.op # "ask_reply" BY <1>4
  <2> QED BY <1>1, <1>2, <1>5, <2>1, RunCallSite
<1>7. \A q \in Server : deciding[q] \subseteq deciding'[q] BY <1>2, <1>3
<1>8. StartedTxns' = StartedTxns BY <1>1 DEF StartedTxns
<1>9. c.t \in StartedTxns /\ (c.to = Coordinator => c.t \in res[s])
  BY <1>1 DEF FinInv, CallInv
<1>10. WaitOK(s, d)
  <2> SUFFICES ASSUME NEW x \in Txn, Mate(x, c.t)
               PROVE  IF Edge(g, x, c.t) THEN x \in anc \cup Finished(g) ELSE anc = {}
    BY <1>4 DEF WaitOK
  <2>1. CASE Edge(g, x, c.t)
    <3>1. x # c.t BY DEF Mate
    <3>2. x \in g.dcd \/ x \in anc BY <1>3, <2>1, <3>1, ParentIsAncestor
    <3> QED BY <2>1, <3>2 DEF Finished
  <2>2. CASE ~Edge(g, x, c.t) /\ ~AtOneSite(prog)
    BY <1>3, <2>2, UnknownMate DEF FinInv
  <2>3. CASE ~Edge(g, x, c.t) /\ AtOneSite(prog) BY <1>3, <1>9, <2>3, SiteKnows
  <2> QED BY <2>1, <2>2, <2>3
<1>11. d.t \in deciding'[s] \/ new = {} BY <1>2, <1>3, <1>4
<1>12. d \in new => CallOK(s, d)'
  <2>1. WaitOK(s, d)' BY <1>1, <1>10 DEF WaitOK, Mate, Edge, Finished
  <2> QED BY <1>1, <1>4, <1>8, <1>9, <1>11, <2>1 DEF CallOK
<1>13. \A q \in Server : \A b \in calls'[q] :
          \/ b \in calls[q]
          \/ q = s /\ b = d /\ d \in new
          \/ b.op = "to_decide" /\ b.t \in StartedTxns /\ b.to # Coordinator
  <2>1. new \subseteq {d} OBVIOUS
  <2> QED BY <1>2, <2>1, RunCallCalls
<1>14. \A q \in Server : \A b \in calls'[q] : b \in calls[q] \/ CallOK(q, b)'
  BY <1>8, <1>12, <1>13 DEF CallOK, Decision
<1>15. \A q \in Server : \A b \in calls'[q] :
         b.op \in Decision /\ b.to = Coordinator =>
            \/ \E e \in calls[q] : e.op \in Decision /\ e.t = b.t /\ e.to = Coordinator
            \/ b.t \notin deciding[q]
  <2>1. d \in new => d.t \notin deciding[s] BY <1>4
  <2> QED BY <1>13, <2>1 DEF Decision
<1>16. \A m \in asks' : m \in asks \/ m.type # "asked" BY <1>2, RunCallCalls
<1>17. FinishedIsExecuted' BY <1>1, FinishedSame DEF FinInv
<1>18. StillStep
  BY <1>1, <1>6, <1>7, <1>8, <1>14, <1>15, <1>16, <1>17 DEF StillStep
<1> QED BY <1>18, FinKept

\* anc_finish_cb keeps the invariant: what the decision waited for is
\* committing now.
LEMMA AncFinishFin ==
  ASSUME FinInv, InPairs, StopInv', NEW s \in Server, NEW c \in calls[s], Runnable(s, c),
         AncFinish(s, c)
  PROVE  FinInv'
<1>1. UNCHANGED <<prog, gra, last, log, res, deciding, chop>> /\ c.op = "anc_finish"
  BY DEF AncFinish, coordVars
<1> PICK g, S : g = gra[s] /\ S = SccParents(g, c.t) OBVIOUS
<1> PICK d : d = Call("scc_commit", c.t, S, c.to) OBVIOUS
<1>2. RunCall(s, c, {d}, S) BY DEF AncFinish
<1>3. c.t \in Txn /\ g \in Graph BY FinTypes DEF FinInv
<1>4. d.op = "scc_commit" /\ d.t = c.t /\ d.wait = S /\ d.to = c.to BY DEF Call
<1>5. \A a \in S : \E x \in gra[s].e : x[1] = a BY <1>3, AncestorsSources
<1>6. SiteInv'
  <2>1. \A e \in {d} : e.op # "ask_reply" BY <1>4
  <2> QED BY <1>1, <1>2, <1>5, <2>1, RunCallSite
<1>7. StartedTxns' = StartedTxns BY <1>1 DEF StartedTxns
<1>8. /\ c.t \in StartedTxns /\ (c.to = Coordinator => c.t \in res[s])
      /\ c.t \in deciding[s] /\ WaitOK(s, c)
  BY <1>1 DEF FinInv, CallInv, Decision
<1>9. c.wait \subseteq Finished(g) BY <1>1 DEF Runnable, Triggered
<1>10. WaitOK(s, d)
  <2> SUFFICES ASSUME NEW x \in Txn, Mate(x, c.t)
               PROVE  IF Edge(g, x, c.t) THEN x \in S \cup Finished(g) ELSE S = {}
    BY <1>4 DEF WaitOK
  <2>1. CASE Edge(g, x, c.t) BY <1>8, <1>9, <2>1 DEF WaitOK
  <2>2. CASE ~Edge(g, x, c.t) /\ ~AtOneSite(prog)
    BY <1>3, <2>2, UnknownMate DEF FinInv
  <2>3. CASE ~Edge(g, x, c.t) /\ AtOneSite(prog) BY <1>3, <1>8, <2>3, SiteKnows
  <2> QED BY <2>1, <2>2, <2>3
<1>11. CallOK(s, d)'
  <2>1. WaitOK(s, d)' BY <1>1, <1>10 DEF WaitOK, Mate, Edge, Finished
  <2> QED BY <1>1, <1>4, <1>7, <1>8, <2>1 DEF CallOK
<1>12. \A q \in Server : \A b \in calls'[q] :
          \/ b \in calls[q]
          \/ q = s /\ b = d
          \/ b.op = "to_decide" /\ b.t \in StartedTxns /\ b.to # Coordinator
  BY <1>2, RunCallCalls
<1>13. \A q \in Server : \A b \in calls'[q] : b \in calls[q] \/ CallOK(q, b)'
  BY <1>7, <1>11, <1>12 DEF CallOK, Decision
<1>14. \A q \in Server : \A b \in calls'[q] :
         b.op \in Decision /\ b.to = Coordinator =>
            \E e \in calls[q] : e.op \in Decision /\ e.t = b.t /\ e.to = Coordinator
  BY <1>1, <1>4, <1>12 DEF Decision
<1>15. \A m \in asks' : m \in asks \/ m.type # "asked" BY <1>2, RunCallCalls
<1>16. FinishedIsExecuted' BY <1>1, FinishedSame DEF FinInv
<1>17. StillStep
  BY <1>1, <1>6, <1>7, <1>13, <1>14, <1>15, <1>16 DEF StillStep
<1> QED BY <1>17, FinKept

\* The reply to a finish request.
LEMMA ReplyToFin ==
  ASSUME StopInv, NEW s \in Server, NEW c \in calls[s], ReplyTo(c, s)
  PROVE  \A u \in Txn :
           /\ chop'[u].gra = chop[u].gra /\ chop'[u].started = chop[u].started
           /\ chop'[u].got = chop[u].got
           /\ \A r \in chop'[u].finished :
                 r \in chop[u].finished \/ (u = c.t /\ c.to = Coordinator /\ r = s)
<1>1. c.t \in Txn /\ chop \in [Txn -> Chopper] BY FinTypes
<1>2. CASE c.to = Coordinator
  <2>1. chop' = [chop EXCEPT ![c.t].finished = chop[c.t].finished \cup {s}]
    BY <1>2 DEF ReplyTo, OnFinished
  <2> QED BY <1>1, <1>2, <2>1 DEF Chopper
<1>3. CASE c.to # Coordinator
  <2>1. chop' = chop BY <1>3 DEF ReplyTo, coordVars
  <2> QED BY <1>3, <2>1
<1> QED BY <1>2, <1>3

\* scc_anc_commit_cb, decided already, keeps the invariant: it has a reply to
\* send only if the pieces were executed.
LEMMA SccDecidedFin ==
  ASSUME FinInv, StopInv', NEW s \in Server, NEW c \in calls[s], SccDecided(s, c)
  PROVE  FinInv'
<1>1. /\ UNCHANGED <<prog, gra, last, log, res, deciding>> /\ c.op = "scc_commit"
      /\ c.t \in gra[s].dcd /\ RunCall(s, c, {}, {}) /\ ReplyTo(c, s)
  BY DEF SccDecided
<1>2. \A u \in Txn :
           /\ chop'[u].gra = chop[u].gra /\ chop'[u].started = chop[u].started
           /\ chop'[u].got = chop[u].got
           /\ \A r \in chop'[u].finished :
                 r \in chop[u].finished \/ (u = c.t /\ c.to = Coordinator /\ r = s)
  BY <1>1, ReplyToFin DEF FinInv
<1>3. StartedTxns' = StartedTxns BY <1>1, <1>2 DEF StartedTxns
<1>4. SiteInv' BY <1>1, RunCallSite
<1>5. \A q \in Server : \A b \in calls'[q] :
          \/ b \in calls[q]
          \/ b.op = "to_decide" /\ b.t \in StartedTxns /\ b.to # Coordinator
  BY <1>1, RunCallCalls
<1>6. \A q \in Server : \A b \in calls'[q] : b \in calls[q] \/ CallOK(q, b)'
  BY <1>3, <1>5 DEF CallOK, Decision
<1>7. \A q \in Server : \A b \in calls'[q] : b.op \in Decision => b \in calls[q]
  BY <1>5 DEF Decision
<1>8. \A m \in asks' : m \in asks \/ m.type # "asked" BY <1>1, RunCallCalls
<1>9. c.to = Coordinator => \A k \in DeferredKeys(c.t, s) : c.t \in Executed(k)
  <2> SUFFICES ASSUME c.to = Coordinator, NEW k \in DeferredKeys(c.t, s)
               PROVE  c.t \in Executed(k)
    OBVIOUS
  <2>1. PICK p \in prog[c.t] : p.srv = s /\ p.kind = "def" BY DEF DeferredKeys
  <2>2. RunsAt(c.t, s) BY <2>1 DEF RunsAt
  <2>3. ~Quiet(c.t, s) BY <1>1 DEF Quiet, Decision
  <2> QED BY <1>1, <2>2, <2>3 DEF FinInv, DoneInv, Done
<1>10. FinishedIsExecuted'
  <2>1. \A u, r, k : DeferredKeys(u, r)' = DeferredKeys(u, r) /\ Executed(k)' = Executed(k)
    BY <1>1 DEF DeferredKeys, Executed
  <2> SUFFICES ASSUME NEW u \in Txn, NEW r \in chop'[u].finished, NEW k \in DeferredKeys(u, r)
               PROVE  u \in Executed(k)
    BY <2>1 DEF FinishedIsExecuted
  <2>2. CASE r \in chop[u].finished BY <2>2 DEF FinInv, FinishedIsExecuted
  <2>3. CASE r \notin chop[u].finished
    <3>1. u = c.t /\ c.to = Coordinator /\ r = s BY <1>2, <2>3
    <3> QED BY <1>9, <3>1
  <2> QED BY <2>2, <2>3
<1>11. StillStep
  BY <1>1, <1>2, <1>3, <1>4, <1>6, <1>7, <1>8, <1>10 DEF StillStep
<1> QED BY <1>11, FinKept

\* A failed verify() keeps the invariant.
LEMMA SccAbortFin ==
  ASSUME FinInv, StopInv', NEW s \in Server, NEW c \in calls[s], SccAbort(s, c)
  PROVE  FinInv'
<1>1. UNCHANGED <<prog, gra, last, log, res, deciding, chop, calls, asks>>
  BY DEF SccAbort, coordVars
<1>2. StartedTxns' = StartedTxns BY <1>1 DEF StartedTxns
<1>3. SiteInv' BY <1>1 DEF FinInv, SiteInv
<1>4. FinishedIsExecuted' BY <1>1, FinishedSame DEF FinInv
<1>5. StillStep BY <1>1, <1>2, <1>3, <1>4 DEF StillStep
<1> QED BY <1>5, FinKept

\* So does the end of a start_ro.
LEMMA SendReadFin ==
  ASSUME FinInv, StopInv', NEW s \in Server, NEW c \in calls[s], SendRead(s, c)
  PROVE  FinInv'
<1>1. /\ UNCHANGED <<prog, gra, last, log, res, deciding, asks>> /\ c.op = "ro_reply"
      /\ calls' = [calls EXCEPT ![s] = @ \ {c}]
      /\ chop' = [chop EXCEPT ![c.t].started = chop[c.t].started \cup {c.to.p}]
  BY DEF SendRead, OnRead
<1>2. c.t \in Txn /\ chop \in [Txn -> Chopper] /\ calls = [r \in Server |-> calls[r]]
  BY FinTypes DEF FinInv
<1>3. c.to.p \in prog[c.t] /\ c.to.p.kind = "ro"
  BY <1>1 DEF FinInv, CallInv, StopInv, ExecInv, GraphInv, CallsOK
<1>4. \A u \in Txn :
           /\ chop'[u].gra = chop[u].gra /\ chop'[u].got = chop[u].got
           /\ chop'[u].finished = chop[u].finished
           /\ chop'[u].started = IF u = c.t THEN chop[u].started \cup {c.to.p}
                                 ELSE chop[u].started
  BY <1>1, <1>2 DEF Chopper
<1>5. StartedTxns \subseteq StartedTxns' BY <1>1, <1>3, <1>4 DEF StartedTxns
<1>6. \A r \in Server : calls'[r] \subseteq calls[r] BY <1>1, <1>2
<1>7. SiteInv' BY <1>1, <1>6 DEF FinInv, SiteInv
<1>8. FinishedIsExecuted'
  BY <1>1, <1>4, FinishedSame DEF FinInv
<1>9. \A u \in Txn : \A p \in prog[u] : p.kind # "ro" =>
          /\ p \in chop'[u].got <=> p \in chop[u].got
          /\ p \in chop'[u].started <=> p \in chop[u].started
  BY <1>3, <1>4
<1>10. StillStep BY <1>1, <1>4, <1>5, <1>6, <1>7, <1>8, <1>9 DEF StillStep
<1> QED BY <1>10, FinKept

\* The answer of rcc_ask_txn is about a transaction that has started.
LEMMA SendAnswerFin ==
  ASSUME FinInv, StopInv', NEW s \in Server, NEW c \in calls[s], Runnable(s, c),
         SendAnswer(s, c)
  PROVE  FinInv'
<1> PICK g, n : g = gra[s] /\ n = AskRsp(c.t, c.to.s, SubGraph(gra[s], c.t)) OBVIOUS
<1>1. /\ UNCHANGED <<prog, gra, last, log, res, deciding, chop>> /\ c.op = "ask_reply"
      /\ calls' = [calls EXCEPT ![s] = @ \ {c}] /\ asks' = asks \cup {n}
  BY DEF SendAnswer, coordVars
<1>2. calls = [r \in Server |-> calls[r]] BY FinTypes DEF FinInv
<1>3. StartedTxns' = StartedTxns BY <1>1 DEF StartedTxns
<1>4. n.t = c.t /\ n.g = SubGraph(g, c.t) BY DEF AskRsp
<1>5. g.dcd \subseteq StartedTxns /\ g.cmt \subseteq StartedTxns
  BY DEF FinInv, DecidedInv, StopInv, ExecInv, GraphInv, GraphsGood, Good, GoodGraph
<1>6. n.g.dcd \subseteq StartedTxns
  <2>1. SubGraph(g, c.t).dcd \subseteq g.dcd BY DEF SubGraph
  <2> QED BY <1>4, <1>5, <2>1
<1>7. c.t \in StartedTxns
  <2>1. {c.t} \subseteq Finished(g) BY <1>1 DEF Runnable, Triggered, FinInv, CallInv
  <2> QED BY <1>5, <2>1 DEF Finished
<1>8. \A r \in Server : calls'[r] \subseteq calls[r] BY <1>1, <1>2
<1>9. SiteInv'
  <2> SUFFICES ASSUME NEW r \in Server, \A u \in Txn : \A q \in prog[u] : q.srv = r PROVE FALSE
    BY <1>1 DEF SiteInv
  <2> QED BY <1>1 DEF FinInv, SiteInv
<1>10. FinishedIsExecuted' BY <1>1, FinishedSame DEF FinInv
<1>11. StillStep BY <1>1, <1>3, <1>4, <1>6, <1>7, <1>8, <1>9, <1>10 DEF StillStep
<1> QED BY <1>11, FinKept

\* A graph that is merged says nothing about the status of a transaction that
\* runs here: that transaction has started, so its vertex is here.
LEMMA MergeHome ==
  ASSUME FinInv, NEW s \in Server, NEW h, h.cmt \subseteq StartedTxns, h.dcd \subseteq StartedTxns,
         NEW g, g = UnionAtServer(s, gra[s], h)
  PROVE  /\ g.v = gra[s].v \cup h.v /\ g.srv = gra[s].srv \cup h.srv /\ g.e = gra[s].e \cup h.e
         /\ gra[s].cmt \subseteq g.cmt /\ g.cmt \subseteq gra[s].cmt \cup h.cmt
         /\ gra[s].dcd \subseteq g.dcd /\ g.dcd \subseteq gra[s].dcd \cup h.dcd
         /\ \A t \in Txn : RunsAt(t, s) => /\ t \in g.cmt => t \in gra[s].cmt
                                           /\ t \in g.dcd => t \in gra[s].dcd
<1> DEFINE new == {t \in h.v : t \in gra[s].v => <<t, s>> \notin gra[s].srv \cup h.srv}
<1>1. /\ g.v = gra[s].v \cup h.v /\ g.srv = gra[s].srv \cup h.srv /\ g.e = gra[s].e \cup h.e
      /\ g.cmt = gra[s].cmt \cup (h.cmt \cap new) /\ g.dcd = gra[s].dcd \cup (h.dcd \cap new)
  BY DEF UnionAtServer, UnionGraph
<1>2. ASSUME NEW t \in Txn, RunsAt(t, s), t \in StartedTxns PROVE t \notin new
  <2>1. PICK p \in prog[t] : p.srv = s /\ p.kind # "ro" BY <1>2 DEF RunsAt
  <2>2. p \in chop[t].started BY <1>2 DEF StartedTxns
  <2>3. t \in gra[s].v /\ <<t, s>> \in gra[s].srv BY <2>1, <2>2 DEF FinInv, MarkInv
  <2> QED BY <2>3
<1> HIDE DEF new
<1> QED BY <1>1, <1>2

\* A step that merges graph h at server s, T are the transactions it marks as
\* committing and d is the call it leaves.
MergeStep(s, h, T, d) ==
    /\ Idle(s) \/ h.e \subseteq gra[s].e
    /\ h.cmt \subseteq StartedTxns /\ h.dcd \subseteq StartedTxns /\ KnownIn(h, AllEdges)
    /\ T \subseteq StartedTxns
    /\ LET g == UnionAtServer(s, gra[s], h)
       IN  /\ gra'[s].v = g.v /\ gra'[s].srv = g.srv /\ gra'[s].e = g.e
           /\ gra'[s].cmt = g.cmt \cup T /\ gra'[s].dcd = g.dcd
    /\ \A r \in Server : r # s => gra'[r] = gra[r]
    /\ prog' = prog /\ last' = last /\ log' = log /\ deciding' = deciding /\ chop' = chop
    /\ \A r \in Server : res'[r] = IF r = s THEN res[r] \cup T ELSE res[r]
    /\ d.op \in {"commit", "to_decide"} /\ d.t \in StartedTxns
    /\ d.op = "to_decide" /\ d.to = Coordinator => d.t \in T
    /\ calls'[s] \subseteq calls[s] \cup {d} /\ \A r \in Server : r # s => calls'[r] = calls[r]
    /\ asks' \subseteq asks
    /\ \A r \in Server : (\A t \in Txn : \A p \in prog[t] : p.srv = r) => r = s

\* Such a step keeps the invariant.  If the graph brings news of a cycle to
\* a decision, that decision does not wait, so it would have run before.
LEMMA MergeFin ==
  ASSUME FinInv, StopInv', NEW s \in Server, NEW h, NEW T, NEW d, MergeStep(s, h, T, d)
  PROVE  FinInv'
<1>0. PICK g : /\ g = UnionAtServer(s, gra[s], h)
               /\ gra'[s].v = g.v /\ gra'[s].srv = g.srv /\ gra'[s].e = g.e
               /\ gra'[s].cmt = g.cmt \cup T /\ gra'[s].dcd = g.dcd
  BY DEF MergeStep
<1>a. /\ h.cmt \subseteq StartedTxns /\ h.dcd \subseteq StartedTxns /\ KnownIn(h, AllEdges)
      /\ T \subseteq StartedTxns /\ (Idle(s) \/ h.e \subseteq gra[s].e)
      /\ \A r \in Server : res'[r] = IF r = s THEN res[r] \cup T ELSE res[r]
      /\ d.op \in {"commit", "to_decide"} /\ d.t \in StartedTxns
      /\ d.op = "to_decide" /\ d.to = Coordinator => d.t \in T
      /\ asks' \subseteq asks
      /\ \A r \in Server : (\A t \in Txn : \A p \in prog[t] : p.srv = r) => r = s
  BY DEF MergeStep
<1>1. /\ StopInv /\ MarkInv /\ EdgeInv /\ DecidedInv /\ HomeInv
      /\ CallInv /\ SiteInv /\ DoneInv /\ FinishedIsExecuted
  BY DEF FinInv
<1>2. /\ prog' = prog /\ last' = last /\ log' = log /\ deciding' = deciding /\ chop' = chop
      /\ gra \in [Server -> Graph] /\ calls = [r \in Server |-> calls[r]]
      /\ prog \in [Txn -> SUBSET Piece]
  BY FinTypes DEF FinInv, MergeStep
<1>3. StartedTxns' = StartedTxns BY <1>2 DEF StartedTxns
<1>4. /\ \A r \in Server : r # s => gra'[r] = gra[r]
      /\ calls'[s] \subseteq calls[s] \cup {d} /\ \A r \in Server : r # s => calls'[r] = calls[r]
  BY DEF MergeStep
<1>5. /\ g.v = gra[s].v \cup h.v /\ g.srv = gra[s].srv \cup h.srv /\ g.e = gra[s].e \cup h.e
      /\ gra[s].cmt \subseteq g.cmt /\ g.cmt \subseteq gra[s].cmt \cup h.cmt
      /\ gra[s].dcd \subseteq g.dcd /\ g.dcd \subseteq gra[s].dcd \cup h.dcd
      /\ \A t \in Txn : RunsAt(t, s) => /\ t \in g.cmt => t \in gra[s].cmt
                                        /\ t \in g.dcd => t \in gra[s].dcd
  BY <1>0, <1>a, MergeHome
<1>6. \A r \in Server : /\ gra[r].v \subseteq gra'[r].v /\ gra[r].srv \subseteq gra'[r].srv
                        /\ gra[r].e \subseteq gra'[r].e
                        /\ gra[r].cmt \subseteq gra'[r].cmt /\ gra[r].dcd \subseteq gra'[r].dcd
  BY <1>0, <1>4, <1>5
<1>7. \A r \in Server : \A a, b : Edge(gra[r], a, b) => Edge(gra'[r], a, b) BY <1>6 DEF Edge
<1>8. MarkInv'
  <2> SUFFICES ASSUME NEW t \in Txn, NEW p \in prog[t], p.kind # "ro"
               PROVE  /\ p \in chop[t].started => p \in chop[t].got
                      /\ p \in chop[t].got =>
                           /\ t \in gra'[p.srv].v /\ <<t, p.srv>> \in gra'[p.srv].srv
                           /\ \A k \in p.keys : /\ last[k] # NoTxn
                                                /\ last[k] # t => Edge(gra'[p.srv], last[k], t)
    BY <1>2 DEF MarkInv, Edge
  <2>1. p \in Piece BY <1>2
  <2>2. p.srv \in Server BY <2>1 DEF Piece
  <2> QED BY <1>1, <1>6, <1>7, <2>2 DEF MarkInv
<1>9. EdgeInv'
  <2>1. \A r \in Server : gra'[r].e \subseteq AllEdges
    <3>1. gra[s].e \subseteq AllEdges /\ \A r \in Server : gra[r].e \subseteq AllEdges
      BY DEF AllEdges
    <3> QED BY <1>0, <1>a, <1>4, <1>5, <3>1 DEF KnownIn
  <2>2. AllEdges' \subseteq AllEdges BY <2>1 DEF AllEdges
  <2> QED BY <1>1, <1>2, <2>2 DEF EdgeInv
<1>10. DecidedInv'
  <2>1. \A r \in Server : gra'[r].dcd \subseteq StartedTxns BY <1>0, <1>a, <1>1, <1>4, <1>5 DEF DecidedInv
  <2> QED BY <1>a, <1>1, <1>2, <1>3, <2>1 DEF DecidedInv
<1>11. \A t, r : RunsAt(t, r)' = RunsAt(t, r) BY <1>2 DEF RunsAt
<1>12. HomeInv'
  <2> SUFFICES ASSUME NEW r \in Server, NEW t \in gra'[r].cmt, RunsAt(t, r) PROVE t \in res'[r]
    BY <1>11 DEF HomeInv
  <2>1. CASE r # s BY <1>a, <1>1, <1>4, <2>1 DEF HomeInv
  <2>2. CASE r = s
    <3>1. t \in T \/ t \in g.cmt BY <1>0, <2>2
    <3>2. t \in g.cmt => t \in Txn
      <4>1. gra[s].cmt \subseteq Txn /\ StartedTxns \subseteq Txn BY <1>2 DEF Graph, StartedTxns
      <4> QED BY <1>a, <1>5, <4>1
    <3> QED BY <1>a, <1>1, <1>5, <2>2, <3>1, <3>2 DEF HomeInv
  <2> QED BY <2>1, <2>2
<1>13. CallInv'
  <2> SUFFICES ASSUME NEW r \in Server, NEW c \in calls'[r] PROVE CallOK(r, c)'
    BY DEF CallInv, CallOK
  <2>1. CASE c \notin calls[r]
    <3>1. r = s /\ c = d BY <1>4, <2>1
    <3> QED BY <1>a, <1>3, <3>1 DEF CallOK, Decision
  <2>2. CASE c \in calls[r]
    <3>1. CallOK(r, c) BY <1>1, <2>2 DEF CallInv, CallOK
    <3>2. res[r] \subseteq res'[r] BY <1>a
    <3>3. ASSUME c.op \in Decision PROVE WaitOK(r, c)'
      <4>1. WaitOK(r, c) BY <3>1, <3>3 DEF CallOK
      <4> SUFFICES ASSUME NEW x \in Txn, Mate(x, c.t)
                   PROVE  IF Edge(gra'[r], x, c.t) THEN x \in c.wait \cup Finished(gra'[r])
                                                   ELSE c.wait = {}
        BY <1>2 DEF WaitOK, Mate, Edge, Finished
      <4>2. CASE Edge(gra[r], x, c.t)
        <5>1. Edge(gra'[r], x, c.t) BY <1>7, <4>2
        <5>2. x \in c.wait \cup Finished(gra[r]) BY <4>1, <4>2 DEF WaitOK
        <5>3. Finished(gra[r]) \subseteq Finished(gra'[r]) BY <1>6 DEF Finished
        <5> QED BY <5>1, <5>2, <5>3
      <4>3. CASE ~Edge(gra[r], x, c.t) /\ (r # s \/ h.e \subseteq gra[s].e)
        <5>1. gra'[r].e = gra[r].e BY <1>0, <1>4, <1>5, <4>3
        <5>2. ~Edge(gra'[r], x, c.t) BY <4>3, <5>1 DEF Edge
        <5> QED BY <4>1, <4>3, <5>2 DEF WaitOK
      <4>4. CASE ~Edge(gra[r], x, c.t) /\ r = s /\ Idle(s)
        <5>1. c.wait = {} BY <4>1, <4>4 DEF WaitOK
        <5>2. Runnable(s, c) BY <3>3, <4>4, <5>1 DEF Runnable, Triggered, Idle, Decision
        <5> QED BY <2>2, <4>4, <5>2 DEF Idle
      <4> QED BY <1>a, <4>2, <4>3, <4>4
    <3> QED BY <1>2, <1>3, <3>1, <3>2, <3>3 DEF CallOK
  <2> QED BY <2>1, <2>2
<1>14. SiteInv'
  <2> SUFFICES ASSUME NEW r \in Server, \A t \in Txn : \A p \in prog[t] : p.srv = r
               PROVE  /\ asks' = {} /\ \A c \in calls'[r] : c.op # "ask_reply"
                      /\ \A q \in Server : q # r => calls'[q] = {}
    BY <1>2 DEF SiteInv
  <2>1. r = s BY <1>a
  <2>2. /\ asks = {} /\ \A c \in calls[r] : c.op # "ask_reply"
        /\ \A q \in Server : q # r => calls[q] = {}
    BY <1>1 DEF SiteInv
  <2>3. asks' = {} BY <1>a, <2>2
  <2>4. d.op # "ask_reply" BY <1>a
  <2> QED BY <1>4, <2>1, <2>2, <2>3, <2>4
<1>15. \A t, r, k : DeferredKeys(t, r)' = DeferredKeys(t, r) /\ Executed(k)' = Executed(k)
  BY <1>2 DEF DeferredKeys, Executed
<1>16. DoneInv'
  <2> SUFFICES ASSUME NEW r \in Server, NEW t \in gra'[r].dcd, RunsAt(t, r)
               PROVE  Done(t, r)' \/ Quiet(t, r)'
    BY <1>11 DEF DoneInv
  <2>1. t \in gra[r].dcd
    <3>1. CASE r # s BY <1>4, <3>1
    <3>2. CASE r = s
      <4>1. gra[s].dcd \subseteq Txn /\ StartedTxns \subseteq Txn BY <1>2 DEF Graph, StartedTxns
      <4>2. t \in g.dcd /\ t \in Txn BY <1>0, <1>a, <1>5, <3>2, <4>1
      <4> QED BY <1>5, <3>2, <4>2
    <3> QED BY <3>1, <3>2
  <2>2. Done(t, r) => Done(t, r)' BY <1>15 DEF Done
  <2>3. ASSUME Quiet(t, r) PROVE Quiet(t, r)'
    <3>1. \A c \in calls'[r] : c.op \in Decision => c \in calls[r] BY <1>a, <1>4 DEF Decision
    <3> QED BY <1>2, <2>3, <3>1 DEF Quiet
  <2> QED BY <1>1, <2>1, <2>2, <2>3 DEF DoneInv
<1>17. FinishedIsExecuted' BY <1>1, <1>2, <1>15 DEF FinishedIsExecuted
<1> QED BY <1>8, <1>9, <1>10, <1>12, <1>13, <1>14, <1>16, <1>17 DEF FinInv

\* rcc_finish_txn keeps the invariant.
LEMMA FinishTxnFin ==
  ASSUME FinInv, StopInv', NEW t \in Txn, NEW s \in Server, FinishTxn(t, s)
  PROVE  FinInv'
<1> PICK h, g, d : /\ h = chop[t].gra /\ g = UnionAtServer(s, gra[s], h)
                   /\ d = Call("commit", t, {}, Coordinator)
  OBVIOUS
<1>1. /\ UNCHANGED <<prog, last, log, res, deciding, chop, asks>> /\ Idle(s)
      /\ gra' = [gra EXCEPT ![s] = g]
      /\ calls' = [calls EXCEPT ![s] = @ \cup {d}] /\ s \in ServersOf(t) /\ Started(t)
  BY DEF FinishTxn, coordVars
<1>2. h.cmt \subseteq StartedTxns /\ h.dcd \subseteq StartedTxns /\ KnownIn(h, AllEdges)
  BY DEF FinInv, DecidedInv, StopInv, KnownInv, ExecInv, GraphInv, GraphsGood, Good, GoodGraph
<1>3. t \in StartedTxns BY <1>1 DEF Started, StartedTxns
<1>4. {} \in SUBSET StartedTxns /\ g.cmt = g.cmt \cup {} OBVIOUS
<1>5. \A r \in Server : res'[r] = IF r = s THEN res[r] \cup {} ELSE res[r] BY <1>1
<1>6. d.op = "commit" /\ d.t = t BY DEF Call
<1>7. \A r \in Server : (\A u \in Txn : \A p \in prog[u] : p.srv = r) => r = s
  BY <1>1 DEF ServersOf
<1>8. gra \in [Server -> Graph] /\ calls = [r \in Server |-> calls[r]]
  BY FinTypes DEF FinInv
<1>9. /\ gra'[s] = g /\ \A r \in Server : r # s => gra'[r] = gra[r]
      /\ calls'[s] = calls[s] \cup {d} /\ \A r \in Server : r # s => calls'[r] = calls[r]
  BY <1>1, <1>8
<1>10. MergeStep(s, h, {}, d)
  BY <1>1, <1>2, <1>3, <1>4, <1>5, <1>6, <1>7, <1>9 DEF MergeStep
<1> QED BY <1>10, MergeFin

\* So does the rest of commit, which merges nothing.
LEMMA CommitFin ==
  ASSUME FinInv, StopInv', NEW s \in Server, NEW c \in calls[s], Commit(s, c)
  PROVE  FinInv'
<1> PICK h, g, d : /\ h = EmptyGraph /\ g = UnionAtServer(s, gra[s], h)
                   /\ d = Call("to_decide", c.t, {}, c.to)
  OBVIOUS
<1>1. /\ UNCHANGED <<prog, last, log, deciding, chop, asks>> /\ c.op = "commit"
      /\ gra' = [gra EXCEPT ![s].cmt = @ \cup {c.t}] /\ res' = [res EXCEPT ![s] = @ \cup {c.t}]
      /\ calls' = [calls EXCEPT ![s] = (@ \ {c}) \cup {d}]
  BY DEF Commit, coordVars
<1>2. /\ gra \in [Server -> Graph] /\ calls = [r \in Server |-> calls[r]]
      /\ res \in [Server -> SUBSET Txn]
  BY FinTypes DEF FinInv
<1>3. c.t \in StartedTxns BY <1>1 DEF FinInv, StopInv, ExecInv, GraphInv, CallsOK
<1>4. h.v = {} /\ h.cmt = {} /\ h.dcd = {} /\ h.srv = {} /\ h.e = {} BY DEF EmptyGraph
<1>5. h.cmt \subseteq StartedTxns /\ h.dcd \subseteq StartedTxns /\ KnownIn(h, AllEdges)
  BY <1>4 DEF KnownIn, Rooted
<1>6. /\ g.v = gra[s].v /\ g.srv = gra[s].srv /\ g.e = gra[s].e
      /\ g.cmt = gra[s].cmt /\ g.dcd = gra[s].dcd
  BY <1>4 DEF UnionAtServer, UnionGraph
<1>7. /\ gra'[s].v = g.v /\ gra'[s].srv = g.srv /\ gra'[s].e = g.e
      /\ gra'[s].cmt = g.cmt \cup {c.t} /\ gra'[s].dcd = g.dcd
  BY <1>1, <1>2, <1>6 DEF Graph
<1>8. \A r \in Server : res'[r] = IF r = s THEN res[r] \cup {c.t} ELSE res[r] BY <1>1, <1>2
<1>9. d.op = "to_decide" /\ d.t = c.t BY DEF Call
<1>10. \A r \in Server : (\A u \in Txn : \A p \in prog[u] : p.srv = r) => r = s
  BY DEF FinInv, SiteInv
<1>11. /\ \A r \in Server : r # s => gra'[r] = gra[r]
       /\ calls'[s] \subseteq calls[s] \cup {d} /\ \A r \in Server : r # s => calls'[r] = calls[r]
  BY <1>1, <1>2
<1>12. MergeStep(s, h, {c.t}, d)
  BY <1>1, <1>3, <1>4, <1>5, <1>7, <1>8, <1>9, <1>10, <1>11 DEF MergeStep
<1> QED BY <1>12, MergeFin

\* So does the callback of async_rcc_ask_txn.
LEMMA AskReplyFin ==
  ASSUME FinInv, StopInv', NEW m \in asks, m.s \in Server, AskReply(m)
  PROVE  FinInv'
<1> PICK s, h, g, d : /\ s = m.s /\ h = m.g /\ g = UnionAtServer(s, gra[s], h)
                      /\ d = Call("to_decide", m.t, {}, Nobody)
  OBVIOUS
<1>1. /\ UNCHANGED <<prog, last, log, deciding, chop, res>> /\ asks' = asks \ {m} /\ Idle(s)
      /\ calls' = [calls EXCEPT ![s] = @ \cup {d}] /\ m.type = "asked"
      /\ gra' = [gra EXCEPT ![s] = UnionAtServer(s, @, h)]
  BY DEF AskReply, coordVars
<1>2. gra \in [Server -> Graph] BY FinTypes DEF FinInv
<1>3. gra' = [gra EXCEPT ![s] = g] BY <1>1, <1>2
<1>4. /\ h.cmt \subseteq StartedTxns /\ h.dcd \subseteq StartedTxns /\ KnownIn(h, AllEdges)
      /\ m.t \in StartedTxns
  BY <1>1 DEF FinInv, DecidedInv, StopInv, KnownInv, ExecInv, GraphInv, GraphsGood, Good, GoodGraph
<1>5. {} \in SUBSET StartedTxns /\ g.cmt = g.cmt \cup {} OBVIOUS
<1>6. \A r \in Server : res'[r] = IF r = s THEN res[r] \cup {} ELSE res[r] BY <1>1
<1>7. d.op = "to_decide" /\ d.t = m.t /\ d.to # Coordinator
  <2>1. Nobody.who # Coordinator.who BY DEF Nobody, Coordinator
  <2> QED BY <2>1 DEF Call
<1>8. \A r \in Server : (\A u \in Txn : \A p \in prog[u] : p.srv = r) => r = s
  BY DEF FinInv, SiteInv
<1>9. asks' \subseteq asks BY <1>1
<1>10. calls = [r \in Server |-> calls[r]]
  BY FinTypes DEF FinInv
<1>11. /\ gra'[s] = g /\ \A r \in Server : r # s => gra'[r] = gra[r]
       /\ calls'[s] = calls[s] \cup {d} /\ \A r \in Server : r # s => calls'[r] = calls[r]
  BY <1>1, <1>2, <1>3, <1>10
<1>12. MergeStep(s, h, {}, d)
  BY <1>1, <1>4, <1>5, <1>6, <1>7, <1>8, <1>9, <1>11 DEF MergeStep
<1> QED BY <1>12, MergeFin

\* An answer to nobody, as no server has that id, is dropped.
LEMMA AskStrayFin ==
  ASSUME FinInv, StopInv', NEW m \in asks, m.s \notin Server, AskReply(m)
  PROVE  FinInv'
<1>1. /\ UNCHANGED <<prog, last, log, res, deciding, chop>> /\ asks' = asks \ {m}
      /\ gra' = [gra EXCEPT ![m.s] = UnionAtServer(m.s, @, m.g)]
      /\ calls' = [calls EXCEPT ![m.s] = @ \cup {Call("to_decide", m.t, {}, Nobody)}]
  BY DEF AskReply, coordVars
<1>2. calls = [s \in Server |-> calls[s]] /\ gra \in [Server -> Graph] BY FinTypes DEF FinInv
<1>3. gra' = gra BY <1>1, <1>2
<1>4. calls' = calls BY <1>1, <1>2
<1>5. SiteInv' BY <1>1, <1>4 DEF FinInv, SiteInv
<1>6. StartedTxns' = StartedTxns BY <1>1 DEF StartedTxns
<1>7. FinishedIsExecuted' BY <1>1, FinishedSame DEF FinInv
<1>8. StillStep BY <1>1, <1>3, <1>4, <1>5, <1>6, <1>7 DEF StillStep
<1> QED BY <1>8, FinKept

\* rcc_start_pie keeps the invariant: its edges lead into a transaction that
\* has not started, of which nothing is decided.
LEMMA StartPieFin ==
  ASSUME FinInv, StopInv', NEW t \in Txn, NEW p \in prog[t], StartPie(t, p)
  PROVE  FinInv'
<1> PICK s, type : s = p.srv /\ type = IF p.kind = "imm" THEN "I" ELSE "D" OBVIOUS
<1> PICK E : E = KissEdges(t, p.keys, type) OBVIOUS
<1> PICK g : g = AddVertex(gra[s], t, s, E) OBVIOUS
<1> PICK h : h = SubGraph(g, t) OBVIOUS
<1>0. /\ StopInv /\ MarkInv /\ EdgeInv /\ DecidedInv /\ HomeInv
      /\ CallInv /\ SiteInv /\ DoneInv /\ FinishedIsExecuted
  BY DEF FinInv
<1>1. /\ UNCHANGED <<prog, res, deciding, calls, asks>> /\ p.kind # "ro" /\ p \notin chop[t].got
      /\ gra' = [gra EXCEPT ![s] = g] /\ last' = KissLast(t, p.keys)
      /\ log' = [k \in Key |-> IF p.kind = "imm" /\ k \in p.keys
                               THEN Append(log[k], t) ELSE log[k]]
      /\ OnStarted(t, p, h)
  BY DEF StartPie, Began
<1>2. /\ prog \in [Txn -> SUBSET Piece] /\ gra \in [Server -> Graph]
      /\ last \in [Key -> Txn \cup {NoTxn}] /\ chop \in [Txn -> Chopper]
      /\ log \in [Key -> Seq(Txn)] /\ \A u \in Txn : Touched(prog, u) \subseteq Key
  BY <1>0, FinTypes
<1>3. p \in Piece /\ s \in Server /\ p.keys \subseteq Key BY <1>2 DEF Piece
<1>4. PICK c : /\ c = [chop[t] EXCEPT !.gra = UnionGraph(@, h),
                             !.got = @ \cup {p}, !.started = @ \cup {p},
                             !.early = @ /\ h.v = {t} /\ ~(p.kind = "def" /\ p.out)]
               /\ chop' = [chop EXCEPT ![t] = c]
  BY <1>1 DEF OnStarted
<1>5. /\ c.gra = UnionGraph(chop[t].gra, h) /\ c.got = chop[t].got \cup {p}
      /\ c.started = chop[t].started \cup {p} /\ c.finished = chop[t].finished
  BY <1>2, <1>4 DEF Chopper
<1>6. /\ chop'[t] = c /\ \A u \in Txn : u # t => chop'[u] = chop[u]
  BY <1>2, <1>4
<1>7. /\ g.v = gra[s].v \cup {t} /\ g.srv = gra[s].srv \cup {<<t, s>>} /\ g.e = gra[s].e \cup E
      /\ g.cmt = gra[s].cmt /\ g.dcd = gra[s].dcd
  BY DEF AddVertex, UnionGraph
<1>8. gra'[s] = g /\ \A r \in Server : r # s => gra'[r] = gra[r] BY <1>1, <1>2, <1>3
<1>9. E = {<<last[k], t, type>> : k \in {j \in p.keys : last[j] # NoTxn}} BY DEF KissEdges
<1>10. \A x \in E : x[2] = t /\ \E k \in p.keys : last[k] # NoTxn /\ x[1] = last[k] BY <1>9
<1>11. \A k \in Key : last'[k] = IF k \in p.keys /\ last[k] = NoTxn THEN t ELSE last[k]
  BY <1>1 DEF KissLast
<1>12. /\ \A k \in Key : last[k] # NoTxn => last'[k] = last[k]
       /\ \A k \in Key : last'[k] # t => last'[k] = last[k]
       /\ \A k \in p.keys : last'[k] # NoTxn
  BY <1>3, <1>11, WorkloadAssumption
<1>13. \A r \in Server : /\ gra[r].v \subseteq gra'[r].v /\ gra[r].srv \subseteq gra'[r].srv
                         /\ gra[r].e \subseteq gra'[r].e
                         /\ gra'[r].cmt = gra[r].cmt /\ gra'[r].dcd = gra[r].dcd
  BY <1>7, <1>8
<1>14. \A r \in Server : \A a, b : Edge(gra[r], a, b) => Edge(gra'[r], a, b)
  BY <1>13 DEF Edge
<1>15. \A r \in Server : \A a, b : b # t /\ Edge(gra'[r], a, b) => Edge(gra[r], a, b)
  <2> SUFFICES ASSUME NEW r \in Server, NEW a, NEW b, b # t, Edge(gra'[r], a, b)
               PROVE  Edge(gra[r], a, b)
    OBVIOUS
  <2>1. PICK x \in gra'[r].e : x[1] = a /\ x[2] = b BY DEF Edge
  <2>2. x \in gra[r].e BY <1>7, <1>8, <1>10, <2>1
  <2> QED BY <2>1, <2>2 DEF Edge
<1>16. t \notin StartedTxns BY <1>0, <1>1 DEF StartedTxns, MarkInv
<1>17. StartedTxns \subseteq StartedTxns'
  <2>1. \A u \in StartedTxns : u \in Txn /\ u # t /\ chop[u].started = prog[u]
    BY <1>16 DEF StartedTxns
  <2> QED BY <1>1, <1>6, <2>1 DEF StartedTxns
<1>18. MarkInv'
  <2> SUFFICES ASSUME NEW u \in Txn, NEW q \in prog[u], q.kind # "ro"
               PROVE  /\ q \in chop'[u].started => q \in chop'[u].got
                      /\ q \in chop'[u].got =>
                           /\ u \in gra'[q.srv].v /\ <<u, q.srv>> \in gra'[q.srv].srv
                           /\ \A k \in q.keys : /\ last'[k] # NoTxn
                                                /\ last'[k] # u => Edge(gra'[q.srv], last'[k], u)
    BY <1>1 DEF MarkInv, Edge
  <2>1. q \in Piece BY <1>2
  <2>2. q.srv \in Server /\ q.keys \subseteq Key BY <2>1 DEF Piece
  <2>3. q \in chop'[u].started => q \in chop'[u].got
    <3>1. q \in chop[u].started => q \in chop[u].got BY <1>0 DEF MarkInv
    <3> QED BY <1>5, <1>6, <3>1
  <2>4. CASE q \in chop[u].got
    <3>1. /\ u \in gra[q.srv].v /\ <<u, q.srv>> \in gra[q.srv].srv
          /\ \A k \in q.keys : /\ last[k] # NoTxn
                               /\ last[k] # u => Edge(gra[q.srv], last[k], u)
      BY <1>0, <2>4 DEF MarkInv
    <3>2. \A k \in q.keys : last'[k] = last[k] BY <1>12, <2>2, <3>1
    <3> QED BY <1>13, <1>14, <2>2, <2>3, <3>1, <3>2
  <2>5. CASE q \notin chop[u].got /\ q \in chop'[u].got
    <3>1. u = t /\ q = p BY <1>5, <1>6, <2>5
    <3>2. u \in gra'[q.srv].v /\ <<u, q.srv>> \in gra'[q.srv].srv BY <1>7, <1>8, <3>1
    <3>3. ASSUME NEW k \in p.keys, last'[k] # t PROVE Edge(gra'[s], last'[k], t)
      <4>1. last'[k] = last[k] /\ last[k] # NoTxn BY <1>3, <1>12, <3>3
      <4>2. <<last[k], t, type>> \in gra'[s].e BY <1>7, <1>8, <1>9, <4>1
      <4> QED BY <4>1, <4>2 DEF Edge
    <3> QED BY <1>12, <2>3, <3>1, <3>2, <3>3
  <2> QED BY <2>3, <2>4, <2>5
<1>19. EdgeInv'
  <2> SUFFICES ASSUME NEW x \in AllEdges' PROVE \E k \in Touched(prog, x[2]) : last'[k] = x[1]
    BY <1>1 DEF EdgeInv
  <2>1. PICK r \in Server : x \in gra'[r].e BY DEF AllEdges
  <2>2. CASE x \in gra[r].e
    <3>1. x \in AllEdges /\ x[1] \in Txn /\ x[2] \in Txn BY <1>0, <2>2, FinTypes
    <3>2. PICK k \in Touched(prog, x[2]) : last[k] = x[1] BY <1>0, <3>1 DEF EdgeInv
    <3>3. k \in Key /\ last[k] # NoTxn BY <1>2, <3>1, <3>2, WorkloadAssumption
    <3> QED BY <1>12, <3>2, <3>3
  <2>3. CASE x \notin gra[r].e
    <3>1. x \in E BY <1>7, <1>8, <2>1, <2>3
    <3>2. PICK k \in p.keys : last[k] # NoTxn /\ x[1] = last[k] BY <1>10, <3>1
    <3>3. k \in Touched(prog, t) /\ x[2] = t BY <1>1, <1>10, <3>1, <3>2 DEF Touched
    <3>4. last'[k] = x[1] BY <1>3, <1>12, <3>2
    <3> QED BY <3>3, <3>4
  <2> QED BY <2>2, <2>3
<1>20. DecidedInv'
  <2>1. h.dcd \subseteq gra[s].dcd BY <1>7 DEF SubGraph
  <2>2. c.gra.dcd \subseteq chop[t].gra.dcd \cup gra[s].dcd BY <1>5, <2>1 DEF UnionGraph
  <2>3. \A u \in Txn : chop'[u].gra.dcd \subseteq StartedTxns
    BY <1>0, <1>3, <1>6, <2>2 DEF DecidedInv
  <2> QED BY <1>0, <1>1, <1>13, <1>17, <2>3 DEF DecidedInv
<1>21. \A u, r : RunsAt(u, r)' = RunsAt(u, r) BY <1>1 DEF RunsAt
<1>22. HomeInv' BY <1>0, <1>1, <1>13, <1>21 DEF HomeInv
<1>23. CallInv'
  <2> SUFFICES ASSUME NEW r \in Server, NEW d \in calls[r] PROVE CallOK(r, d)'
    BY <1>1 DEF CallInv, CallOK
  <2>1. CallOK(r, d) BY <1>0 DEF CallInv, CallOK
  <2>2. ASSUME d.op \in Decision PROVE WaitOK(r, d)'
    <3>1. WaitOK(r, d) /\ d.t \in StartedTxns BY <2>1, <2>2 DEF CallOK
    <3>2. d.t # t /\ d.t \in Txn /\ chop[d.t].started = prog[d.t] BY <1>16, <3>1 DEF StartedTxns
    <3>3. ASSUME NEW x \in Txn, Mate(x, d.t)' PROVE Mate(x, d.t)
      <4>1. /\ x # d.t /\ \E k \in Touched(prog, d.t) : last'[k] = x
            /\ \E k \in Touched(prog, x) : last'[k] = d.t
        BY <1>1, <3>3 DEF Mate
      <4>2. \E k \in Touched(prog, d.t) : last[k] = x
        <5>1. PICK k \in Touched(prog, d.t) : last'[k] = x BY <4>1
        <5>2. PICK q \in prog[d.t] : q.kind # "ro" /\ k \in q.keys BY <5>1 DEF Touched
        <5>3. last[k] # NoTxn BY <1>0, <3>2, <5>2 DEF MarkInv
        <5>4. k \in Key BY <1>2, <3>2, <5>1
        <5> QED BY <1>12, <5>1, <5>3, <5>4
      <4>3. \E k \in Touched(prog, x) : last[k] = d.t BY <1>2, <1>12, <3>2, <4>1
      <4> QED BY <4>1, <4>2, <4>3 DEF Mate
    <3>4. Finished(gra'[r]) = Finished(gra[r]) BY <1>13 DEF Finished
    <3>5. \A x : Edge(gra'[r], x, d.t) <=> Edge(gra[r], x, d.t) BY <1>14, <1>15, <3>2
    <3> SUFFICES ASSUME NEW x \in Txn, Mate(x, d.t)'
                 PROVE  IF Edge(gra'[r], x, d.t) THEN x \in d.wait \cup Finished(gra'[r])
                                                 ELSE d.wait = {}
      BY DEF WaitOK, Edge, Finished
    <3> QED BY <3>1, <3>3, <3>4, <3>5 DEF WaitOK
  <2> QED BY <1>1, <1>17, <2>1, <2>2 DEF CallOK
<1>24. SiteInv' BY <1>0, <1>1 DEF SiteInv
<1>25. \A k \in Key : Executed(k) \subseteq Executed(k)'
  <2> SUFFICES ASSUME NEW k \in Key, NEW i \in 1..Len(log[k])
               PROVE  \E j \in 1..Len(log'[k]) : log'[k][j] = log[k][i]
    BY DEF Executed
  <2> PICK q : q = log[k] OBVIOUS
  <2>1. q \in Seq(Txn) BY <1>2
  <2>2. CASE log'[k] = q BY <2>2
  <2>3. CASE log'[k] = Append(q, t)
    <3>1. i \in 1..Len(Append(q, t)) /\ Append(q, t)[i] = q[i] BY <2>1
    <3> QED BY <2>3, <3>1
  <2> QED BY <1>1, <2>2, <2>3
<1>26. \A u \in Txn : \A r : DeferredKeys(u, r)' = DeferredKeys(u, r) /\ DeferredKeys(u, r) \subseteq Key
  <2>1. \A u \in Txn : \A q \in prog[u] : q.keys \subseteq Key
    <3>1. \A u \in Txn : \A q \in prog[u] : q \in Piece BY <1>2
    <3> QED BY <3>1 DEF Piece
  <2> QED BY <1>1, <2>1 DEF DeferredKeys
<1>27. DoneInv'
  <2> SUFFICES ASSUME NEW r \in Server, NEW u \in gra[r].dcd, RunsAt(u, r)
               PROVE  Done(u, r)' \/ Quiet(u, r)'
    BY <1>13, <1>21 DEF DoneInv
  <2>1. u \in Txn BY <1>2 DEF Graph
  <2>2. Done(u, r) => Done(u, r)' BY <1>25, <1>26, <2>1 DEF Done
  <2>3. Quiet(u, r) => Quiet(u, r)' BY <1>1 DEF Quiet
  <2> QED BY <1>0, <2>2, <2>3 DEF DoneInv
<1>28. FinishedIsExecuted'
  <2>1. \A u \in Txn : chop'[u].finished = chop[u].finished BY <1>5, <1>6
  <2> QED BY <1>0, <1>25, <1>26, <2>1 DEF FinishedIsExecuted
<1> QED BY <1>18, <1>19, <1>20, <1>22, <1>23, <1>24, <1>27, <1>28 DEF FinInv

\* As many different members as there are: all of them.
LEMMA FullOrder ==
  ASSUME NEW S, IsFiniteSet(S), NEW o \in Seq(S), Distinct(o), Len(o) = Cardinality(S)
  PROVE  Elems(o) = S
<1> PICK n, D : n = Len(o) /\ D = 1..n OBVIOUS
<1>1. n \in Nat /\ o \in [D -> S] OBVIOUS
<1>2. o \in Injection(D, S) BY <1>1 DEF Distinct, Injection, IsInjective
<1>3. Cardinality(D) = Cardinality(S)
  <2>1. Cardinality(1..n) = n BY <1>1, CardUpTo
  <2> QED BY <2>1
<1>4. Cardinality(D) = Cardinality(S) <=> o \in Surjection(D, S) BY <1>2, FS_Injection
<1>5. \A t \in S : \E i \in D : o[i] = t BY <1>3, <1>4 DEF Surjection
<1> QED BY <1>1, <1>5 DEF Elems

\* What is in a sequence is in a longer one.
LEMMA ConcatElems ==
  ASSUME NEW S, NEW a \in Seq(S), NEW b \in Seq(S)
  PROVE  Elems(a) \cup Elems(b) \subseteq Elems(a \o b)
<1> DEFINE c == a \o b
<1>1. /\ Len(c) = Len(a) + Len(b) /\ Len(a) \in Nat /\ Len(b) \in Nat
      /\ \A i \in 1..Len(c) : c[i] = IF i <= Len(a) THEN a[i] ELSE b[i - Len(a)]
  OBVIOUS
<1>2. \A i \in 1..Len(a) : i \in 1..Len(c) /\ c[i] = a[i] BY <1>1
<1>3. \A i \in 1..Len(b) : Len(a) + i \in 1..Len(c) /\ c[Len(a) + i] = b[i]
  <2> SUFFICES ASSUME NEW i \in 1..Len(b)
               PROVE  Len(a) + i \in 1..Len(c) /\ c[Len(a) + i] = b[i]
    OBVIOUS
  <2>1. Len(a) + i \in 1..Len(c) /\ ~(Len(a) + i <= Len(a)) /\ (Len(a) + i) - Len(a) = i BY <1>1
  <2> QED BY <1>1, <2>1
<1> HIDE DEF c
<1>4. Elems(a) \subseteq Elems(c) BY <1>2 DEF Elems
<1>5. Elems(b) \subseteq Elems(c) BY <1>3 DEF Elems
<1> QED BY <1>4, <1>5 DEF c

\* exe_deferred leaves nobody out whose finish request has come.
LEMMA ExecutesAll ==
  ASSUME NEW s, NEW k, NEW order \in Seq(Txn), NEW t \in Elems(order),
         t \in res[s], t \notin gra[s].dcd, k \in DeferredKeys(t, s)
  PROVE  t \in Elems(Executes(s, order, k))
<1> DEFINE I == {i \in 1..Len(order) : order[i] \in res[s] \ gra[s].dcd
                                      /\ k \in DeferredKeys(order[i], s)}
           turns == Ascending(I)
           x == [j \in 1..Len(turns) |-> order[turns[j]]]
<1>1. Executes(s, order, k) = x BY DEF Executes
<1>2. PICK i \in 1..Len(order) : order[i] = t BY DEF Elems
<1>3. i \in I /\ I \subseteq 1..Len(order) /\ Len(order) \in Nat BY <1>2
<1> HIDE DEF I
<1>4. I \in SUBSET Nat /\ IsFiniteSet(I)
  <2>1. IsFiniteSet(1..Len(order)) BY <1>3, FS_Interval
  <2>2. I \in SUBSET (1..Len(order)) BY <1>3
  <2>3. IsFiniteSet(I) BY <2>1, <2>2, FS_Subset
  <2> QED BY <1>3, <2>3
<1>5. turns \in Seq(I) /\ Elems(turns) = I BY <1>4, AscendingSeq
<1> HIDE DEF turns
<1>6. Len(turns) \in Nat BY <1>5
<1>7. PICK j \in 1..Len(turns) : turns[j] = i BY <1>3, <1>5 DEF Elems
<1>8. x[j] = t BY <1>2, <1>7
<1>9. Len(x) = Len(turns) BY <1>6
<1> HIDE DEF x
<1> QED BY <1>1, <1>7, <1>8, <1>9 DEF Elems

\* scc_anc_commit_cb decides a component whose other members are committing.
LEMMA SccFinished ==
  ASSUME FinInv, InPairs, NEW s \in Server, NEW c \in calls[s], Runnable(s, c),
         c.op = "scc_commit", NEW x \in Scc(gra[s], c.t), x # c.t
  PROVE  x \in Finished(gra[s])
<1>1. c.t \in Txn /\ x \in Txn BY FinTypes DEF FinInv, Scc, Descendants
<1>2. Mate(x, c.t) /\ Edge(gra[s], x, c.t) BY <1>1, SccMates DEF FinInv
<1>3. WaitOK(s, c) BY DEF FinInv, CallInv, Decision
<1>4. x \in c.wait \cup Finished(gra[s]) BY <1>1, <1>2, <1>3 DEF WaitOK
<1>5. c.wait \subseteq gra[s].dcd BY DEF Runnable, Triggered
<1> QED BY <1>4, <1>5 DEF Finished

\* scc_anc_commit_cb keeps the invariant: a member it runs is executed, unless
\* its finish request has not come, and then no reply is due.
LEMMA SccCommitFin ==
  ASSUME FinInv, InPairs, StopInv', IsFiniteSet(Txn),
         NEW s \in Server, NEW c \in calls[s], Runnable(s, c), SccCommit(s, c)
  PROVE  FinInv'
<1> PICK scc, order : scc = Scc(gra[s], c.t) /\ order = SortedScc(gra[s], scc) OBVIOUS
<1>0. /\ StopInv /\ MarkInv /\ EdgeInv /\ DecidedInv /\ HomeInv
      /\ CallInv /\ SiteInv /\ DoneInv /\ FinishedIsExecuted
  BY DEF FinInv
<1>1. /\ UNCHANGED <<prog, last, res, deciding>> /\ c.op = "scc_commit" /\ c.t \notin gra[s].dcd
      /\ Len(order) = Cardinality(scc)
      /\ log' = [k \in Key |-> log[k] \o Executes(s, order, k)]
      /\ gra' = [gra EXCEPT ![s].dcd = @ \cup scc]
      /\ RunCall(s, c, {}, {}) /\ ReplyTo(c, s)
  BY DEF SccCommit
<1>2. /\ prog \in [Txn -> SUBSET Piece] /\ gra \in [Server -> Graph] /\ c.t \in Txn
      /\ log \in [Key -> Seq(Txn)]
  BY <1>0, FinTypes
<1>3. scc \in SUBSET Txn /\ scc \in SUBSET Nat /\ IsFiniteSet(scc)
  <2>1. scc \in SUBSET Txn BY DEF Scc, Descendants
  <2> QED BY <2>1, IdAssumption, FS_Subset
<1>4. order \in Seq(scc) /\ Distinct(order) BY <1>3, SortedDistinct
<1>5. order \in Seq(Txn) /\ Elems(order) = scc
  <2>1. order \in [1..Len(order) -> scc] /\ Len(order) \in Nat BY <1>4
  <2>2. order \in [1..Len(order) -> Txn] BY <1>3, <2>1
  <2>3. Elems(order) = scc BY <1>1, <1>3, <1>4, FullOrder
  <2> QED BY <2>1, <2>2, <2>3
<1>6. \A u \in Txn :
           /\ chop'[u].gra = chop[u].gra /\ chop'[u].started = chop[u].started
           /\ chop'[u].got = chop[u].got
           /\ \A r \in chop'[u].finished :
                 r \in chop[u].finished \/ (u = c.t /\ c.to = Coordinator /\ r = s)
  BY <1>0, <1>1, ReplyToFin
<1>7. \A r \in Server : /\ gra'[r].v = gra[r].v /\ gra'[r].srv = gra[r].srv /\ gra'[r].e = gra[r].e
                        /\ gra'[r].cmt = gra[r].cmt
                        /\ gra'[r].dcd = IF r = s THEN gra[r].dcd \cup scc ELSE gra[r].dcd
  BY <1>1, <1>2 DEF Graph
<1>8. StartedTxns' = StartedTxns BY <1>1, <1>6 DEF StartedTxns
<1>9. \A r \in Server : \A a, b : Edge(gra'[r], a, b) <=> Edge(gra[r], a, b) BY <1>7 DEF Edge
<1>10. MarkInv'
  <2> SUFFICES ASSUME NEW u \in Txn, NEW q \in prog[u], q.kind # "ro"
               PROVE  /\ q \in chop'[u].started => q \in chop'[u].got
                      /\ q \in chop'[u].got =>
                           /\ u \in gra'[q.srv].v /\ <<u, q.srv>> \in gra'[q.srv].srv
                           /\ \A k \in q.keys : /\ last[k] # NoTxn
                                                /\ last[k] # u => Edge(gra'[q.srv], last[k], u)
    BY <1>1 DEF MarkInv, Edge
  <2>1. q \in Piece BY <1>2
  <2>2. q.srv \in Server BY <2>1 DEF Piece
  <2> QED BY <1>0, <1>6, <1>7, <1>9, <2>2 DEF MarkInv
<1>11. EdgeInv'
  <2>1. \A x : x \in AllEdges' => x \in AllEdges BY <1>7 DEF AllEdges
  <2> QED BY <1>0, <1>1, <2>1 DEF EdgeInv
<1>12. ASSUME NEW x \in scc, x # c.t PROVE x \in Finished(gra[s])
  BY <1>1, <1>12, SccFinished
<1>13. scc \subseteq StartedTxns
  <2>1. c.t \in StartedTxns BY <1>0, <1>1 DEF CallInv, Decision
  <2>2. gra[s].dcd \subseteq StartedTxns /\ gra[s].cmt \subseteq StartedTxns
    BY <1>0 DEF DecidedInv, StopInv, ExecInv, GraphInv, GraphsGood, Good, GoodGraph
  <2> QED BY <1>12, <2>1, <2>2 DEF Finished
<1>14. DecidedInv'
  <2>1. \A r \in Server : gra'[r].dcd \subseteq StartedTxns BY <1>0, <1>7, <1>13 DEF DecidedInv
  <2>2. \A m \in asks' : m \in asks \/ m.type # "asked" BY <1>1, RunCallCalls
  <2> QED BY <1>0, <1>6, <1>8, <2>1, <2>2 DEF DecidedInv
<1>15. \A u, r : RunsAt(u, r)' = RunsAt(u, r) BY <1>1 DEF RunsAt
<1>16. HomeInv' BY <1>0, <1>1, <1>7, <1>15 DEF HomeInv
<1>17. \A q \in Server : \A b \in calls'[q] :
          \/ b \in calls[q]
          \/ b.op = "to_decide" /\ b.t \in StartedTxns /\ b.to # Coordinator
  BY <1>1, RunCallCalls
<1>18. \A q \in Server : \A b \in calls'[q] : b.op \in Decision => b \in calls[q]
  BY <1>17 DEF Decision
<1>19. CallInv'
  <2> SUFFICES ASSUME NEW r \in Server, NEW d \in calls'[r] PROVE CallOK(r, d)'
    BY DEF CallInv, CallOK
  <2>1. CASE d \notin calls[r] BY <1>8, <1>17, <2>1 DEF CallOK, Decision
  <2>2. CASE d \in calls[r]
    <3>1. CallOK(r, d) BY <1>0, <2>2 DEF CallInv, CallOK
    <3>2. ASSUME d.op \in Decision PROVE WaitOK(r, d)'
      <4>1. WaitOK(r, d) BY <3>1, <3>2 DEF CallOK
      <4>2. Finished(gra[r]) \subseteq Finished(gra'[r]) BY <1>7 DEF Finished
      <4>3. \A x : Mate(x, d.t)' = Mate(x, d.t) BY <1>1 DEF Mate
      <4> SUFFICES ASSUME NEW x \in Txn, Mate(x, d.t)
                   PROVE  IF Edge(gra'[r], x, d.t) THEN x \in d.wait \cup Finished(gra'[r])
                                                   ELSE d.wait = {}
        BY <4>3 DEF WaitOK, Edge, Finished
      <4> QED BY <1>9, <4>1, <4>2 DEF WaitOK
    <3> QED BY <1>1, <1>8, <3>1, <3>2 DEF CallOK
  <2> QED BY <2>1, <2>2
<1>20. SiteInv' BY <1>1, RunCallSite
<1>21. \A k \in Key : Executed(k) \subseteq Executed(k)' /\ Elems(Executes(s, order, k)) \subseteq Executed(k)'
  <2> SUFFICES ASSUME NEW k \in Key
               PROVE  Executed(k) \cup Elems(Executes(s, order, k)) \subseteq Executed(k)'
    OBVIOUS
  <2> PICK q, x : q = log[k] /\ x = Executes(s, order, k) OBVIOUS
  <2>1. q \in Seq(Txn) /\ x \in Seq(Txn) BY <1>2, <1>4, <1>5, ExecutesDistinct
  <2>2. log'[k] = q \o x BY <1>1
  <2>3. Elems(q) \cup Elems(x) \subseteq Elems(q \o x) BY <2>1, ConcatElems
  <2>4. Executed(k) = Elems(q) /\ Executed(k)' = Elems(q \o x) BY <2>2 DEF Executed, Elems
  <2> QED BY <2>3, <2>4
<1>22. \A u \in Txn : \A r : DeferredKeys(u, r)' = DeferredKeys(u, r) /\ DeferredKeys(u, r) \subseteq Key
  <2>1. \A u \in Txn : \A q \in prog[u] : q.keys \subseteq Key
    <3>1. \A u \in Txn : \A q \in prog[u] : q \in Piece BY <1>2
    <3> QED BY <3>1 DEF Piece
  <2> QED BY <1>1, <2>1 DEF DeferredKeys
<1>23. ASSUME NEW u \in scc, u \in res[s], u \notin gra[s].dcd PROVE Done(u, s)'
  <2>1. u \in Txn /\ u \in Elems(order) BY <1>3, <1>5, <1>23
  <2> SUFFICES ASSUME NEW k \in DeferredKeys(u, s) PROVE u \in Executed(k)'
    BY <1>22, <2>1 DEF Done
  <2>2. k \in Key BY <1>22, <2>1
  <2>3. u \in Elems(Executes(s, order, k)) BY <1>5, <1>23, <2>1, ExecutesAll
  <2> QED BY <1>21, <2>2, <2>3
<1>24. DoneInv'
  <2> SUFFICES ASSUME NEW r \in Server, NEW u \in gra'[r].dcd, RunsAt(u, r)
               PROVE  Done(u, r)' \/ Quiet(u, r)'
    BY <1>15 DEF DoneInv
  <2>1. CASE u \in gra[r].dcd
    <3>1. u \in Txn BY <1>2, <2>1 DEF Graph
    <3>2. Done(u, r) => Done(u, r)' BY <1>21, <1>22, <3>1 DEF Done
    <3>3. Quiet(u, r) => Quiet(u, r)' BY <1>1, <1>18 DEF Quiet
    <3> QED BY <1>0, <2>1, <3>2, <3>3 DEF DoneInv
  <2>2. CASE u \notin gra[r].dcd /\ u \in res[s]
    <3>1. r = s /\ u \in scc BY <1>7, <2>2
    <3> QED BY <1>23, <2>2, <3>1
  <2>3. CASE u \notin gra[r].dcd /\ u \notin res[s]
    <3>1. r = s /\ u \in scc BY <1>7, <2>3
    <3>2. u = c.t
      <4> SUFFICES ASSUME u # c.t PROVE FALSE OBVIOUS
      <4>1. u \in gra[s].cmt BY <1>12, <2>3, <3>1 DEF Finished
      <4> QED BY <1>0, <2>3, <3>1, <4>1 DEF HomeInv
    <3>3. u \in deciding[s] BY <1>0, <1>1, <3>2 DEF CallInv, Decision
    <3>4. \A d \in calls[s] : d.op \in Decision /\ d.t = u => d.to # Coordinator
      BY <1>0, <2>3 DEF CallInv
    <3>5. Quiet(u, s)' BY <1>1, <1>18, <3>3, <3>4 DEF Quiet
    <3> QED BY <3>1, <3>5
  <2> QED BY <2>1, <2>2, <2>3
<1>25. FinishedIsExecuted'
  <2> SUFFICES ASSUME NEW u \in Txn, NEW r \in chop'[u].finished, NEW k \in DeferredKeys(u, r)
               PROVE  u \in Executed(k)'
    BY <1>22 DEF FinishedIsExecuted
  <2>1. k \in Key BY <1>22
  <2>2. CASE r \in chop[u].finished BY <1>0, <1>21, <2>1, <2>2 DEF FinishedIsExecuted
  <2>3. CASE r \notin chop[u].finished
    <3>1. u = c.t /\ c.to = Coordinator /\ r = s BY <1>6, <2>3
    <3>2. u \in scc BY <3>1 DEF Scc, Descendants
    <3>3. u \in res[s] BY <1>0, <1>1, <3>1 DEF CallInv, Decision
    <3>4. Done(u, s)' BY <1>1, <1>23, <3>1, <3>2, <3>3
    <3> QED BY <1>22, <3>1, <3>4 DEF Done
  <2> QED BY <2>2, <2>3
<1> QED BY <1>10, <1>11, <1>14, <1>16, <1>19, <1>20, <1>24, <1>25 DEF FinInv

\* The invariant holds initially.
LEMMA FinInit == Init => FinInv
<1> SUFFICES ASSUME Init PROVE FinInv OBVIOUS
<1>1. StopInv BY StopInit
<1>2. /\ \A s \in Server : gra[s] = EmptyGraph /\ calls[s] = {}
      /\ \A u \in Txn : /\ chop[u].gra = EmptyGraph /\ chop[u].started = {}
                        /\ chop[u].got = {} /\ chop[u].finished = {}
      /\ asks = {}
  BY DEF Init
<1>3. EmptyGraph.e = {} /\ EmptyGraph.cmt = {} /\ EmptyGraph.dcd = {} BY DEF EmptyGraph
<1>4. MarkInv BY <1>2 DEF MarkInv
<1>5. EdgeInv BY <1>2, <1>3 DEF EdgeInv, AllEdges
<1>6. DecidedInv BY <1>2, <1>3 DEF DecidedInv
<1>7. HomeInv BY <1>2, <1>3 DEF HomeInv
<1>8. CallInv BY <1>2 DEF CallInv
<1>9. SiteInv BY <1>2 DEF SiteInv
<1>10. DoneInv BY <1>2, <1>3 DEF DoneInv
<1>11. FinishedIsExecuted BY <1>2 DEF FinishedIsExecuted
<1> QED BY <1>1, <1>4, <1>5, <1>6, <1>7, <1>8, <1>9, <1>10, <1>11 DEF FinInv

\* Every step keeps it.
LEMMA FinStep ==
  ASSUME IsFiniteSet(Txn), InPairs, FinInv, [Next]_vars
  PROVE  FinInv'
<1>1. StopInv' BY StopStep DEF FinInv
<1>2. ASSUME NEW t \in Txn, Request(t) PROVE FinInv'
  BY <1>1, <1>2, StartPieFin, StartRoFin, FinishTxnFin DEF Request
<1>3. ASSUME Ask PROVE FinInv'
  <2>1. PICK m \in asks : AskTxn(m) \/ AskReply(m) BY <1>3 DEF Ask
  <2> QED BY <1>1, <2>1, AskTxnFin, AskReplyFin, AskStrayFin
<1>4. ASSUME NEW s \in Server, Callback(s) PROVE FinInv'
  <2>1. PICK c \in calls[s] :
          /\ Runnable(s, c)
          /\ \/ Commit(s, c) \/ ToDecide(s, c) \/ AncFinish(s, c)
             \/ SccDecided(s, c) \/ SccCommit(s, c) \/ SccAbort(s, c)
             \/ SendAnswer(s, c) \/ SendRead(s, c)
    BY <1>4 DEF Callback
  <2>2. ToDecide(s, c) => FinInv' BY <1>1, ToDecideFin
  <2>3. AncFinish(s, c) => FinInv' BY <1>1, <2>1, AncFinishFin
  <2>4. SccDecided(s, c) => FinInv' BY <1>1, SccDecidedFin
  <2>5. SccCommit(s, c) => FinInv' BY <1>1, <2>1, SccCommitFin
  <2>6. SccAbort(s, c) => FinInv' BY <1>1, SccAbortFin
  <2>7. SendAnswer(s, c) => FinInv' BY <1>1, <2>1, SendAnswerFin
  <2>8. SendRead(s, c) => FinInv' BY <1>1, SendReadFin
  <2>9. Commit(s, c) => FinInv' BY <1>1, CommitFin
  <2> QED BY <2>1, <2>2, <2>3, <2>4, <2>5, <2>6, <2>7, <2>8, <2>9
<1>5. CASE UNCHANGED vars
  <2>1. UNCHANGED <<prog, gra, last, log, res, deciding, chop, calls, asks>>
    BY <1>5 DEF vars, serverVars, coordVars
  <2>2. StartedTxns' = StartedTxns BY <2>1 DEF StartedTxns
  <2>3. SiteInv' BY <2>1 DEF FinInv, SiteInv
  <2>4. FinishedIsExecuted' BY <2>1, FinishedSame DEF FinInv
  <2>5. StillStep BY <2>1, <2>2, <2>3, <2>4 DEF StillStep
  <2> QED BY <1>1, <2>5, FinKept
<1> QED BY <1>2, <1>3, <1>4, <1>5 DEF Next

\* Where cycles are pairs that meet no third transaction, or all pieces are
\* at one site, the invariant holds throughout: a decision that has
\* a reply to send has executed the pieces of its transaction.
THEOREM FinInvariance ==
  ASSUME IsFiniteSet(Txn), InPairs
  PROVE  Spec => []FinInv
<1>1. Init => FinInv BY FinInit
<1>2. FinInv /\ [Next]_vars => FinInv' BY FinStep
<1> QED BY <1>1, <1>2, PTL DEF Spec

\* So no server answers the finish request of a transaction whose deferred
\* pieces it has skipped (scc_anc_commit_cb, the test of TxnInfo::res).
THEOREM FinishedIsExecutedAlways ==
  ASSUME IsFiniteSet(Txn), InPairs
  PROVE  Spec => []FinishedIsExecuted
<1>1. FinInv => FinishedIsExecuted BY DEF FinInv
<1> QED BY <1>1, FinInvariance, PTL
=============================================================================
