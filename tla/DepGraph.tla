------------------------------ MODULE DepGraph ------------------------------
(***************************************************************************)
(* The dependency graph of ROCOCO (rococo-dst/deptran/graph.hpp,           *)
(* dep_graph.cc, txn_info.h): its vertices are transactions with a status  *)
(* and the servers they are known to run on, its edges say which of two    *)
(* transactions touched a column first.  Every server keeps one, every     *)
(* coordinator collects one, and parts of it travel in messages.           *)
(*                                                                         *)
(* A graph is a record of sets, so that merging two graphs is a union:     *)
(*   v    the vertices (vertex_index_)                                     *)
(*   cmt  the vertices whose status has the bit TXN_CMT (committing)       *)
(*   dcd  the vertices whose status has the bit TXN_DCD (decided)          *)
(*   srv  pairs <<t, s>>: server s is in servers_ of t                     *)
(*   e    triples <<a, b, i>>: a is in from_ of b and b in to_ of a, with  *)
(*        the relation bit EDGE_I ("I") or EDGE_D ("D")                    *)
(***************************************************************************)
EXTENDS Naturals, Sequences, FiniteSets

CONSTANTS Txn,     \* transaction ids, compared by sort_vv
          Server   \* site ids, compared by std::set<uint32_t>

ASSUME IdAssumption == Txn \subseteq Nat /\ Server \subseteq Nat

EdgeType == {"I", "D"}

Graph == [v : SUBSET Txn, cmt : SUBSET Txn, dcd : SUBSET Txn,
          srv : SUBSET (Txn \X Server), e : SUBSET (Txn \X Txn \X EdgeType)]

EmptyGraph == [v |-> {}, cmt |-> {}, dcd |-> {}, srv |-> {}, e |-> {}]

Involved(g, s) == {t \in g.v : <<t, s>> \in g.srv}

\* register_event compares the status numerically: a decided transaction
\* (4) also satisfies a wait for TXN_CMT (2).
Finished(g) == g.cmt \cup g.dcd

-----------------------------------------------------------------------------
\* union_graph at a coordinator.
UnionGraph(g, h) ==
    [v |-> g.v \cup h.v, cmt |-> g.cmt \cup h.cmt, dcd |-> g.dcd \cup h.dcd,
     srv |-> g.srv \cup h.srv, e |-> g.e \cup h.e]

\* Mutant of UnionAtServer: the status of every vertex is taken over.
UnionAtServerAny(s, g, h) == UnionGraph(g, h)

\* union_graph(h, true) at server s: the status of a vertex that server s
\* already has is left alone when s is one of its servers.
UnionAtServer(s, g, h) ==
    LET new == {t \in h.v : t \in g.v => <<t, s>> \notin g.srv \cup h.srv}
    IN  [UnionGraph(g, h) EXCEPT !.cmt = g.cmt \cup (h.cmt \cap new),
                                 !.dcd = g.dcd \cup (h.dcd \cap new)]

-----------------------------------------------------------------------------
\* find_txn_anc_opt: the search goes from a vertex to its parents that are
\* not decided, and the source is erased from the result.  What a search
\* finds are the members of every set that holds the source and is closed
\* under the search's step.
Ancestors(g, t) ==
    {u \in Txn : \A C \in SUBSET Txn :
        /\ t \in C
        /\ \A x \in g.e : x[2] \in C /\ x[1] \notin g.dcd => x[1] \in C
        => u \in C} \ {t}

\* Reachable along the edges, decided vertices included.
Descendants(g, t) ==
    {u \in Txn : \A C \in SUBSET Txn :
        (t \in C /\ \A x \in g.e : x[1] \in C => x[2] \in C) => u \in C}

\* strong_connect from t: all vertices of t's component, decided or not.
Scc(g, t) == {u \in Descendants(g, t) : t \in Descendants(g, u)}

\* find_txn_scc_nearest_anc
SccParents(g, t) ==
    {x[1] : x \in {y \in g.e : y[2] \in Scc(g, t)}} \ Scc(g, t)

\* sub_txn_graph and GraphMarshaler: t and its undecided ancestors, and the
\* edges between them.
SubGraph(g, t) ==
    LET vs == Ancestors(g, t) \cup {t}
    IN  [v |-> vs, cmt |-> g.cmt \cap vs, dcd |-> g.dcd \cap vs,
         srv |-> {p \in g.srv : p[1] \in vs},
         e |-> {x \in g.e : x[1] \in vs /\ x[2] \in vs}]

-----------------------------------------------------------------------------
\* A set of numbers in increasing order: sort_vv(S, 0), for ids.
Ascending(S) ==
    [i \in 1..Cardinality(S) |->
        CHOOSE t \in S : Cardinality({u \in S : u < t}) = i - 1]

IParents(g, t) == {x[1] : x \in {y \in g.e : y[2] = t /\ y[3] = "I"}}

IChildren(g, t) == {x[2] : x \in {y \in g.e : y[1] = t /\ y[3] = "I"}}

\* sorted_scc starts from the members without an EDGE_I parent in the
\* component, the smallest id at the back of the stack.
SccRoots(g, scc) == {t \in scc : IParents(g, t) \cap scc = {}}

\* Mutant of ReadyChildren: dfs_status of t is set too late.
ReadyChildrenLate(g, scc, t, visited) ==
    {c \in IChildren(g, t) \cap scc : IParents(g, c) \subseteq visited \ {t}}

\* The children of t pushed once t is in the result: those of the component
\* all of whose EDGE_I parents, in the component or not, are in the result.
ReadyChildren(g, scc, t, visited) ==
    {c \in IChildren(g, t) \cap scc : IParents(g, c) \subseteq visited}

\* A turn of sorted_scc's loop, with p the stack start_vv and the result so
\* far: the back of the stack moves to the result.
SortTurn(g, scc, p) ==
    LET k == Len(p.stack)
        out == Append(p.out, p.stack[k])
        visited == {out[i] : i \in 1..Len(out)}
    IN  IF k = 0 THEN p
        ELSE [stack |-> SubSeq(p.stack, 1, k - 1) \o
                        Ascending(ReadyChildren(g, scc, p.stack[k], visited)),
              out |-> out]

\* sorted_scc: the order in which the members of the component are executed,
\* after a turn for each of them.  (p ranges over one value.)
SortedScc(g, scc) ==
    LET up == Ascending(SccRoots(g, scc))
        start == [stack |-> [i \in 1..Len(up) |-> up[Len(up) + 1 - i]], out |-> <<>>]
        pass[n \in Nat] ==
            IF n = 0 THEN start
            ELSE CHOOSE q \in {SortTurn(g, scc, p) : p \in {pass[n - 1]}} : TRUE
    IN  pass[Cardinality(scc)].out

=============================================================================
