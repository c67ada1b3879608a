------------------------------ MODULE MCRococo ------------------------------
(* Instances of Rococo for TLC: columns a, d and e live at site 0, b at site *)
(* 1 and c at site 2.                                                        *)
EXTENDS RococoWorkloads, TLC

At == "a" :> 0 @@ "b" :> 1 @@ "c" :> 2 @@ "d" :> 0 @@ "e" :> 0

P(kind, K) == [srv |-> At[CHOOSE k \in K : TRUE], keys |-> K,
               kind |-> kind, out |-> FALSE]
Def(k) == P("def", {k})
Out(k) == [Def(k) EXCEPT !.out = TRUE]
Imm(k) == P("imm", {k})
Ro(k)  == P("ro", {k})

\* Two transactions in conflict at two sites, deferred everywhere or not.
PairDeferred  == 1 :> {Def("a"), Def("b")} @@ 2 :> {Def("a"), Out("b")} @@ 3 :> {}
PairImmediate == 1 :> {Imm("a"), Def("b")} @@ 2 :> {Imm("a"), Def("b")} @@ 3 :> {}
\* A chain: the sites of 1 and 3 are disjoint, they ask about each other.
Chain == 1 :> {Def("b")} @@ 2 :> {Def("b"), Def("c")} @@ 3 :> {Def("c")}
\* A reader of both columns of a writer, and of a pair of them.
Reader1 == 1 :> {Def("a"), Def("b")} @@ 2 :> {Ro("a"), Ro("b")} @@ 3 :> {}
Reader2 == [PairDeferred EXCEPT ![3] = {Ro("a"), Ro("b")}]
\* At one site: 2 and 3 may form a component, and 3 may have an EDGE_I parent
\* outside of it.
Outer == 1 :> {Imm("d")} @@ 2 :> {Imm("a"), Def("e")}
         @@ 3 :> {P("imm", {"a", "d"}), Def("e")}

SafeWorkloads == {PairDeferred, PairImmediate, Chain, Reader1, Reader2, Outer}
PairWorkloads == {PairDeferred}
ReadWorkloads == {Reader1}

\* The theorems that ask something of the workloads are about these.
ASSUME ProvedWorkloads == SeparatePieces /\ ImmediateApart /\ InPairs

\* Three transactions on the same two columns.
SameWorkloads == {[t \in 1..3 |-> {Def("a"), Def("b")}]}
\* A ring of three transactions, two on each column.
RingWorkloads == {1 :> {Def("a"), Def("b")} @@ 2 :> {Def("b"), Def("c")}
                  @@ 3 :> {Def("c"), Def("a")}}
=============================================================================
