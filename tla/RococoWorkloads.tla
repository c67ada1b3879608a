-------------------------- MODULE RococoWorkloads --------------------------
(***************************************************************************)
(* What the theorems about Rococo ask of the transactions that the clients *)
(* may send, for the ones that do not hold of all of them.                 *)
(***************************************************************************)
EXTENDS Rococo

\* The pieces of a transaction touch different columns.  (log[k] names
\* transactions, not pieces: two pieces on one column would both be there.)
SeparatePieces ==
    \A w \in Workloads : \A t \in Txn : \A p, q \in w[t] :
        p # q => p.keys \cap q.keys = {}

\* The immediate pieces come one to a transaction, and no deferred piece
\* touches their columns.
ImmediateApart ==
    \A w \in Workloads : \A t, u \in Txn : \A p \in w[t], q \in w[u] :
        p.kind = "imm" =>
            /\ t = u /\ q.kind = "imm" => p = q
            /\ p.keys \cap q.keys # {} => q.kind # "def"

\* The columns of the pieces of t that leave their mark on an entry.
Touched(w, t) == UNION {p.keys : p \in {q \in w[t] : q.kind # "ro"}}

\* What the entries may come to hold, and the edges there are then.
Entries(w) ==
    {L \in [Key -> Txn \cup {NoTxn}] :
        \A k \in Key : L[k] # NoTxn => k \in Touched(w, L[k])}
EntryGraph(w, L) ==
    [EmptyGraph EXCEPT !.e = {x \in Txn \X Txn \X {"D"} :
                                \E k \in Touched(w, x[2]) : L[k] = x[1]}]

AtOneSite(w) == \E s \in Server : \A t \in Txn : \A p \in w[t] : p.srv = s

\* In whichever order the pieces arrive, a cycle is one of two transactions,
\* and these meet no third one, or else all pieces are at one site.
InPairs ==
    \A w \in Workloads : \A L \in Entries(w) : \A t \in Txn :
        \A u \in Scc(EntryGraph(w, L), t) \ {t} :
            /\ Scc(EntryGraph(w, L), t) \subseteq {t, u}
            /\ \/ AtOneSite(w)
               \/ \A y \in Txn : Touched(w, y) \cap Touched(w, t) # {} => y \in {t, u}
=============================================================================
