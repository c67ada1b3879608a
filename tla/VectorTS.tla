------------------------------ MODULE VectorTS ------------------------------
(***************************************************************************)
(* What the vector-timestamp service promises to transactions.  A machine  *)
(* numbers its commits 3, 4, ...; a transaction that has taken a number    *)
(* ends it after installing its versions.  A start vector may be old, and  *)
(* its entries may be of different ages, but an entry covers ended commits *)
(* only.  TSManager implements this; DBSI is built on it.                  *)
(***************************************************************************)
EXTENDS Naturals

CONSTANTS
  Part,   \* machines
  Tx,     \* coroutines that run transactions
  MaxTs   \* bound: commit timestamps of machine p are taken below MaxTs[p]

VARIABLES
  next,   \* next[p]: the next commit timestamp of machine p
  open,   \* open[p]: taken, and not ended yet
  vec     \* vec[t]: the start vector of t

vtvars == <<next, open, vec>>

VTInit ==
  /\ next = [p \in Part |-> 3] /\ open = [p \in Part |-> {}]
  /\ vec = [t \in Tx |-> [p \in Part |-> 0]]

\* The values an entry may have: the loaded data (2), or a prefix of the commits
\* of machine p that have all ended.
Covers(p) == {v \in 2..(next[p] - 1) : \A c \in open[p] : v < c}

\* get_start_ts copies entries, one by one or all at once.
StartTs(t) ==
  LET entry(p) == Covers(p) \cup {vec[t][p]} IN
  /\ \E v \in [Part -> UNION {entry(p) : p \in Part}] :
       /\ \A p \in Part : v[p] \in entry(p)
       /\ vec' = [vec EXCEPT ![t] = v]
  /\ UNCHANGED <<next, open>>

TakeTs(p) ==
  /\ next[p] < MaxTs[p]
  /\ next' = [next EXCEPT ![p] = @ + 1]
  /\ open' = [open EXCEPT ![p] = @ \cup {next[p]}]
  /\ UNCHANGED vec

EndTs(p, c) ==
  /\ c \in open[p]
  /\ open' = [open EXCEPT ![p] = @ \ {c}]
  /\ UNCHANGED <<next, vec>>

VTNext ==
  \/ \E p \in Part : TakeTs(p) \/ \E c \in open[p] : EndTs(p, c)
  \/ \E t \in Tx : StartTs(t)

VTSpec == VTInit /\ [][VTNext]_vtvars
=============================================================================
