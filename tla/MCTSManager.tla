---------------------------- MODULE MCTSManager ----------------------------
(* Instances of TSManager for TLC: two machines, machine 0 is the one whose *)
(* reports overtake each other, a transaction starts on machine 1.          *)
EXTENDS TSManager, TLC

CONSTANTS t1

OneHome == t1 :> 1

\* Machine 0 commits twice, machine 1 once.
SkewedTs == 0 :> 5 @@ 1 :> 4
=============================================================================
