------------------------------- MODULE MCDBSI -------------------------------
(* Instances of DBSI for TLC: machines 0 and 1, record ka at machine 0, kb   *)
(* at machine 1 (or both at 0).                                              *)
EXTENDS DBSI, TLC

CONSTANTS ka, kb, kc, t1, t2, t3

G(k) == [kind |-> "get", key |-> k]
U(k) == [kind |-> "upd", key |-> k]
I(k) == [kind |-> "ins", key |-> k]
D(k) == [kind |-> "del", key |-> k]
R(k) == [kind |-> "ro", key |-> k]

DistPartOf  == ka :> 0 @@ kb :> 1
DistPartOf3 == DistPartOf @@ kc :> 1
DistHome  == t1 :> 0 @@ t2 :> 1 @@ t3 :> 1

\* Enough for every transaction to commit.
Enough == [p \in Part |-> 7]

\* Writers under a read-only transaction.
RoPrograms == t1 :> {<<U(ka), U(kb)>>} @@ t2 :> {<<R(kb), R(ka)>>}
              @@ t3 :> {<<U(kb), U(ka)>>, <<U(ka)>>}

\* Three writers of two machines that lock in opposite orders, or a read-only
\* transaction under two of them, with inserts of kc, which is not loaded,
\* and deletes of kb, with a read before or without.
AllPrograms == t1 :> {<<U(ka), U(kb)>>, <<U(ka), I(kc)>>}
               @@ t2 :> {<<U(kb), U(ka)>>, <<R(kb), R(ka)>>, <<R(ka), R(kb)>>,
                         <<R(kc), R(ka)>>}
               @@ t3 :> {<<U(kb), G(ka)>>, <<I(kc), U(ka)>>,
                         <<G(kb), D(kb)>>, <<D(kb)>>}
=============================================================================
