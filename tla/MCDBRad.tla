------------------------------ MODULE MCDBRad ------------------------------
(* Instances of DBRad for TLC: the records, the partitions and what each    *)
(* transaction does.                                                        *)
EXTENDS DBRad, TLC

CONSTANTS ka, kb, pa, pb, t1, t2, t3

G(k) == [kind |-> "get", key |-> k]
U(k) == [kind |-> "upd", key |-> k]
I(k) == [kind |-> "ins", key |-> k]
D(k) == [kind |-> "del", key |-> k]
R(k) == [kind |-> "ro", key |-> k]

\* One machine: both records and all transactions at pa.
LocalPartOf == ka :> pa @@ kb :> pa
LocalHome   == t1 :> pa @@ t2 :> pa @@ t3 :> pa
\* Two machines: ka at pa, kb at pb.
DistPartOf == ka :> pa @@ kb :> pb
DistHome   == t1 :> pa @@ t2 :> pb @@ t3 :> pa

\* Read-write transactions in conflict, on two records.
RwPrograms == t1 :> {<<U(ka), U(kb)>>}
              @@ t2 :> {<<U(kb), U(ka)>>, <<G(ka), U(kb)>>}
              @@ t3 :> {<<U(ka)>>, <<U(kb), G(ka)>>}

\* Each reads what the other writes.
SkewPrograms == t1 :> {<<G(kb), U(ka)>>} @@ t2 :> {<<G(ka), U(kb)>>}
                @@ t3 :> {<<G(ka)>>}

\* The same, or a read-only transaction under the writers.
RwRoPrograms == [RwPrograms EXCEPT ![t2] = @ \cup {<<R(kb), R(ka)>>}]

\* Writers of both records under a read-only transaction.
RoPrograms == t1 :> {<<U(ka), U(kb)>>} @@ t2 :> {<<R(kb), R(ka)>>}
              @@ t3 :> {<<U(kb)>>}

\* Inserts into and deletes from a record that is not loaded, beside updates
\* that lock in the opposite order.
InsDelPrograms == t1 :> {<<I(kb)>>, <<U(ka), I(kb)>>}
                  @@ t2 :> {<<D(kb)>>, <<G(kb), D(kb)>>, <<D(kb), I(kb)>>,
                            <<I(kb), U(ka)>>}
                  @@ t3 :> {<<I(kb)>>, <<U(ka)>>, <<R(kb), R(ka)>>}
=============================================================================
