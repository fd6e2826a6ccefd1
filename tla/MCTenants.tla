----------------------------- MODULE MCTenants -----------------------------
(***************************************************************************)
(* A small instance of Tenants for TLC.                                    *)
(***************************************************************************)
EXTENDS Tenants

CONSTANTS r1, r2, r3, alpha, beta

\* Up to renaming, three registrations with one code, or two and another one.
Assigned == {[r \in Requests |-> alpha],
             [r \in Requests |-> IF r = r3 THEN beta ELSE alpha]}

MCInit == Init /\ code \in Assigned
MCSpec == MCInit /\ [][Next]_vars /\ \A r \in Requests : WF_vars(Register(r))
=============================================================================
