-------------------------- MODULE MCOrderWorkflow --------------------------
(* Small instances of OrderWorkflow: a foreman, a courier, the requester who   *)
(* creates the order, and in some runs a second foreman, courier or an admin.   *)
EXTENDS OrderWorkflow, TLC

CONSTANTS foreman, foreman2, courier, courier2, requester, admin, c1, c2

MCRolesOf == [u \in Users |-> CASE u \in {foreman, foreman2} -> {"foreman"}
                               [] u \in {courier, courier2} -> {"delivery"}
                               [] OTHER -> {}]

\* The calls in flight are interchangeable (safety runs only).
MCSymmetry == Permutations(Calls)
=============================================================================
