--------------------------- MODULE MCCustomerCall ---------------------------
(* Small instances of CustomerCall for TLC. *)
EXTENDS CustomerCall, TLC

\* Calls are interchangeable: every endpoint is tried for each of them.
MCSymmetry == Permutations(Calls)
=============================================================================
