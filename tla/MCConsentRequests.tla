------------------------- MODULE MCConsentRequests -------------------------
(* ConsentRequests for TLC: the calls are interchangeable. *)
EXTENDS ConsentRequests, TLC

Symmetry == Permutations(Calls)
=============================================================================
