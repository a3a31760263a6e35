-------------------------- MODULE MCPmPolicyCache --------------------------
(* PmPolicyCache for TLC: two calls of one key. *)
EXTENDS PmPolicyCache, TLC

CONSTANTS p1, p2
=============================================================================
