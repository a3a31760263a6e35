--------------------------- MODULE MCRemoteReads ---------------------------
(* RemoteReads for TLC: calls and kids are interchangeable. *)
EXTENDS RemoteReads, TLC

Symmetry == Permutations(Calls) \cup Permutations(Kids)
=============================================================================
