------------------------- MODULE MCSignedConsents -------------------------
(* A small instance of SignedConsents for TLC. *)
EXTENDS SignedConsents, TLC

\* Calls are interchangeable, and so are controllers.
SignedSymmetry == Permutations(Calls) \cup Permutations(Controllers)
=============================================================================
