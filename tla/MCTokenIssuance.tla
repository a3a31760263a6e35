--------------------------- MODULE MCTokenIssuance ---------------------------
(* The small instance of TokenIssuance for TLC: two consents a lookup may     *)
(* choose between, one call beside one revocation or status read and one     *)
(* sweep. Without symmetry, which TLC would not treat soundly under the      *)
(* temporal property of the run.                                             *)
EXTENDS TokenIssuance
=============================================================================
