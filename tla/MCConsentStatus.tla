--------------------------- MODULE MCConsentStatus ---------------------------
(* Small instances of ConsentStatus for TLC. Its runs check temporal properties, *)
(* so that there is no symmetry.                                                 *)
EXTENDS ConsentStatus, TLC
=============================================================================
