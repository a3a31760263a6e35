--------------------------- MODULE ConsentStanding ---------------------------
(***************************************************************************)
(* What the Consent Manager promises about one recorded consent, whatever  *)
(* calls are in flight: it stands until its subject withdraws it or its    *)
(* validity ends; a withdrawal is final; and nothing lapses early.         *)
(*                                                                         *)
(* ConsentStatus implements this specification: its status column is       *)
(* written by racing handlers, its table of revocation records is not.     *)
(***************************************************************************)
EXTENDS Naturals

CONSTANTS
    Consents,   \* the recorded consents
    MaxClock    \* bound on the clock

VARIABLES
    clock,      \* the current time
    validUntil, \* validUntil[c]: the last moment c is valid
    standing    \* standing[c]: "given", "lapsed" or "withdrawn"

vars == <<clock, validUntil, standing>>

Init ==
    /\ clock = 0
    /\ validUntil \in [Consents -> 0..MaxClock]
    /\ standing = [c \in Consents |-> "given"]

Tick ==
    /\ clock < MaxClock
    /\ clock' = clock + 1
    /\ UNCHANGED <<validUntil, standing>>

\* The subject, or staff on the subject's request, takes the consent back. A
\* revocation already under way may still land on a consent that just lapsed.
Withdraw(c) ==
    /\ standing[c] # "withdrawn"
    /\ standing' = [standing EXCEPT ![c] = "withdrawn"]
    /\ UNCHANGED <<clock, validUntil>>

\* Consents whose validity is over lapse, several in one transaction.
Lapse(lapsed) ==
    /\ \A c \in lapsed : standing[c] = "given" /\ validUntil[c] < clock
    /\ standing' = [c \in Consents |->
                       IF c \in lapsed THEN "lapsed" ELSE standing[c]]
    /\ UNCHANGED <<clock, validUntil>>

Next ==
    \/ Tick
    \/ \E c \in Consents : Withdraw(c)
    \/ \E lapsed \in SUBSET Consents : Lapse(lapsed)

Spec == Init /\ [][Next]_vars
=============================================================================
