--------------------------- MODULE RequestDecision ---------------------------
(***************************************************************************)
(* What the Consent Manager promises about one consent request: evidence   *)
(* is collected, up to a number of files, until the request is submitted   *)
(* or decided, and is the same from then on; it is submitted only with its *)
(* signed form on file and, where national ID is enabled, its subject      *)
(* logged in; staff decide a submitted request, once, and the consent says *)
(* what is on file; nothing decided is opened or submitted again.          *)
(*                                                                         *)
(* The subject may consent at any time, to a request decided already, too: *)
(* the approval was under way when it was.                                 *)
(*                                                                         *)
(* ConsentRequests implements this specification.                          *)
(***************************************************************************)
EXTENDS Naturals, Sequences, FiniteSets

CONSTANTS
    Files,        \* evidence files
    Forms,        \* those that are signed forms
    MaxFiles,     \* the most that may be on file
    AuthEnabled   \* whether the subject must log in

VARIABLES
    stage,      \* "collecting", then "submitted", then "decided"
    evidence,   \* the files on file
    loggedIn,   \* whether the subject has logged in
    consents    \* the consents given

vars == <<stage, evidence, loggedIn, consents>>

Init ==
    /\ stage = "collecting"
    /\ evidence = {}
    /\ loggedIn = FALSE
    /\ consents = <<>>

LogIn ==
    /\ loggedIn' = TRUE
    /\ UNCHANGED <<stage, evidence, consents>>

Collect(f) ==
    /\ stage = "collecting"
    /\ Cardinality(evidence) < MaxFiles
    /\ evidence' = evidence \cup {f}
    /\ UNCHANGED <<stage, loggedIn, consents>>

Remove(f) ==
    /\ stage = "collecting"
    /\ evidence' = evidence \ {f}
    /\ UNCHANGED <<stage, loggedIn, consents>>

LoginSettled == AuthEnabled => loggedIn

Submit ==
    /\ stage = "collecting"
    /\ evidence \cap Forms # {}
    /\ LoginSettled
    /\ stage' = "submitted"
    /\ UNCHANGED <<evidence, loggedIn, consents>>

Kinds == {IF f \in Forms THEN "signed_form" ELSE "other" : f \in evidence}

StaffConsent ==
    /\ stage = "submitted"
    /\ LoginSettled
    /\ stage' = "decided"
    /\ consents' = Append(consents,
            [by |-> "staff", evidence |-> Kinds, login |-> loggedIn])
    /\ UNCHANGED <<evidence, loggedIn>>

SubjectConsent ==
    /\ stage' = "decided"
    /\ consents' = Append(consents,
            [by |-> "subject", evidence |-> {}, login |-> FALSE])
    /\ UNCHANGED <<evidence, loggedIn>>

\* It is denied, rejected or cancelled.
Close ==
    /\ stage' = "decided"
    /\ UNCHANGED <<evidence, loggedIn, consents>>

Next ==
    \/ LogIn
    \/ \E f \in Files : Collect(f) \/ Remove(f)
    \/ Submit
    \/ StaffConsent
    \/ SubjectConsent
    \/ Close

Spec == Init /\ [][Next]_vars
=============================================================================
