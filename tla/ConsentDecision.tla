--------------------------- MODULE ConsentDecision ---------------------------
(***************************************************************************)
(* What the Consent Manager promises about a consent that is presented to  *)
(* it, for one jti at one data controller: one decision is recorded; a     *)
(* call is permitted at one moment between its arrival and its answer, at  *)
(* which it makes the decision, or finds it in force; and what it is told  *)
(* is that decision. A decision is in force until the consent it was made  *)
(* of is withdrawn or lapses, and it is never given for a call that came   *)
(* after the end of the consent.                                           *)
(*                                                                         *)
(* PresentedConsents implements this specification, and so does every      *)
(* controller of a consent for several in SignedConsents.                  *)
(***************************************************************************)
EXTENDS Naturals

CONSTANTS
    Calls,      \* the calls that present a consent
    Decisions,  \* what may be decided; of a decision d, d.of is the consent
    NoDecision, \* none is recorded
    MaxClock    \* bound on the clock

VARIABLES
    clock,      \* the current time
    validUntil, \* validUntil[c]: the last moment consent c is valid
    decision,   \* the decision recorded
    standing,   \* "none", then that of the consent: "given", "lapsed", "withdrawn"
    call        \* call[q]: what has come of call q

vars == <<clock, validUntil, decision, standing, call>>

\* Calls made before may have recorded a decision.
Init ==
    /\ clock = 0
    /\ \/ decision = NoDecision /\ standing = "none"
       \/ decision \in Decisions /\ standing = "given"
    /\ call = [q \in Calls |-> [phase |-> "new"]]

Tick ==
    /\ clock < MaxClock
    /\ clock' = clock + 1
    /\ UNCHANGED <<validUntil, decision, standing, call>>

Moves(q, state) == call' = [call EXCEPT ![q] = state]

Ask(q) ==
    /\ call[q].phase = "new"
    /\ Moves(q, [phase |-> "asked", at |-> clock])
    /\ UNCHANGED <<clock, validUntil, decision, standing>>

\* The first call that is permitted records the decision, which it has yet to
\* be told.
Decide(q, d) ==
    /\ call[q].phase = "asked"
    /\ decision = NoDecision
    /\ call[q].at <= validUntil[d.of]
    /\ decision' = d
    /\ standing' = "given"
    /\ Moves(q, [phase |-> "permitted", decision |-> d])
    /\ UNCHANGED <<clock, validUntil>>

\* Any other is permitted by the decision, if the consent stands, and told it
\* then or later.
Agree(q) ==
    /\ call[q].phase = "asked"
    /\ standing = "given"
    /\ call[q].at <= validUntil[decision.of]
    /\ \E phase \in {"permitted", "answered"} :
        Moves(q, [phase |-> phase, decision |-> decision])
    /\ UNCHANGED <<clock, validUntil, decision, standing>>

Tell(q) ==
    /\ call[q].phase = "permitted"
    /\ Moves(q, [phase |-> "answered", decision |-> call[q].decision])
    /\ UNCHANGED <<clock, validUntil, decision, standing>>

\* A call may be refused for reasons of its own; it may get no answer, even if
\* it was not looked at.
Refuse(q) ==
    /\ call[q].phase = "asked"
    /\ Moves(q, [phase |-> "refused"])
    /\ UNCHANGED <<clock, validUntil, decision, standing>>

Fail(q) ==
    /\ call[q].phase \in {"new", "asked", "permitted"}
    /\ Moves(q, [phase |-> "failed"])
    /\ UNCHANGED <<clock, validUntil, decision, standing>>

Withdraw ==
    /\ standing \in {"given", "lapsed"}
    /\ standing' = "withdrawn"
    /\ UNCHANGED <<clock, validUntil, decision, call>>

Lapse ==
    /\ standing = "given"
    /\ validUntil[decision.of] < clock
    /\ standing' = "lapsed"
    /\ UNCHANGED <<clock, validUntil, decision, call>>

Next ==
    \/ Tick
    \/ \E q \in Calls :
        \/ Ask(q) \/ Agree(q) \/ Tell(q) \/ Refuse(q) \/ Fail(q)
        \/ \E d \in Decisions : Decide(q, d)
    \/ Withdraw
    \/ Lapse

Spec == Init /\ [][Next]_vars
=============================================================================
