------------------------- MODULE PresentedConsents -------------------------
(***************************************************************************)
(* /validate on a consent the caller presents: one a partner signed itself *)
(* (VerificationService.validate) or a consent token of an exchange        *)
(* (_validate_receipt). The first permit records an artefact, at most one  *)
(* per jti and data controller; presented again, the consent is answered   *)
(* from the artefact, which can be revoked and lapses like any other: this *)
(* module extends ConsentStatus.                                           *)
(*                                                                         *)
(* All consents here carry one jti, at one controller. Consents is what    *)
(* may be presented: as an artefact, it has a status from the moment it is *)
(* recorded. A call reads the policy, then looks for the artefact, then    *)
(* inserts one, each after an await, in which other calls run.             *)
(* Not modelled: what makes a call be refused without looking at the       *)
(* artefact (signature, policy, freshness, subject, use case), which may   *)
(* happen to any call as Deny, and which scopes the policy and the request *)
(* leave: any that the consent has.                                        *)
(***************************************************************************)
EXTENDS ConsentStatus, FiniteSets

CONSTANTS
    Tokens,        \* the consents among Consents that are exchange tokens
    Scopes,        \* the data scopes a consent may carry
    Says,          \* Says[c]: consent c's partner, subject (idType, idValue), scopes
    Presentations, \* the /validate calls of a behaviour; each is made once
    NoArtefact     \* nothing is recorded

ASSUME PresentedAssumption ==
    /\ Tokens \subseteq Consents
    /\ \A c \in Consents : Says[c].scopes \subseteq Scopes

VARIABLES
    artefact,     \* the artefact of the jti at the controller
    presentation, \* presentation[q]: the progress of call q
    decisions     \* the DecisionLog rows: call and decision

presentedVars == <<artefact, presentation, decisions>>

everyVar == <<vars, presentedVars>>

Artefact == [of : Consents, effective : SUBSET Scopes, created : Times]

ASSUME NoArtefactAssumption == NoArtefact \notin Artefact

PresentationState ==
    [phase : {"new", "dead"}]
    \cup [phase : {"presented", "authorised", "lost", "denied"},
          consent : Consents, now : Times]
    \cup [phase : {"evaluated"}, consent : Consents, now : Times,
          effective : SUBSET Scopes]
    \cup [phase : {"recorded", "permitted"}, consent : Consents, now : Times,
          of : Consents, effective : SUBSET Scopes]

\* The status of a consent of which there is no artefact.
Unrecorded == "unrecorded"

PresentedInit ==
    /\ clock = 0
    /\ validUntil \in [Consents -> Times]
    /\ status = [c \in Consents |-> Unrecorded]
    /\ revocations = [c \in Consents |-> <<>>]
    /\ call = [p \in Calls |-> IdleCall]
    /\ sweep = [w \in Sweeps |-> IdleSweep]
    /\ artefact = NoArtefact
    /\ presentation = [q \in Presentations |-> [phase |-> "new"]]
    /\ decisions = {}

-----------------------------------------------------------------------------

Moves(q, next) == presentation' = [presentation EXCEPT ![q] = next]

Denied(q) ==
    [phase |-> "denied", consent |-> presentation[q].consent, now |-> presentation[q].now]

Present(q, c) ==
    /\ presentation[q].phase = "new"
    /\ Moves(q, [phase |-> "presented", consent |-> c, now |-> clock])
    /\ UNCHANGED <<vars, artefact, decisions>>

\* Slip: the end of a token is not looked at.
ReadPolicyOnly(q) ==
    /\ presentation[q].phase = "presented"
    /\ Moves(q, [phase |-> "authorised", consent |-> presentation[q].consent,
                 now |-> presentation[q].now])
    /\ UNCHANGED <<vars, artefact, decisions>>

\* The consent verifies and the partner has a policy that accepts it. A token
\* is not accepted from its exp on, which its artefact has as valid_until.
ReadPolicy(q) ==
    /\ presentation[q].phase = "presented"
    /\ presentation[q].consent \in Tokens =>
        presentation[q].now < validUntil[presentation[q].consent]
    /\ Moves(q, [phase |-> "authorised", consent |-> presentation[q].consent,
                 now |-> presentation[q].now])
    /\ UNCHANGED <<vars, artefact, decisions>>

\* _deny, at any of the checks: a jti that was used for another consent, too.
Deny(q) ==
    /\ presentation[q].phase \in {"presented", "authorised"}
    /\ decisions' = decisions \cup {[call |-> q, decision |-> "deny"]}
    /\ Moves(q, Denied(q))
    /\ UNCHANGED <<vars, artefact>>

\* Consent d, that the artefact was made of, is taken to be the token c
\* presented: the type of the subject's id and the scopes are not compared.
MatchesToken(c, d) ==
    /\ Says[c].partner = Says[d].partner
    /\ Says[c].idValue = Says[d].idValue

\* Slip: as for a token, whatever the type of the subject's id.
MatchesAnyType(c, d) == MatchesToken(c, d) /\ Says[c].scopes = Says[d].scopes

\* The same of a consent the partner signed: all of it must agree.
MatchesSigned(c, d) ==
    /\ Says[c].partner = Says[d].partner
    /\ Says[c].idType = Says[d].idType
    /\ Says[c].idValue = Says[d].idValue
    /\ Says[c].scopes = Says[d].scopes

Matches(c, d) == IF c \in Tokens THEN MatchesToken(c, d) ELSE MatchesSigned(c, d)

\* Slips, for testing the properties: the status is trusted to have been kept up to date; the dates are.
PermitsByStatus(now) == status[artefact.of] = "active"
PermitsByDates(now) == ~Lapsed(artefact.of, now)

Permits(now) == status[artefact.of] = "active" /\ ~Lapsed(artefact.of, now)

\* _decision_from_artefact. It does not go through the decision log.
StoredDecision(q) ==
    IF Permits(presentation[q].now)
    THEN [phase |-> "permitted", consent |-> presentation[q].consent,
          now |-> presentation[q].now,
          of |-> artefact.of, effective |-> artefact.effective]
    ELSE Denied(q)

AnswerStored(q) ==
    /\ presentation[q].phase = "authorised"
    /\ artefact # NoArtefact
    /\ Matches(presentation[q].consent, artefact.of)
    /\ Moves(q, StoredDecision(q))
    /\ UNCHANGED <<vars, artefact, decisions>>

\* No artefact was found, and the policy permits: PolicyService.evaluate takes
\* the time again. It holds a token's consent_exp against it, not its exp.
Evaluate(q) ==
    /\ presentation[q].phase = "authorised"
    /\ artefact = NoArtefact
    /\ presentation[q].consent \notin Tokens => ~Lapsed(presentation[q].consent, clock)
    /\ \E effective \in SUBSET Says[presentation[q].consent].scopes \ {{}} :
        Moves(q, [phase |-> "evaluated", consent |-> presentation[q].consent,
                  now |-> presentation[q].now, effective |-> effective])
    /\ UNCHANGED <<vars, artefact, decisions>>

-----------------------------------------------------------------------------
(* _permit: the artefact and the log row are inserted in one transaction. *)

Inserts(q) ==
    LET c == presentation[q].consent IN
    /\ artefact' = [of |-> c, effective |-> presentation[q].effective, created |-> clock]
    /\ status' = [status EXCEPT ![c] = "active"]
    /\ decisions' = decisions \cup {[call |-> q, decision |-> "permit"]}
    /\ Moves(q, [phase |-> "recorded", consent |-> c, now |-> presentation[q].now,
                 of |-> c, effective |-> presentation[q].effective])
    /\ UNCHANGED <<clock, validUntil, revocations, call, sweep>>

Insert(q) ==
    /\ presentation[q].phase = "evaluated"
    /\ artefact = NoArtefact
    /\ Inserts(q)

\* Slip: the log row is written in a transaction of its own.
InsertFailsLogged(q) ==
    /\ presentation[q].phase = "evaluated"
    /\ artefact # NoArtefact
    /\ decisions' = decisions \cup {[call |-> q, decision |-> "permit"]}
    /\ Moves(q, [phase |-> "lost", consent |-> presentation[q].consent,
                 now |-> presentation[q].now])
    /\ UNCHANGED <<vars, artefact>>

\* The unique constraint is violated: another call inserted first.
InsertFails(q) ==
    /\ presentation[q].phase = "evaluated"
    /\ artefact # NoArtefact
    /\ Moves(q, [phase |-> "lost", consent |-> presentation[q].consent,
                 now |-> presentation[q].now])
    /\ UNCHANGED <<vars, artefact, decisions>>

\* Slip: the loser answers what it would have recorded, all its scopes.
AnswerWinnerOwn(q) ==
    /\ presentation[q].phase = "lost"
    /\ Moves(q, IF Permits(presentation[q].now)
                THEN [phase |-> "permitted", consent |-> presentation[q].consent,
                      now |-> presentation[q].now, of |-> artefact.of,
                      effective |-> Says[presentation[q].consent].scopes]
                ELSE Denied(q))
    /\ UNCHANGED <<vars, artefact, decisions>>

\* The loser of that race answers from the winner's artefact, as it finds it.
AnswerWinner(q) ==
    /\ presentation[q].phase = "lost"
    /\ Moves(q, StoredDecision(q))
    /\ UNCHANGED <<vars, artefact, decisions>>

AnswerRecorded(q) ==
    /\ presentation[q].phase = "recorded"
    /\ Moves(q, [phase |-> "permitted", consent |-> presentation[q].consent,
                 now |-> presentation[q].now, of |-> presentation[q].of,
                 effective |-> presentation[q].effective])
    /\ UNCHANGED <<vars, artefact, decisions>>

\* The pod dies, or the database fails: the call is not answered.
PresentationDies(q) ==
    /\ presentation[q].phase \notin {"new", "dead", "denied", "permitted"}
    /\ Moves(q, [phase |-> "dead"])
    /\ UNCHANGED <<vars, artefact, decisions>>

-----------------------------------------------------------------------------

PresentationStep(q) ==
    \/ \E c \in Consents : Present(q, c)
    \/ ReadPolicy(q)
    \/ Deny(q)
    \/ AnswerStored(q)
    \/ Evaluate(q)
    \/ Insert(q)
    \/ InsertFails(q)
    \/ AnswerWinner(q)
    \/ AnswerRecorded(q)
    \/ PresentationDies(q)

PresentedNext ==
    \/ Next /\ UNCHANGED presentedVars
    \/ \E q \in Presentations : PresentationStep(q)

PresentedSpec == PresentedInit /\ [][PresentedNext]_everyVar

-----------------------------------------------------------------------------
(* Properties *)

PresentedTypeOK ==
    /\ clock \in Times
    /\ validUntil \in [Consents -> Times]
    /\ status \in [Consents -> ArtefactStatus \cup {Unrecorded}]
    /\ revocations \in [Consents -> Seq(Times)]
    /\ call \in [Calls -> CallState]
    /\ sweep \in [Sweeps -> SweepState]
    /\ artefact \in Artefact \cup {NoArtefact}
    /\ presentation \in [Presentations -> PresentationState]
    /\ decisions \in SUBSET [call : Presentations, decision : {"permit", "deny"}]

Permitted(q) == presentation[q].phase = "permitted"

\* Once its artefact is revoked, a consent presented again is refused, however
\* well it is signed and whatever the expiry job does to the artefact's status:
\* a permit is of a call that arrived before the revocation, or with it.
WithdrawnStaysRefused ==
    \A q \in Presentations : Permitted(q) =>
        \A i \in 1..Len(revocations[presentation[q].of]) :
            presentation[q].now <= revocations[presentation[q].of][i]

\* No call is permitted that came after the end of the artefact it is answered
\* with, nor one whose token had ended, whether the call recorded the artefact,
\* found it, or lost the race to insert it.
PermitWithinValidity ==
    \A q \in Presentations : Permitted(q) =>
        /\ presentation[q].now <= validUntil[presentation[q].of]
        /\ presentation[q].consent \in Tokens =>
            presentation[q].now < validUntil[presentation[q].consent]

\* A jti used again for another consent is refused: a call that arrived after
\* the artefact was recorded is permitted only for the same partner and subject
\* id and, of a consent the partner signed, the same type of id and with no
\* scope it does not give. (A token may name the id under another type.)
ReuseIsRefused ==
    \A q \in Presentations :
        Permitted(q) /\ presentation[q].now > artefact.created =>
            LET mine == Says[presentation[q].consent]
                its  == Says[presentation[q].of]
            IN  /\ mine.partner = its.partner /\ mine.idValue = its.idValue
                /\ presentation[q].consent \notin Tokens =>
                    /\ mine.idType = its.idType
                    /\ presentation[q].effective \subseteq mine.scopes

\* Calls that race to record a decision all give the one that was recorded:
\* the same consent, with scopes that the consent gave.
PermitsAgree ==
    \A q \in Presentations : Permitted(q) =>
        /\ artefact # NoArtefact
        /\ presentation[q].of = artefact.of
        /\ presentation[q].effective = artefact.effective
        /\ artefact.effective \subseteq Says[artefact.of].scopes

PermitsLogged == {d \in decisions : d.decision = "permit"}

\* The decision log has a permit exactly when there is an artefact, and then
\* one: losing the race, failing and dying leave no permit behind.
PermitLoggedOnce ==
    IF artefact = NoArtefact THEN PermitsLogged = {}
    ELSE \E q \in Presentations : PermitsLogged = {[call |-> q, decision |-> "permit"]}

\* What the artefact, and the handlers that end it, rely on: one that was never
\* recorded, or is active, is not revoked, and only recorded ones are written.
RecordedSound ==
    /\ \A c \in Consents : status[c] \in {"active", Unrecorded} => ~Withdrawn(c)
    /\ \A p \in Calls :
        call[p].phase # "idle" => status[call[p].consent] # Unrecorded
    /\ \A w \in Sweeps : sweep[w].phase = "selected" =>
        \A c \in sweep[w].rows : status[c] # Unrecorded
    /\ artefact = NoArtefact => \A c \in Consents : status[c] = Unrecorded
    /\ artefact # NoArtefact => artefact.effective \subseteq Says[artefact.of].scopes

\* What call q has found out still holds when it uses it.
CallSound(q) ==
    LET s == presentation[q] IN
    /\ s.phase \notin {"new", "dead"} => s.now <= clock
    /\ s.phase \notin {"new", "dead", "presented", "denied"} /\ s.consent \in Tokens =>
        s.now < validUntil[s.consent]
    /\ s.phase = "evaluated" =>
        /\ s.effective \subseteq Says[s.consent].scopes
        /\ s.now <= validUntil[s.consent]
        /\ artefact # NoArtefact => s.now <= artefact.created
    /\ s.phase = "lost" => artefact # NoArtefact /\ s.now <= artefact.created
    /\ s.phase = "recorded" => s.of = s.consent
    /\ s.phase \in {"recorded", "permitted"} =>
        /\ artefact # NoArtefact
        /\ s.of = artefact.of /\ s.effective = artefact.effective
        /\ s.now <= validUntil[s.of]
        /\ \A i \in 1..Len(revocations[s.of]) : s.now <= revocations[s.of][i]

\* The inductive invariant, with the properties above: a call that evaluates
\* while another inserts came before the artefact, so that it is only such a
\* call that may be answered without comparing consents.
PresentationSound == RecordedSound /\ \A q \in Presentations : CallSound(q)

\* A recorded decision is never replaced by another call's.
DecisionIsFinal == [][artefact # NoArtefact => artefact' = artefact]_everyVar

\* What callers are told of a decision: of which consent, and which scopes.
Decision(of, effective) == [of |-> of, effective |-> effective]

TheDecision ==
    IF artefact = NoArtefact THEN NoArtefact
    ELSE Decision(artefact.of, artefact.effective)

TheStanding ==
    CASE artefact = NoArtefact -> "none"
      [] artefact # NoArtefact -> Standing[artefact.of]

\* A call that recorded the decision is permitted by then; one that is still to
\* look for it, to make it, or to read it after losing the race, is not.
SeenAs(q) ==
    LET s == presentation[q] IN
    CASE s.phase = "new" -> [phase |-> "new"]
      [] s.phase = "dead" -> [phase |-> "failed"]
      [] s.phase = "denied" -> [phase |-> "refused"]
      [] s.phase = "recorded" ->
            [phase |-> "permitted", decision |-> Decision(s.of, s.effective)]
      [] s.phase = "permitted" ->
            [phase |-> "answered", decision |-> Decision(s.of, s.effective)]
      [] OTHER -> [phase |-> "asked", at |-> s.now]

Promise == INSTANCE ConsentDecision WITH
    Calls      <- Presentations,
    Decisions  <- {d \in [of : Consents, effective : SUBSET Scopes] :
                    d.effective \subseteq Says[d.of].scopes},
    NoDecision <- NoArtefact,
    decision   <- TheDecision,
    standing   <- TheStanding,
    call       <- [q \in Presentations |-> SeenAs(q)]

\* However calls race to look for, insert and answer from the artefact, while it
\* is revoked and expires, each permit is given at a moment at which the consent
\* stood, and all are the one decision that was recorded.
DecisionRefined == Promise!Spec

\* validate's comment: "The stored consent must also be this one - same partner,
\* subject and scopes", of consents that partners signed.
StoredConsentIsThisOne ==
    \A q \in Presentations :
        Permitted(q) /\ presentation[q].consent \notin Tokens =>
            Says[presentation[q].consent] = Says[presentation[q].of]
=============================================================================
