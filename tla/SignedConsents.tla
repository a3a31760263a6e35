--------------------------- MODULE SignedConsents ---------------------------
(***************************************************************************)
(* A consent that a partner signed itself for several data controllers: it *)
(* is recorded as one artefact per controller, each with the use case it   *)
(* was first presented for, if any. The exchange validates it controller   *)
(* by controller and then signs a token for each                           *)
(* (VerificationService._validate_and_issue); a registry presents it for   *)
(* itself; and it is found again by lookup, which gathers the artefacts    *)
(* that belong together (_validate_lookup, _stored_grants). In between,    *)
(* any of the artefacts may be revoked, or expire.                         *)
(*                                                                         *)
(* What one presentation for one controller goes through is told by        *)
(* PresentedConsents, how long a token is valid by TokenIssuance, and      *)
(* which scopes are left by ConsentGrants: here a grant is its controller  *)
(* and the artefact that it is recorded on, which is named by its          *)
(* controller. Time is before or after the end of the consent. One consent *)
(* is modelled; an originated one has one artefact for all its controllers.*)
(***************************************************************************)
EXTENDS Naturals

CONSTANTS
    Controllers, \* the data controllers that the consent has grants for
    UseCases,    \* use cases that it may be presented for
    NoUseCase,   \* presented by a registry, for itself
    Calls,       \* /validate calls; each is made once
    NoArtefact   \* nothing is recorded for the controller

MaybeUseCase == UseCases \cup {NoUseCase}

Times == {"valid", "over"}

Artefact == [useCase : MaybeUseCase, status : {"active", "revoked", "expired"}]

ASSUME SignedAssumption ==
    /\ NoUseCase \notin UseCases
    /\ NoArtefact \notin Artefact

VARIABLES
    time,      \* the end of the consent is to come, or over
    artefact,  \* artefact[c]: what is recorded for controller c
    withdrawn, \* the controllers whose artefact was revoked
    call,      \* call[p]: the progress of call p
    tokens     \* the rows of issued_receipts

signedVars == <<time, artefact, withdrawn, call, tokens>>

\* A grant, and the artefact (consent_id) that it is recorded on.
Grant == [controller : Controllers, consent : Controllers]

Token == [call : Calls, controller : Controllers, consent : Controllers]

\* A call with issue_receipts issues tokens. "before" has the controllers whose
\* artefact was revoked when the call began.
Begun == [useCase : MaybeUseCase, issue : {"tokens", "none"},
          asked : SUBSET Controllers, before : SUBSET Controllers]

\* "presented" has "done" some of the controllers; another one, "at", is "looking"
\* for its artefact or "recording" it. "found" has an artefact "of" the consent,
\* "signing" the grants for which a token is still to be issued. A call that is
\* answered has none.
CallState ==
    [phase : {"new", "refused", "dead"}]
    \cup [phase : {"presented"}, begun : Begun, done : SUBSET Controllers]
    \cup [phase : {"looking", "recording"}, begun : Begun, done : SUBSET Controllers,
          at : Controllers, now : Times]
    \cup [phase : {"found"}, begun : Begun, of : Controllers]
    \cup [phase : {"signing", "answered"}, how : {"presented", "lookup"}, begun : Begun,
          grants : SUBSET Grant, todo : SUBSET Grant]

\* Earlier calls may have recorded artefacts.
SignedInit ==
    /\ time = "valid"
    /\ artefact \in [Controllers ->
                      {NoArtefact} \cup [useCase : MaybeUseCase, status : {"active"}]]
    /\ withdrawn = {}
    /\ call = [p \in Calls |-> [phase |-> "new"]]
    /\ tokens = {}

Moves(p, state) == call' = [call EXCEPT ![p] = state]

records == <<time, artefact, withdrawn, tokens>>

-----------------------------------------------------------------------------
(* The consent ends; its artefacts are revoked and expired. *)

Lapse ==
    /\ time' = "over"
    /\ UNCHANGED <<artefact, withdrawn, call, tokens>>

Recorded(c) == artefact[c] # NoArtefact

SetStatus(c, status) == artefact' = [artefact EXCEPT ![c].status = status]

\* Whatever the status is by now: it was read some time before (ConsentStatus).
Revoke(c) ==
    /\ Recorded(c)
    /\ SetStatus(c, "revoked")
    /\ withdrawn' = withdrawn \cup {c}
    /\ UNCHANGED <<time, call, tokens>>

Expire(c) ==
    /\ Recorded(c) /\ time = "over"
    /\ SetStatus(c, "expired")
    /\ UNCHANGED <<time, withdrawn, call, tokens>>

-----------------------------------------------------------------------------
(* The consent itself is presented. *)

Refused == [phase |-> "refused"]

Begins(u, issue, asked) ==
    [useCase |-> u, issue |-> issue, asked |-> asked, before |-> withdrawn]

\* For one controller, or with issue_receipts for all that it has grants for.
Present(p, u, issue, asked) ==
    /\ call[p].phase = "new"
    /\ issue = "none" => \E c \in Controllers : asked = {c}
    /\ Moves(p, [phase |-> "presented", begun |-> Begins(u, issue, asked), done |-> {}])
    /\ UNCHANGED records

\* validate, called for one controller after the other.
Validate(p, c) ==
    /\ call[p].phase = "presented" /\ c \in call[p].begun.asked \ call[p].done
    /\ Moves(p, [phase |-> "looking", begun |-> call[p].begun, done |-> call[p].done,
                 at |-> c, now |-> time])
    /\ UNCHANGED records

Permitted(p) ==
    [phase |-> "presented", begun |-> call[p].begun, done |-> call[p].done \cup {call[p].at}]

\* Slip: an artefact is as good as its dates.
DecisionFromDates(p) == IF call[p].now = "valid" THEN Permitted(p) ELSE Refused

\* _decision_from_artefact
DecisionFromArtefact(p) ==
    IF call[p].now = "valid" /\ artefact[call[p].at].status = "active"
    THEN Permitted(p) ELSE Refused

\* What was presented before for the controller is answered from its artefact.
AnswerStored(p) ==
    /\ call[p].phase = "looking" /\ Recorded(call[p].at)
    /\ Moves(p, DecisionFromArtefact(p))
    /\ UNCHANGED records

Evaluate(p) ==
    /\ call[p].phase = "looking" /\ ~Recorded(call[p].at) /\ time = "valid"
    /\ Moves(p, [call[p] EXCEPT !.phase = "recording"])
    /\ UNCHANGED records

\* _permit: the artefact has the use case of the call that records it.
Record(p) ==
    /\ call[p].phase = "recording" /\ ~Recorded(call[p].at)
    /\ artefact' = [artefact EXCEPT ![call[p].at] =
                      [useCase |-> call[p].begun.useCase, status |-> "active"]]
    /\ Moves(p, Permitted(p))
    /\ UNCHANGED <<time, withdrawn, tokens>>

\* Another call was first: uq_artefact_jti_controller.
RecordedByOther(p) ==
    /\ call[p].phase = "recording" /\ Recorded(call[p].at)
    /\ Moves(p, DecisionFromArtefact(p))
    /\ UNCHANGED records

\* _deny at any check. One refusal is the answer of the whole call.
Refuse(p) ==
    /\ call[p].phase \in {"looking", "found"}
    /\ Moves(p, Refused)
    /\ UNCHANGED records

Signing(p, how, grants) ==
    [phase |-> "signing", how |-> how, begun |-> call[p].begun, grants |-> grants,
     todo |-> IF call[p].begun.issue = "tokens" THEN grants ELSE {}]

\* Slip: tokens are issued for the controllers that have been permitted so far.
SignSome(p) ==
    /\ call[p].phase = "presented" /\ call[p].done # {}
    /\ Moves(p, Signing(p, "presented",
                        {[controller |-> c, consent |-> c] : c \in call[p].done}))
    /\ UNCHANGED records

\* Every controller is permitted.
SignAll(p) ==
    /\ call[p].phase = "presented" /\ call[p].done = call[p].begun.asked
    /\ Moves(p, Signing(p, "presented",
                        {[controller |-> c, consent |-> c] : c \in call[p].done}))
    /\ UNCHANGED records

-----------------------------------------------------------------------------
(* The consent is found by lookup. *)

\* An artefact that is active and valid: of the use case, or of the controller.
LookUp(p, u, issue, asked, c) ==
    /\ call[p].phase = "new"
    /\ Recorded(c) /\ artefact[c] = [useCase |-> u, status |-> "active"] /\ time = "valid"
    /\ u = NoUseCase => asked = {c}
    /\ Moves(p, [phase |-> "found", begun |-> Begins(u, issue, asked), of |-> c])
    /\ UNCHANGED records

\* Slip: the consent_id is that of the artefact that was found.
GrantsOfFound(c, asked) ==
    {[controller |-> d, consent |-> c] :
        d \in {e \in asked : Recorded(e) /\ artefact[e].useCase = artefact[c].useCase
                                        /\ artefact[e].status = "active"}}

\* Slip: the artefacts of the jti, whatever they were recorded for.
GrantsOfJti(c, asked) ==
    {[controller |-> d, consent |-> d] :
        d \in {e \in asked : Recorded(e) /\ artefact[e].status = "active"}}

\* _stored_grants: the active artefacts of the jti with the same use case.
StoredGrants(c, asked) ==
    {[controller |-> d, consent |-> d] :
        d \in {e \in asked : Recorded(e) /\ artefact[e].useCase = artefact[c].useCase
                                        /\ artefact[e].status = "active"}}

\* The grants of which the policies leave something; there must be one.
GatherGrants(p, grants) ==
    /\ call[p].phase = "found"
    /\ grants # {} /\ grants \subseteq StoredGrants(call[p].of, call[p].begun.asked)
    /\ Moves(p, Signing(p, "lookup", grants))
    /\ UNCHANGED records

-----------------------------------------------------------------------------
(* Tokens *)

\* issue: each token is recorded in a transaction of its own.
Issue(p, grant) ==
    /\ call[p].phase = "signing" /\ grant \in call[p].todo
    /\ tokens' = tokens \cup
        {[call |-> p, controller |-> grant.controller, consent |-> grant.consent]}
    /\ Moves(p, [call[p] EXCEPT !.todo = call[p].todo \ {grant}])
    /\ UNCHANGED <<time, artefact, withdrawn>>

Answer(p) ==
    /\ call[p].phase = "signing" /\ call[p].todo = {}
    /\ Moves(p, [call[p] EXCEPT !.phase = "answered"])
    /\ UNCHANGED records

\* The pod dies, or the database fails: what was committed stays.
Die(p) ==
    /\ call[p].phase \notin {"new", "refused", "answered", "dead"}
    /\ Moves(p, [phase |-> "dead"])
    /\ UNCHANGED records

-----------------------------------------------------------------------------

\* data_controller names one, or none: every controller that has a grant.
Askable == {Controllers} \cup {{c} : c \in Controllers}

CallStep(p) ==
    \/ \E u \in MaybeUseCase, issue \in {"tokens", "none"}, asked \in Askable :
        \/ Present(p, u, issue, asked)
        \/ \E c \in Controllers : LookUp(p, u, issue, asked, c)
    \/ \E c \in Controllers : Validate(p, c)
    \/ \E grants \in SUBSET Grant : GatherGrants(p, grants)
    \/ \E grant \in Grant : Issue(p, grant)
    \/ AnswerStored(p) \/ Evaluate(p) \/ Record(p) \/ RecordedByOther(p)
    \/ Refuse(p) \/ SignAll(p) \/ Answer(p) \/ Die(p)

SignedNext ==
    \/ Lapse
    \/ \E c \in Controllers : Revoke(c) \/ Expire(c)
    \/ \E p \in Calls : CallStep(p)

SignedSpec == SignedInit /\ [][SignedNext]_signedVars

-----------------------------------------------------------------------------
(* Properties *)

SignedTypeOK ==
    /\ time \in Times
    /\ artefact \in [Controllers -> Artefact \cup {NoArtefact}]
    /\ withdrawn \in SUBSET Controllers
    /\ call \in [Calls -> CallState]
    /\ tokens \in SUBSET Token

\* receipt_status of a token whose own end is still to come.
ReceiptStatus(token) ==
    IF artefact[token.consent].status = "revoked" THEN "revoked"
    ELSE IF artefact[token.consent].status = "expired" \/ time = "over" THEN "expired"
    ELSE "active"

\* The consent to each controller is withdrawn for itself: revoking its artefact
\* ends its tokens, from whichever call, and those of no other controller, and
\* the expiry job that overwrites the status does not bring them back.
RevocationReachesItsTokens ==
    \A token \in tokens :
        ReceiptStatus(token) = "active"
            <=> token.controller \notin withdrawn /\ time = "valid"

\* A call that begins once a controller's artefact is revoked issues no token for
\* the controller, though it may do for the others.
NoTokenAfterRevocation ==
    \A token \in tokens : call[token.call].phase # "dead" =>
        token.controller \notin call[token.call].begun.before

TokensOf(p) == {token.controller : token \in {t \in tokens : t.call = p}}

\* A call that is refused for one controller leaves no token for those that it was
\* permitted for before; one that is answered has a token for every controller
\* that the consent was presented for, though they are issued one by one.
TokensForAllOrNone ==
    \A p \in Calls :
        /\ call[p].phase \notin {"signing", "answered", "dead"} => TokensOf(p) = {}
        /\ call[p].phase = "answered" /\ call[p].begun.issue = "tokens" =>
            /\ TokensOf(p) = {grant.controller : grant \in call[p].grants}
            /\ call[p].how = "presented" => TokensOf(p) = call[p].begun.asked

\* A lookup for a use case, or by a registry, gives nothing that was recorded for
\* another use case, though artefacts of one jti may differ in that.
LookupKeepsUseCase ==
    \A p \in Calls : call[p].phase \in {"signing", "answered"} /\ call[p].how = "lookup" =>
        \A grant \in call[p].grants : artefact[grant.consent].useCase = call[p].begun.useCase

-----------------------------------------------------------------------------
(* What a registry sees: the decision for one controller, as ConsentDecision  *)
(* tells it, whatever becomes of the other controllers meanwhile. It is what  *)
(* PresentedConsents implements in detail.                                    *)

DecidedFor(c) ==
    IF Recorded(c) THEN [of |-> "consent", useCase |-> artefact[c].useCase] ELSE NoArtefact

StandingFor(c) ==
    CASE ~Recorded(c) -> "none"
      [] Recorded(c) /\ c \in withdrawn -> "withdrawn"
      [] Recorded(c) /\ c \notin withdrawn /\ artefact[c].status = "expired" -> "lapsed"
      [] OTHER -> "given"

Clock(now) == IF now = "valid" THEN 0 ELSE 1

\* A call asks for controller c when it comes to it. One that is refused for
\* another controller is not answered for c.
SeenFor(p, c) ==
    LET s == call[p] IN
    CASE s.phase \in {"refused", "dead"} -> [phase |-> "failed"]
      [] s.phase \in {"looking", "recording"} /\ c \notin s.done /\ c = s.at ->
            [phase |-> "asked", at |-> Clock(s.now)]
      [] \/ s.phase \in {"presented", "looking", "recording"} /\ c \in s.done
         \/ s.phase = "signing" /\ s.how = "presented" /\ c \in s.begun.asked ->
            [phase |-> "permitted", decision |-> DecidedFor(c)]
      [] s.phase = "answered" /\ s.how = "presented" /\ c \in s.begun.asked ->
            [phase |-> "answered", decision |-> DecidedFor(c)]
      [] OTHER -> [phase |-> "new"]

Promise(c) == INSTANCE ConsentDecision WITH
    Decisions  <- [of : {"consent"}, useCase : MaybeUseCase],
    NoDecision <- NoArtefact,
    MaxClock   <- 1,
    clock      <- Clock(time),
    validUntil <- [consent \in {"consent"} |-> 0],
    decision   <- DecidedFor(c),
    standing   <- StandingFor(c),
    call       <- [p \in Calls |-> SeenFor(p, c)]

\* Though the controllers of a consent are validated one by one, recorded by any
\* call and revoked for themselves, each of them sees one decision, and only
\* calls that were permitted while it stood.
DecisionPerController ==
    /\ \A c \in Controllers : Promise(c)!Init
    /\ [][\A c \in Controllers : UNCHANGED Promise(c)!vars \/ Promise(c)!Next]_signedVars

\* validate's comment: "In use-case mode the stored consent records the use case,
\* so a later request without a consent finds it (consent by lookup)."
FoundByItsUseCase ==
    \A p \in Calls :
        /\ call[p].phase = "answered" /\ call[p].how = "presented"
        /\ call[p].begun.useCase # NoUseCase
        => \A grant \in call[p].grants :
            artefact[grant.consent].useCase = call[p].begun.useCase
=============================================================================
