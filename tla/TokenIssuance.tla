---------------------------- MODULE TokenIssuance ----------------------------
(***************************************************************************)
(* /validate on a consent the Consent Manager holds, in the exchange role: *)
(* the consent is named by consent_id, or found by lookup, checked, its    *)
(* grants narrowed to the partner's current policy, the decision logged,   *)
(* and one signed consent token issued per granted controller              *)
(* (services/verification_service.py, services/exchange_service.py).       *)
(*                                                                         *)
(* The calls run beside the revocations and expiries of ConsentStatus,     *)
(* which this module extends. A call reads the artefact once, then awaits  *)
(* Partner Management, the decision log and one commit per token, and      *)
(* never reads the artefact again.                                         *)
(*                                                                         *)
(* All consents here are of one partner, subject and use case, the ones a  *)
(* lookup chooses between. Which controllers the policy still allows is    *)
(* any subset: Partner Management may have changed its mind at any time.   *)
(* Not modelled: scopes within a grant, and the checks of the request that *)
(* read no shared state (issuing_refusal, subject and partner mismatch,    *)
(* use-case refusals), which end a call as Deny does.                      *)
(***************************************************************************)
EXTENDS ConsentStatus, Integers, FiniteSets

CONSTANTS
    Validations, \* the /validate calls of a behaviour; each is made once
    Controllers, \* the data controllers the consents have grants for
    TokenTTL     \* receipt_ttl_seconds

ASSUME TokenTTLAssumption == TokenTTL \in Nat

VARIABLES
    validFrom,   \* validFrom[c]: the valid_from column
    validation,  \* validation[v]: the progress of call v
    decisionLog, \* the DecisionLog rows
    tokens       \* the IssuedReceipt rows, with what the signed token says

tokenVars == <<validFrom, validation, decisionLog, tokens>>

allVars == <<vars, tokenVars>>

\* How the call named its consent.
Route == {"by_id", "lookup"}

Token == [call : Validations, controller : Controllers, consent : Consents,
          route : Route, iat : Times, exp : 0..(MaxClock + TokenTTL)]

Logged == [call : Validations, decision : {"permit"}, controller : Controllers]
            \cup [call : Validations, decision : {"deny"}]

\* withdrawnBefore is history, not a field of the program: the consents that
\* had a revocation on record when the call arrived.
Arrived == [phase : {"begun"}, now : Times, consent : Consents,
            withdrawnBefore : SUBSET Consents]
             \cup [phase : {"looking"}, now : Times,
                   withdrawnBefore : SUBSET Consents]

\* Phases in which the call holds an artefact it read earlier. "found" is a
\* lookup that has not yet taken the time it will check the artefact at.
Holding == [phase : {"found", "checked", "logged", "permitted"},
            now : Times, consent : Consents, route : Route,
            granted : SUBSET Controllers, withdrawnBefore : SUBSET Consents]

ValidationState ==
    [phase : {"new", "denied", "dead"}] \cup Arrived \cup Holding

TokenInit ==
    /\ Init
    /\ validFrom \in [Consents -> Times]
    /\ validation = [v \in Validations |-> [phase |-> "new"]]
    /\ decisionLog = {}
    /\ tokens = {}

WithdrawnConsents == {c \in Consents : Withdrawn(c)}

-----------------------------------------------------------------------------
(* By consent_id: the time is taken first, then the artefact is read. *)

BeginById(v, c) ==
    /\ validation[v].phase = "new"
    /\ validation' = [validation EXCEPT ![v] =
            [phase |-> "begun", now |-> clock, consent |-> c,
             withdrawnBefore |-> WithdrawnConsents]]
    /\ UNCHANGED <<vars, validFrom, decisionLog, tokens>>

\* Slip, for testing the properties: the status is not looked at.
UsableByDates(c, now) == ~Lapsed(c, now) /\ validFrom[c] <= now

\* The state of the consent, as _validate_stored tests it.
UsableAt(c, now) ==
    /\ status[c] = "active"
    /\ ~Lapsed(c, now)
    /\ validFrom[c] <= now

ReadById(v) ==
    /\ validation[v].phase = "begun"
    /\ UsableAt(validation[v].consent, validation[v].now)
    /\ validation' = [validation EXCEPT ![v] =
            [phase |-> "checked", now |-> @.now, consent |-> @.consent,
             route |-> "by_id", granted |-> {},
             withdrawnBefore |-> @.withdrawnBefore]]
    /\ UNCHANGED <<vars, validFrom, decisionLog, tokens>>

-----------------------------------------------------------------------------
(* By lookup: the artefact is selected first, then _validate_stored takes  *)
(* its own time and checks the object it was handed.                       *)

BeginLookup(v) ==
    /\ validation[v].phase = "new"
    /\ validation' = [validation EXCEPT ![v] =
            [phase |-> "looking", now |-> clock,
             withdrawnBefore |-> WithdrawnConsents]]
    /\ UNCHANGED <<vars, validFrom, decisionLog, tokens>>

\* The WHERE clause of the lookup: stricter than UsableAt at valid_until.
Matching(now) ==
    {c \in Consents : /\ status[c] = "active"
                      /\ validFrom[c] <= now
                      /\ validUntil[c] > now}

\* ORDER BY valid_until DESC, created_at DESC: the ages are not modelled, so
\* any of the latest ones.
LookupSelect(v) ==
    /\ validation[v].phase = "looking"
    /\ \E c \in Matching(validation[v].now) :
        /\ \A d \in Matching(validation[v].now) : validUntil[d] <= validUntil[c]
        /\ validation' = [validation EXCEPT ![v] =
                [phase |-> "found", now |-> @.now, consent |-> c,
                 route |-> "lookup", granted |-> {},
                 withdrawnBefore |-> @.withdrawnBefore]]
    /\ UNCHANGED <<vars, validFrom, decisionLog, tokens>>

\* The object still says active; only its validity can fail at the new time.
LookupCheck(v) ==
    /\ validation[v].phase = "found"
    /\ ~Lapsed(validation[v].consent, clock)
    /\ validation' = [validation EXCEPT ![v].phase = "checked", ![v].now = clock]
    /\ UNCHANGED <<vars, validFrom, decisionLog, tokens>>

-----------------------------------------------------------------------------
(* Refusals *)

\* Why a call may be refused in its phase: the artefact it reads is not
\* usable, no consent matches, the object it found has lapsed since, or (once
\* checked) no grant is left under the partner's policy, or Partner Management
\* cannot be reached.
Refused(v) ==
    CASE validation[v].phase = "begun" ->
            ~UsableAt(validation[v].consent, validation[v].now)
      [] validation[v].phase = "looking" -> Matching(validation[v].now) = {}
      [] validation[v].phase = "found" -> Lapsed(validation[v].consent, clock)
      [] validation[v].phase = "checked" -> TRUE
      [] OTHER -> FALSE

Deny(v) ==
    /\ Refused(v)
    /\ decisionLog' = decisionLog \cup {[call |-> v, decision |-> "deny"]}
    /\ validation' = [validation EXCEPT ![v] = [phase |-> "denied"]]
    /\ UNCHANGED <<vars, validFrom, tokens>>

-----------------------------------------------------------------------------
(* The decision and its tokens *)

\* Slip: the time the tokens are dated with is taken after the policy answered.
LogPermitsLate(v) ==
    /\ validation[v].phase = "checked"
    /\ \E granted \in (SUBSET Controllers) \ {{}} :
        /\ decisionLog' = decisionLog \cup
                {[call |-> v, decision |-> "permit", controller |-> k] :
                    k \in granted}
        /\ validation' = [validation EXCEPT ![v].phase = "logged",
                                            ![v].now = clock,
                                            ![v].granted = granted]
    /\ UNCHANGED <<vars, validFrom, tokens>>

\* Slip: one log row per call instead of one per controller.
LogPermitsOnce(v) ==
    /\ validation[v].phase = "checked"
    /\ \E granted \in (SUBSET Controllers) \ {{}}, k \in Controllers :
        /\ k \in granted
        /\ decisionLog' = decisionLog \cup
                {[call |-> v, decision |-> "permit", controller |-> k]}
        /\ validation' = [validation EXCEPT ![v].phase = "logged",
                                            ![v].granted = granted]
    /\ UNCHANGED <<vars, validFrom, tokens>>

\* Partner Management has answered: one permit per controller the policy still
\* allows, logged in a single commit before any token exists.
LogPermits(v) ==
    /\ validation[v].phase = "checked"
    /\ \E granted \in (SUBSET Controllers) \ {{}} :
        /\ decisionLog' = decisionLog \cup
                {[call |-> v, decision |-> "permit", controller |-> k] :
                    k \in granted}
        /\ validation' = [validation EXCEPT ![v].phase = "logged",
                                            ![v].granted = granted]
    /\ UNCHANGED <<vars, validFrom, tokens>>

Earlier(s, t) == IF s <= t THEN s ELSE t

\* Slip: no cap by the consent's validity.
ExpiryUncapped(c, now) == now + TokenTTL

\* A token ends with its consent or after its lifetime, whichever is earlier.
Expiry(c, now) == Earlier(validUntil[c], now + TokenTTL)

TokenOf(v, k) ==
    [call |-> v, controller |-> k, consent |-> validation[v].consent,
     route |-> validation[v].route, iat |-> validation[v].now,
     exp |-> Expiry(validation[v].consent, validation[v].now)]

\* ExchangeService.issue: the token's row is committed, then it is signed.
IssueToken(v, k) ==
    /\ validation[v].phase = "logged"
    /\ k \in validation[v].granted
    /\ tokens' = tokens \cup {TokenOf(v, k)}
    /\ validation' = [validation EXCEPT ![v].granted = @ \ {k}]
    /\ UNCHANGED <<vars, validFrom, decisionLog>>

\* The answer carries the permit and every token the call asked for. A call
\* without issue_receipts answers right after the log.
Answer(v) ==
    /\ validation[v].phase = "logged"
    /\ \/ validation[v].granted = {}
       \/ \A t \in tokens : t.call # v
    /\ validation' = [validation EXCEPT ![v].phase = "permitted"]
    /\ UNCHANGED <<vars, validFrom, decisionLog, tokens>>

\* The pod dies: what was committed stays, the caller gets no answer.
ValidationDies(v) ==
    /\ validation[v].phase
        \in {"begun", "looking", "found", "checked", "logged"}
    /\ validation' = [validation EXCEPT ![v] = [phase |-> "dead"]]
    /\ UNCHANGED <<vars, validFrom, decisionLog, tokens>>

-----------------------------------------------------------------------------

ValidationStep(v) ==
    \/ \E c \in Consents : BeginById(v, c)
    \/ ReadById(v)
    \/ BeginLookup(v)
    \/ LookupSelect(v)
    \/ LookupCheck(v)
    \/ Deny(v)
    \/ LogPermits(v)
    \/ \E k \in Controllers : IssueToken(v, k)
    \/ Answer(v)
    \/ ValidationDies(v)

StatusStep == Next /\ UNCHANGED tokenVars

TokenNext ==
    \/ StatusStep
    \/ \E v \in Validations : ValidationStep(v)

TokenSpec == TokenInit /\ [][TokenNext]_allVars

-----------------------------------------------------------------------------
(* Properties *)

TokenTypeOK ==
    /\ validFrom \in [Consents -> Times]
    /\ validation \in [Validations -> ValidationState]
    /\ decisionLog \subseteq Logged
    /\ tokens \subseteq Token

\* "A revocation reaches issued tokens within [the token lifetime]": a token
\* from a call by consent_id dies at most TokenTTL after every revocation of
\* its consent, even if the token was committed after that revocation. It
\* holds because the call takes its time before it reads the artefact. A lookup
\* takes it afterwards: a revocation between the two may be outlived by more.
ReachesToken(t) ==
    \A i \in DOMAIN revocations[t.consent] :
        t.exp <= revocations[t.consent][i] + TokenTTL

RevocationReachesTokens ==
    \A t \in tokens : t.route = "by_id" => ReachesToken(t)

\* A call that arrives after a revocation was committed is never answered
\* with a permit, logs none and issues no token, whatever an expiry that was
\* in flight has done to the status column since.
NoPermitAfterWithdrawal ==
    \A v \in Validations :
        validation[v].phase \in {"logged", "permitted"}
            => validation[v].consent \notin validation[v].withdrawnBefore

\* Every token is accounted for, even if the pod died before it answered: the
\* permit of its call for its controller is in the decision log.
TokensAreLogged ==
    \A t \in tokens :
        [call |-> t.call, decision |-> "permit", controller |-> t.controller]
            \in decisionLog

\* A token is only good within its consent's validity, whichever clock reading
\* the call used and however long it waited.
TokensWithinValidity ==
    \A t \in tokens : /\ validFrom[t.consent] <= t.iat
                      /\ t.iat <= t.exp
                      /\ t.exp <= validUntil[t.consent]

\* What a call in flight relies on and never reads again. The time it took is
\* not in the future and lies within the validity of the artefact it holds;
\* if it came by consent_id, no revocation is older than that time; and the
\* permits of the tokens it still has to issue are logged.
CallSound(v) ==
    LET req == validation[v] IN
    /\ req.phase \in {"begun", "looking", "found", "checked", "logged"}
        => req.now <= clock
    /\ req.phase \in {"begun", "looking"}
        => req.withdrawnBefore \subseteq WithdrawnConsents
    /\ req.phase \in {"found", "checked"}
        => req.consent \notin req.withdrawnBefore
    /\ req.phase = "found" => req.route = "lookup"
    /\ req.phase \in {"found", "checked", "logged"}
        => validFrom[req.consent] <= req.now
    /\ req.phase \in {"checked", "logged"}
        => /\ req.now <= validUntil[req.consent]
           /\ req.route = "by_id" =>
                \A i \in DOMAIN revocations[req.consent] :
                    req.now <= revocations[req.consent][i]
    /\ req.phase = "logged" =>
        \A k \in req.granted :
            [call |-> v, decision |-> "permit", controller |-> k]
                \in decisionLog

\* A token was dated no later than it was issued, and lives at most TokenTTL.
TokenSound(t) == t.iat <= clock /\ t.exp <= t.iat + TokenTTL

\* Both strengthen the four properties above to an inductive invariant.
IssuanceSound ==
    /\ \A v \in Validations : CallSound(v)
    /\ \A t \in tokens : TokenSound(t)

\* A call that has read its artefact is permitted by then: what comes after is
\* its date, the policy and the log.
AnsweredAs(v) ==
    LET req == validation[v] IN
    CASE req.phase = "new" -> [phase |-> "new"]
      [] req.phase = "begun" -> [phase |-> "asked", route |-> "by_id", date |-> req.now]
      [] req.phase = "looking" -> [phase |-> "asked", route |-> "lookup", date |-> req.now]
      [] req.phase = "permitted" -> [phase |-> "answered", of |-> req.consent]
      [] req.phase = "denied" -> [phase |-> "refused"]
      [] req.phase = "dead" -> [phase |-> "failed"]
      [] OTHER -> [phase |-> "permitted", route |-> req.route, date |-> req.now,
                   of |-> req.consent]

Asking == [v \in Validations |-> AnsweredAs(v)]

\* What a caller learns of a token.
Issued == {[call |-> t.call, consent |-> t.consent, end |-> t.exp] : t \in tokens}

Promise == INSTANCE ConsentAnswers WITH
    standing <- Standing, asking <- Asking, issued <- Issued

\* However revocations and expiries race with /validate, every permit is given
\* at a moment at which the consent stood, and every token follows from one.
AnswersRefined == Promise!AnswersSpec
=============================================================================
