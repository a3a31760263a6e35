--------------------------- MODULE ConsentGrants ---------------------------
(***************************************************************************)
(* The scopes of a consent, from what a partner requests to what a         *)
(* registry is told (LifecycleService, AssistedConsentService and          *)
(* VerificationService._validate_stored): requested, granted by the        *)
(* subject, left by the partner's policy at approval, and by its policy    *)
(* again whenever the consent is presented. A consent may be for several   *)
(* data controllers, each with a scope policy of its own, which are read   *)
(* one after the other; at an exchange it is made for a use case, whose    *)
(* grants are the Composite's and for which the partner has one policy.    *)
(*                                                                         *)
(* Policies change at Partner Management, as versions that are never       *)
(* altered, and what is read may be an older version, as long as a cache   *)
(* has it (PmPolicyCache). One partner, one request and its consent are    *)
(* modelled; ConsentRequests is about the states of a request,             *)
(* ConsentStatus about those of a consent. Of a policy's purposes, subject *)
(* id types and maximum validity only the latter is kept. How long the     *)
(* consent is valid is left open.                                          *)
(***************************************************************************)
EXTENDS Naturals, Sequences, Functions

CONSTANTS
    Controllers, \* data controllers: each a key of a scope policy
    UseCases,    \* use cases: each the key of a policy too
    Scopes,      \* data scopes
    Policies,    \* the policies that Partner Management may have
    FirstPolicies, \* those with which it starts
    Offers,      \* what the Composite may say that a use case needs
    Requests,    \* what is requested of the controllers, outside an exchange
    Asks,        \* the scopes that a /validate call may request
    Calls,       \* /validate calls
    NoPolicy,    \* no policy is active
    NoUseCase,   \* made, or presented, without a use case
    NoConsent,   \* nothing is approved
    MaxValidity, \* bound: the longest validity
    MaxChanges   \* bound: how often policies and use cases change

Keys == Controllers \cup UseCases

\* What each controller is asked, grants or is left with; {} is nothing.
ByController == [Controllers -> SUBSET Scopes]

Nothing == [c \in Controllers |-> {}]

Validities == 1..MaxValidity

Policy == [scopes : SUBSET Scopes, limit : 0..MaxValidity]

ASSUME GrantsAssumption ==
    /\ Policies \subseteq Policy /\ NoPolicy \notin Policy
    /\ FirstPolicies \subseteq Policies \cup {NoPolicy}
    /\ Offers \subseteq ByController /\ Nothing \notin Offers
    /\ Requests \subseteq ByController /\ Asks \subseteq SUBSET Scopes
    /\ NoUseCase \notin UseCases /\ MaxValidity \in Nat

VARIABLES
    exchange, \* consent_by_use_case()
    policy,   \* policy[k]: the versions of the policy with key k
    oldest,   \* oldest[k]: the oldest version that a cache may still have
    offer,    \* offer[u]: what use case u needs now
    request,  \* the consent request, and the call that works on it
    consent,  \* the artefact
    call      \* call[p]: the progress of /validate call p

grantVars == <<exchange, policy, oldest, offer, request, consent, call>>

served == <<exchange, policy, oldest, offer>>

MaybeUseCase == UseCases \cup {NoUseCase}

\* "checking" has grants still to be checked, "naming" a use case still to be
\* read. While a request is being approved, "left" is what the policies read so
\* far leave, "version" their versions, and "todo" what has not been read.
RequestState ==
    [phase : {"none"}]
    \cup [phase : {"checking"}, want : ByController, todo : SUBSET Controllers]
    \cup [phase : {"naming"}, useCase : UseCases]
    \cup [phase : {"pending", "approved"}, want : ByController, useCase : MaybeUseCase]
    \cup [phase : {"narrowing"}, want : ByController, useCase : MaybeUseCase,
          granted : ByController, left : ByController,
          version : [Controllers -> Nat], todo : SUBSET Controllers]
    \cup [phase : {"capping"}, want : ByController, useCase : UseCases,
          granted : ByController, read : Nat]

Consent == [useCase : MaybeUseCase, validity : Validities, granted : ByController,
            left : ByController, version : [Controllers -> Nat]]

ASSUME NoConsentAssumption == NoConsent \notin Consent

\* A call permits "scopes", each controller's under the policy "version" that is
\* logged with it. "since" is what a cache could have when the call began.
CallState ==
    [phase : {"idle", "refused"}]
    \cup [phase : {"reading", "permitted"}, how : {"id", "lookup"}, useCase : MaybeUseCase,
          asks : SUBSET Scopes, todo : SUBSET Controllers, scopes : ByController,
          version : [Controllers -> Nat], since : [Keys -> Nat]]

GrantsInit ==
    /\ exchange \in BOOLEAN
    /\ policy \in [Keys -> {<<first>> : first \in FirstPolicies}]
    /\ oldest = [k \in Keys |-> 1]
    /\ offer \in [UseCases -> Offers]
    /\ request = [phase |-> "none"]
    /\ consent = NoConsent
    /\ call = [p \in Calls |-> [phase |-> "idle"]]

-----------------------------------------------------------------------------
(* Partner Management and the Composite. *)

Current(k) == Len(policy[k])

Changes == FoldFunction(+, 0, [k \in Keys |-> Current(k) - 1])

Publish(k, new) ==
    /\ Changes < MaxChanges
    /\ policy' = [policy EXCEPT ![k] = Append(policy[k], new)]
    /\ UNCHANGED <<exchange, oldest, offer, request, consent, call>>

\* get_verification_material: what may be answered, the versions of policies.
\* Those of one pod are such a window too, see PolicySource.
Readable(k) == oldest[k]..Current(k)

\* What the caches had of the oldest versions has been read again, or evicted.
CachesExpire(k) ==
    /\ \E v \in Readable(k) : oldest' = [oldest EXCEPT ![k] = v]
    /\ UNCHANGED <<exchange, policy, offer, request, consent, call>>

PublishUseCase(u, new) ==
    /\ offer' = [offer EXCEPT ![u] = new]
    /\ UNCHANGED <<exchange, policy, oldest, request, consent, call>>

Active(k, v) == policy[k][v] # NoPolicy

-----------------------------------------------------------------------------
(* create_request *)

AskScopes(want) ==
    /\ request.phase = "none" /\ ~exchange
    /\ request' = [phase |-> "checking", want |-> want,
                   todo |-> {c \in Controllers : want[c] # {}}]
    /\ UNCHANGED <<served, consent, call>>

Pending(want, u) == [phase |-> "pending", want |-> want, useCase |-> u]

\* resolve_grants: each controller's policy must be active and have the scopes.
CheckGrant(c) ==
    /\ request.phase = "checking" /\ c \in request.todo
    /\ \E v \in Readable(c) :
        request' = IF Active(c, v) /\ request.want[c] \subseteq policy[c][v].scopes
                   THEN [phase |-> "checking", want |-> request.want,
                         todo |-> request.todo \ {c}]
                   ELSE [phase |-> "none"]
    /\ UNCHANGED <<served, consent, call>>

Created ==
    /\ request.phase = "checking" /\ request.todo = {}
    /\ request' = Pending(request.want, NoUseCase)
    /\ UNCHANGED <<served, consent, call>>

\* granted_use_case reads the policy; read_use_case what the use case needs.
AskUseCase(u) ==
    /\ request.phase = "none" /\ exchange
    /\ \E v \in Readable(u) : Active(u, v)
    /\ request' = [phase |-> "naming", useCase |-> u]
    /\ UNCHANGED <<served, consent, call>>

CreatedForUseCase ==
    /\ request.phase = "naming"
    /\ request' = Pending(offer[request.useCase], request.useCase)
    /\ UNCHANGED <<served, consent, call>>

-----------------------------------------------------------------------------
(* approve, by the subject or by staff *)

\* Slip: one list of scopes is granted to every controller as it is.
AgreedUnsorted(want, list) == [c \in Controllers |-> IF want[c] = {} THEN {} ELSE list]

\* One list of scopes for every controller: of it, each has what it requested.
Agreed(want, list) == [c \in Controllers |-> want[c] \cap list]

\* What may be granted: what the subject grants each controller, or the list it
\* grants. Staff approve all that was requested.
Grantable(want) ==
    {granted \in ByController : \A c \in Controllers : granted[c] \subseteq want[c]}
    \cup {Agreed(want, list) : list \in SUBSET UNION {want[c] : c \in Controllers}}

Narrowing(granted, left, version, todo) ==
    [phase |-> "narrowing", want |-> request.want, useCase |-> request.useCase,
     granted |-> granted, left |-> left, version |-> version, todo |-> todo]

Unread == [c \in Controllers |-> 0]

Asking(scopes) == {c \in Controllers : scopes[c] # {}}

Approve(granted) ==
    /\ request.phase = "pending" /\ request.useCase = NoUseCase
    /\ request' = Narrowing(granted, Nothing, Unread, Asking(granted))
    /\ UNCHANGED <<served, consent, call>>

\* Slip: the scopes that were granted are kept whatever the policy has.
NarrowGrantOnly(c) ==
    /\ request.phase = "narrowing" /\ c \in request.todo
    /\ \E v \in Readable(c) :
        request' = Narrowing(request.granted,
            [request.left EXCEPT ![c] =
                IF Active(c, v) THEN request.granted[c] ELSE {}],
            [request.version EXCEPT ![c] = v], request.todo \ {c})
    /\ UNCHANGED <<served, consent, call>>

\* A grant is narrowed to the policy for its controller as it is read now.
NarrowGrant(c) ==
    /\ request.phase = "narrowing" /\ c \in request.todo
    /\ \E v \in Readable(c) :
        request' = Narrowing(request.granted,
            [request.left EXCEPT ![c] =
                IF Active(c, v) THEN request.granted[c] \cap policy[c][v].scopes ELSE {}],
            [request.version EXCEPT ![c] = v], request.todo \ {c})
    /\ UNCHANGED <<served, consent, call>>

\* use_case_ceiling: the use case must still be granted, and the grants are
\* narrowed to what it needs now.
ApproveForUseCase(granted) ==
    /\ request.phase = "pending" /\ request.useCase # NoUseCase
    /\ \E v \in Readable(request.useCase) :
        /\ Active(request.useCase, v)
        /\ request' = [phase |-> "capping", want |-> request.want, useCase |-> request.useCase,
                       granted |-> granted, read |-> v]
    /\ UNCHANGED <<served, consent, call>>

Cap ==
    /\ request.phase = "capping"
    /\ request' = Narrowing(request.granted,
        [c \in Controllers |-> request.granted[c] \cap offer[request.useCase][c]],
        [c \in Controllers |-> request.read], {})
    /\ UNCHANGED <<served, consent, call>>

Approved(validity) ==
    /\ request.phase = "narrowing" /\ request.todo = {}
    /\ Asking(request.left) # {}
    /\ consent' = [useCase |-> request.useCase, validity |-> validity,
                   granted |-> request.granted, left |-> request.left,
                   version |-> request.version]
    /\ request' = [phase |-> "approved", want |-> request.want, useCase |-> request.useCase]
    /\ UNCHANGED <<served, call>>

\* Nothing is left, another check refuses, or a policy cannot be read.
GiveUp ==
    /\ request.phase \in {"checking", "naming", "narrowing", "capping"}
    /\ request' = IF request.phase \in {"checking", "naming"} THEN [phase |-> "none"]
                  ELSE Pending(request.want, request.useCase)
    /\ UNCHANGED <<served, consent, call>>

-----------------------------------------------------------------------------
(* /validate: the consent presented by its ID, or found by lookup *)

\* A lookup is by use case or, of consents made without one, by controller.
Found(how, u, at) ==
    how = "lookup" =>
        /\ consent.useCase = u
        /\ u = NoUseCase => \E c \in Asking(consent.left) : at = {c}

\* _validate_stored: another use case than the consent's is refused.
Serves(u) == u # NoUseCase => consent.useCase \in {u, NoUseCase}

Refused == [phase |-> "refused"]

\* The call names a use case, or none; a controller, or none; the scopes it
\* requests (all of them when it names none).
Present(p, how, u, at, asks) ==
    /\ call[p].phase = "idle" /\ consent # NoConsent
    /\ call' = [call EXCEPT ![p] =
        IF /\ Found(how, u, at) /\ Serves(u)
           /\ at \cap Asking(consent.left) # {}
        THEN [phase |-> "reading", how |-> how, useCase |-> u, asks |-> asks,
              todo |-> at \cap Asking(consent.left), scopes |-> Nothing,
              version |-> Unread, since |-> oldest]
        ELSE Refused]
    /\ UNCHANGED <<served, request, consent>>

\* What the call knows after reading for some of the controllers.
Reads(p, done, scopes, version) ==
    [phase |-> "reading", how |-> call[p].how, useCase |-> call[p].useCase,
     asks |-> call[p].asks, todo |-> call[p].todo \ done, scopes |-> scopes,
     version |-> version, since |-> call[p].since]

\* Slip: the policy is the one that the consent was approved under.
ReadScopePolicyOfApproval(p, c) ==
    /\ call[p].phase = "reading" /\ call[p].useCase = NoUseCase /\ c \in call[p].todo
    /\ call' = [call EXCEPT ![p] = Reads(p, {c},
            [call[p].scopes EXCEPT ![c] = consent.left[c] \cap call[p].asks],
            [call[p].version EXCEPT ![c] = consent.version[c]])]
    /\ UNCHANGED <<served, request, consent>>

\* Each controller's grant is narrowed to the policy for the controller.
ReadScopePolicy(p, c) ==
    /\ call[p].phase = "reading" /\ call[p].useCase = NoUseCase /\ c \in call[p].todo
    /\ \E v \in Readable(c) :
        call' = [call EXCEPT ![p] = Reads(p, {c},
            [call[p].scopes EXCEPT ![c] =
                IF Active(c, v)
                THEN consent.left[c] \cap policy[c][v].scopes \cap call[p].asks ELSE {}],
            [call[p].version EXCEPT ![c] = v])]
    /\ UNCHANGED <<served, request, consent>>

\* check_use_case and _stored_use_case_refusal. A limit of 0 is none.
Allows(u, v) ==
    /\ Active(u, v)
    /\ policy[u][v].limit # 0 => consent.validity <= policy[u][v].limit

\* In use-case mode the policy for the use case is read, once.
ReadUseCasePolicy(p) ==
    /\ call[p].phase = "reading" /\ call[p].useCase # NoUseCase /\ call[p].todo # {}
    /\ \E v \in Readable(call[p].useCase) :
        call' = [call EXCEPT ![p] =
            IF Allows(call[p].useCase, v)
            THEN Reads(p, call[p].todo,
                [c \in Controllers |->
                    IF c \in call[p].todo THEN consent.left[c] \cap call[p].asks ELSE {}],
                [c \in Controllers |-> v])
            ELSE Refused]
    /\ UNCHANGED <<served, request, consent>>

Permit(p, version) ==
    [phase |-> "permitted", how |-> call[p].how, useCase |-> call[p].useCase,
     asks |-> call[p].asks, todo |-> {}, scopes |-> call[p].scopes,
     version |-> version, since |-> call[p].since]

\* Slip: every controller is logged with the policy that was read last.
AnswerWithLastPolicy(p) ==
    /\ call[p].phase = "reading" /\ call[p].todo = {}
    /\ \E last \in Controllers :
        call' = [call EXCEPT ![p] =
            IF Asking(call[p].scopes) = {} THEN Refused
            ELSE Permit(p, [c \in Controllers |-> call[p].version[last]])]
    /\ UNCHANGED <<served, request, consent>>

\* The answer, and a DecisionLog row per controller.
Answer(p) ==
    /\ call[p].phase = "reading" /\ call[p].todo = {}
    /\ call' = [call EXCEPT ![p] =
        IF Asking(call[p].scopes) = {} THEN Refused ELSE Permit(p, call[p].version)]
    /\ UNCHANGED <<served, request, consent>>

\* The pod is restarted, with its role changed or not; approvals in progress
\* are not committed.
Restart(role) ==
    /\ exchange' = role
    /\ request' = CASE request.phase \in {"checking", "naming"} -> [phase |-> "none"]
                    [] request.phase \in {"narrowing", "capping"} ->
                        Pending(request.want, request.useCase)
                    [] OTHER -> request
    /\ call' = [p \in Calls |-> [phase |-> "idle"]]
    /\ UNCHANGED <<policy, oldest, offer, consent>>

-----------------------------------------------------------------------------

ExternalStep ==
    \/ \E k \in Keys : CachesExpire(k) \/ \E new \in Policies \cup {NoPolicy} : Publish(k, new)
    \/ \E u \in UseCases, new \in Offers : PublishUseCase(u, new)

RequestStep ==
    \/ \E want \in Requests : AskScopes(want)
    \/ \E c \in Controllers : CheckGrant(c) \/ NarrowGrant(c)
    \/ \E u \in UseCases : AskUseCase(u)
    \/ Created \/ CreatedForUseCase \/ Cap \/ GiveUp
    \/ \E granted \in ByController :
        /\ request.phase = "pending" /\ granted \in Grantable(request.want)
        /\ Approve(granted) \/ ApproveForUseCase(granted)
    \/ \E validity \in Validities : Approved(validity)

CallStep(p) ==
    \/ \E how \in {"id", "lookup"}, u \in MaybeUseCase,
          at \in {Controllers} \cup {{c} : c \in Controllers}, asks \in Asks :
        Present(p, how, u, at, asks)
    \/ \E c \in Controllers : ReadScopePolicy(p, c)
    \/ ReadUseCasePolicy(p)
    \/ Answer(p)

GrantsNext ==
    \/ ExternalStep
    \/ RequestStep
    \/ \E p \in Calls : CallStep(p)
    \/ \E role \in BOOLEAN : Restart(role)

GrantsSpec == GrantsInit /\ [][GrantsNext]_grantVars

-----------------------------------------------------------------------------
(* Properties *)

GrantsTypeOK ==
    /\ exchange \in BOOLEAN
    /\ policy \in [Keys -> Seq(Policies \cup {NoPolicy})]
    /\ oldest \in [Keys -> Nat] /\ \A k \in Keys : oldest[k] \in 1..Current(k)
    /\ offer \in [UseCases -> Offers]
    /\ request \in RequestState
    /\ consent \in Consent \cup {NoConsent}
    /\ call \in [Calls -> CallState]

Permitted(p) == call[p].phase = "permitted"

\* The key of the policy that a controller's grant is narrowed to.
KeyFor(u, c) == IF u = NoUseCase THEN c ELSE u

\* Along the way from request to answer scopes are only lost: what a registry is
\* told is of what the policy left at approval, of what was granted, of what was
\* requested for that very controller, and of what the call asks.
NeverBeyondAgreed ==
    consent # NoConsent => \A c \in Controllers :
        /\ consent.granted[c] \subseteq request.want[c]
        /\ consent.left[c] \subseteq consent.granted[c]
        /\ \A p \in Calls : Permitted(p) =>
            call[p].scopes[c] \subseteq consent.left[c] \cap call[p].asks

\* Each grant of a consent was allowed by the very version of the policy that is
\* recorded with it, though the policies were read one after the other.
GrantsWithinRecordedPolicy ==
    consent # NoConsent => \A c \in Asking(consent.left) :
        LET k == KeyFor(consent.useCase, c) IN
        /\ consent.version[c] \in 1..Current(k) /\ Active(k, consent.version[c])
        /\ consent.useCase = NoUseCase =>
            consent.left[c] \subseteq policy[k][consent.version[c]].scopes

\* Each row of the decision log has a version of the policy that allowed what was
\* permitted with it.
PermitsWithinLoggedPolicy ==
    \A p \in Calls : Permitted(p) => \A c \in Asking(call[p].scopes) :
        LET k == KeyFor(call[p].useCase, c)
            v == call[p].version[c]
        IN  /\ v \in 1..Current(k)
            /\ IF call[p].useCase = NoUseCase
               THEN Active(k, v) /\ call[p].scopes[c] \subseteq policy[k][v].scopes
               ELSE Allows(k, v)

\* A policy that was changed or withdrawn binds every call that begins once the
\* caches have read it, for consents approved before as well.
PermitByCurrentPolicy ==
    \A p \in Calls : Permitted(p) => \A c \in Asking(call[p].scopes) :
        LET k == KeyFor(call[p].useCase, c) IN call[p].version[c] >= call[p].since[k]

\* A lookup serves a consent that was made for a use case to that use case only,
\* and to no registry directly; presented for another one it is refused.
UseCaseFoundForItself ==
    \A p \in Calls : Permitted(p) =>
        /\ call[p].how = "lookup" => call[p].useCase = consent.useCase
        /\ call[p].useCase # NoUseCase => consent.useCase \in {call[p].useCase, NoUseCase}

-----------------------------------------------------------------------------
(* Implementation of PolicedScopes *)

\* What has come of the request for a controller's scopes. Nothing left of them is
\* nothing decided.
GrantFor(c) ==
    LET r == request IN
    CASE r.phase \in {"none", "checking", "naming"} -> [phase |-> "none"]
      [] r.phase = "pending" \/ (r.phase = "narrowing" /\ r.left[c] = {}) ->
            [phase |-> "asked", want |-> r.want[c], useCase |-> r.useCase]
      [] r.phase = "narrowing" /\ r.left[c] # {} ->
            [phase |-> "decided", want |-> r.want[c], useCase |-> r.useCase,
             granted |-> r.granted[c], left |-> r.left[c], version |-> r.version[c]]
      [] r.phase = "capping" ->
            [phase |-> "allowed", want |-> r.want[c], useCase |-> r.useCase,
             granted |-> r.granted[c], version |-> r.read]
      [] r.phase = "approved" /\ consent.left[c] # {} ->
            [phase |-> "given", want |-> r.want[c], useCase |-> consent.useCase,
             granted |-> consent.granted[c], left |-> consent.left[c],
             version |-> consent.version[c], validity |-> consent.validity]
      [] OTHER -> [phase |-> "refused"]

\* What a call is permitted, or about to be permitted, of a controller.
PermitFor(p, c) ==
    LET s == call[p] IN
    CASE s.phase \in {"idle", "refused"} -> [phase |-> s.phase]
      [] s.phase = "reading" /\ s.scopes[c] = {} ->
            [phase |-> "asked", useCase |-> s.useCase, asks |-> s.asks]
      [] s.phase = "permitted" /\ s.scopes[c] = {} -> [phase |-> "refused"]
      [] OTHER ->
            [phase |-> IF s.phase = "reading" THEN "decided" ELSE "permitted",
             useCase |-> s.useCase, asks |-> s.asks, scopes |-> s.scopes[c],
             version |-> s.version[c]]

Policed(c) == INSTANCE PolicedScopes WITH
    Controller <- c,
    policy     <- [k \in {c} \cup UseCases |-> policy[k]],
    oldest     <- [k \in {c} \cup UseCases |-> oldest[k]],
    need       <- [u \in UseCases |-> offer[u][c]],
    grant      <- GrantFor(c),
    call       <- [p \in Calls |-> PermitFor(p, c)]

\* Though a consent is approved and presented for several controllers at once,
\* whose policies are read one after the other and change in between, each of its
\* controllers has its scopes decided by one version of one policy that could be
\* read at that moment, at approval and again in every call.
DecidedPerController ==
    /\ \A c \in Controllers : Policed(c)!Init
    /\ [][\A c \in Controllers : UNCHANGED Policed(c)!vars \/ Policed(c)!Next]_grantVars
=============================================================================
