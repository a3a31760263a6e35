------------------------- MODULE TokenIssuanceProofs -------------------------
(* Theorems of TokenIssuance, for every value of the constants. *)
EXTENDS TokenIssuance, ConsentStatusProofs

\* The inductive invariant: that of ConsentStatus, the types, what the calls
\* in flight rely on, and the four properties.
TokenIInv ==
    /\ IInv
    /\ TokenTypeOK
    /\ IssuanceSound
    /\ RevocationReachesTokens
    /\ NoPermitAfterWithdrawal
    /\ TokensAreLogged
    /\ TokensWithinValidity

-----------------------------------------------------------------------------
(* The status component underneath *)

\* Whatever /validate does, the status component takes one of its own steps
\* or none.
LEMMA StatusView == [TokenNext]_allVars => [Next]_vars
  BY DEF TokenNext, allVars, StatusStep, ValidationStep, BeginById, ReadById,
         BeginLookup, LookupSelect, LookupCheck, Deny, LogPermits, IssueToken,
         Answer, ValidationDies

\* A step appends at most one revocation to a consent, at the present time.
LEMMA RevocationsGrow ==
    ASSUME IInv, [Next]_vars, NEW c \in Consents
    PROVE  \/ revocations'[c] = revocations[c]
           \/ revocations'[c] = Append(revocations[c], clock)
  <1>1. ASSUME NEW p \in Calls, RevokeCommit(p)
        PROVE  \/ revocations'[c] = revocations[c]
               \/ revocations'[c] = Append(revocations[c], clock)
    BY <1>1, CallNamesConsent DEF RevokeCommit, IInv, TypeOK
  <1> QED
    BY <1>1
    DEF Next, vars, Tick, CallStep, SweepStep, RevokeRead, StatusRead,
        StatusCommit, CallDies, SweepStart, SweepSelect, SweepCommit, SweepDies

\* A consent once withdrawn stays so.
LEMMA WithdrawnGrows ==
    ASSUME IInv, [Next]_vars
    PROVE  WithdrawnConsents \subseteq WithdrawnConsents'
  <1> SUFFICES ASSUME NEW c \in Consents, revocations[c] # <<>>
               PROVE  revocations'[c] # <<>>
    BY DEF WithdrawnConsents, Withdrawn
  <1>1. revocations[c] \in Seq(Times) /\ clock \in Times
    BY DEF IInv, TypeOK
  <1> QED
    BY <1>1, RevocationsGrow, AppendProperties

\* A time in the past that no revocation of c is older than keeps that
\* property: a new revocation is dated now.
LEMMA OldTimeStaysOld ==
    ASSUME IInv, [Next]_vars, NEW c \in Consents, NEW n \in Int, n <= clock,
           \A i \in DOMAIN revocations[c] : n <= revocations[c][i]
    PROVE  \A i \in DOMAIN revocations'[c] : n <= revocations'[c][i]
  <1>1. revocations[c] \in Seq(Times) /\ clock \in Times
    BY DEF IInv, TypeOK
  <1>2. CASE revocations'[c] = revocations[c]
    BY <1>2
  <1>3. CASE revocations'[c] = Append(revocations[c], clock)
    <2>1. /\ DOMAIN revocations[c] = 1 .. Len(revocations[c])
          /\ DOMAIN revocations'[c] = 1 .. Len(revocations[c]) + 1
          /\ Len(revocations[c]) \in Nat
      BY <1>1, <1>3, AppendProperties, LenProperties
    <2>2. TAKE i \in DOMAIN revocations'[c]
    <2>3. CASE i \in 1 .. Len(revocations[c])
      BY <1>1, <1>3, <2>1, <2>3, AppendProperties
    <2>4. CASE i = Len(revocations[c]) + 1
      BY <1>1, <1>3, <2>4, AppendProperties
    <2> QED
      BY <2>1, <2>2, <2>3, <2>4
  <1> QED
    BY <1>2, <1>3, RevocationsGrow

-----------------------------------------------------------------------------
(* Type correctness *)

\* What a call in each phase holds.
LEMMA CallFields ==
    ASSUME TokenTypeOK, NEW v \in Validations
    PROVE  LET req == validation[v] IN
           /\ req.phase = "begun" => req \in Arrived /\ req.consent \in Consents
           /\ req.phase = "looking" => req \in Arrived
           /\ req.phase \in {"found", "checked", "logged", "permitted"}
                => req \in Holding
  BY DEF TokenTypeOK, ValidationState, Arrived, Holding

LEMMA TokenTypeInit == TokenInit => TokenTypeOK
  BY DEF TokenInit, TokenTypeOK, ValidationState

\* The token a call may issue is well typed.
LEMMA TokenOfType ==
    ASSUME TypeOK, TokenTypeOK, NEW v \in Validations, NEW k \in Controllers,
           validation[v].phase = "logged"
    PROVE  TokenOf(v, k) \in Token
  <1>1. validation[v] \in Holding
    BY CallFields
  <1>2. /\ validation[v].now \in Times
        /\ validation[v].consent \in Consents
        /\ validation[v].route \in Route
    BY <1>1 DEF Holding
  <1>3. validUntil[validation[v].consent] \in Times
    BY <1>2 DEF TypeOK
  <1>4. Expiry(validation[v].consent, validation[v].now)
          \in 0..(MaxClock + TokenTTL)
    BY <1>2, <1>3, ConstantsAssumption, TokenTTLAssumption
    DEF Expiry, Earlier, Times
  <1> QED
    BY <1>2, <1>4 DEF TokenOf, Token

LEMMA TokenTypeStep ==
    TypeOK /\ TokenTypeOK /\ [TokenNext]_allVars => TokenTypeOK'
  <1> SUFFICES ASSUME TypeOK, TokenTypeOK, [TokenNext]_allVars
               PROVE  TokenTypeOK'
    OBVIOUS
  <1>1. CASE StatusStep \/ UNCHANGED allVars
    BY <1>1 DEF StatusStep, tokenVars, allVars, TokenTypeOK
  <1>2. ASSUME NEW v \in Validations, NEW c \in Consents, BeginById(v, c)
        PROVE  TokenTypeOK'
    BY <1>2 DEF BeginById, TokenTypeOK, ValidationState, Arrived, TypeOK,
                WithdrawnConsents
  <1>3. ASSUME NEW v \in Validations, ReadById(v) PROVE TokenTypeOK'
    <2>1. validation[v] \in Arrived /\ validation[v].consent \in Consents
      BY <1>3, CallFields DEF ReadById
    <2> QED
      BY <1>3, <2>1
      DEF ReadById, TokenTypeOK, ValidationState, Arrived, Holding, Route
  <1>4. ASSUME NEW v \in Validations, BeginLookup(v) PROVE TokenTypeOK'
    BY <1>4 DEF BeginLookup, TokenTypeOK, ValidationState, Arrived, TypeOK,
                WithdrawnConsents
  <1>5. ASSUME NEW v \in Validations, LookupSelect(v) PROVE TokenTypeOK'
    <2>1. validation[v] \in Arrived
      BY <1>5, CallFields DEF LookupSelect
    <2> QED
      BY <1>5, <2>1
      DEF LookupSelect, Matching, TokenTypeOK, ValidationState, Arrived,
          Holding, Route
  <1>6. ASSUME NEW v \in Validations, LookupCheck(v) PROVE TokenTypeOK'
    <2>1. validation[v] \in Holding /\ clock \in Times
      BY <1>6, CallFields DEF LookupCheck, TypeOK
    <2>2. [validation[v] EXCEPT !.phase = "checked", !.now = clock] \in Holding
      BY <2>1 DEF Holding
    <2> QED
      BY <1>6, <2>2 DEF LookupCheck, TokenTypeOK, ValidationState
  <1>7. ASSUME NEW v \in Validations, Deny(v) PROVE TokenTypeOK'
    BY <1>7 DEF Deny, TokenTypeOK, ValidationState, Logged
  <1>8. ASSUME NEW v \in Validations, LogPermits(v) PROVE TokenTypeOK'
    <2>1. validation[v] \in Holding
      BY <1>8, CallFields DEF LogPermits
    <2>2. \A g \in SUBSET Controllers :
            [validation[v] EXCEPT !.phase = "logged", !.granted = g] \in Holding
      BY <2>1 DEF Holding
    <2>3. PICK g \in SUBSET Controllers :
            /\ decisionLog' = decisionLog \cup
                 {[call |-> v, decision |-> "permit", controller |-> k] : k \in g}
            /\ validation' = [validation EXCEPT ![v].phase = "logged",
                                               ![v].granted = g]
      BY <1>8 DEF LogPermits
    <2>4. decisionLog' \subseteq Logged
      BY <2>3 DEF TokenTypeOK, Logged
    <2>5. validation' \in [Validations -> ValidationState]
      BY <2>2, <2>3 DEF TokenTypeOK, ValidationState
    <2> QED
      BY <1>8, <2>4, <2>5 DEF LogPermits, TokenTypeOK
  <1>9. ASSUME NEW v \in Validations, NEW k \in Controllers, IssueToken(v, k)
        PROVE  TokenTypeOK'
    <2>1. validation[v] \in Holding
      BY <1>9, CallFields DEF IssueToken
    <2>2. [validation[v] EXCEPT !.granted = @ \ {k}] \in Holding
      BY <2>1 DEF Holding
    <2>3. TokenOf(v, k) \in Token
      BY <1>9, TokenOfType DEF IssueToken
    <2> QED
      BY <1>9, <2>2, <2>3 DEF IssueToken, TokenTypeOK, ValidationState
  <1>10. ASSUME NEW v \in Validations, Answer(v) PROVE TokenTypeOK'
    <2>1. validation[v] \in Holding
      BY <1>10, CallFields DEF Answer
    <2>2. [validation[v] EXCEPT !.phase = "permitted"] \in Holding
      BY <2>1 DEF Holding
    <2> QED
      BY <1>10, <2>2 DEF Answer, TokenTypeOK, ValidationState
  <1>11. ASSUME NEW v \in Validations, ValidationDies(v) PROVE TokenTypeOK'
    BY <1>11 DEF ValidationDies, TokenTypeOK, ValidationState
  <1> QED
    BY <1>1, <1>2, <1>3, <1>4, <1>5, <1>6, <1>7, <1>8, <1>9, <1>10, <1>11
    DEF TokenNext, ValidationStep

\* The calls' local state, the decision log and the token table keep their
\* types in every behaviour.
THEOREM TokenTypeCorrect == TokenSpec => []TokenTypeOK
  <1>1. TypeOK /\ [TokenNext]_allVars => TypeOK'
    BY StatusView, TypeStep
  <1>2. TokenInit => TypeOK /\ TokenTypeOK
    BY TokenTypeInit, TypeInit DEF TokenInit
  <1> QED
    BY <1>1, <1>2, TokenTypeStep, PTL DEF TokenSpec

-----------------------------------------------------------------------------
(* Safety: what a step leaves alone *)

\* The revocations of a consent, the validity columns and the clock, as any
\* step of the whole system treats them.
LEMMA Background ==
    ASSUME TokenIInv, [TokenNext]_allVars
    PROVE  /\ IInv' /\ TokenTypeOK'
           /\ clock <= clock'
           /\ validUntil' = validUntil
           /\ validFrom' = validFrom
           /\ decisionLog \subseteq decisionLog'
           /\ WithdrawnConsents \subseteq WithdrawnConsents'
  <1>1. IInv /\ [Next]_vars
    BY StatusView DEF TokenIInv
  <1>2. IInv' /\ clock <= clock' /\ WithdrawnConsents \subseteq WithdrawnConsents'
    BY <1>1, IInvStep, ClockOnlyGrows, WithdrawnGrows DEF IInv
  <1>3. validUntil' = validUntil
    BY <1>1
    DEF Next, vars, Tick, CallStep, SweepStep, RevokeRead, RevokeCommit,
        StatusRead, StatusCommit, CallDies, SweepStart, SweepSelect,
        SweepCommit, SweepDies
  <1>4. validFrom' = validFrom /\ decisionLog \subseteq decisionLog'
    BY DEF TokenNext, allVars, tokenVars, StatusStep, ValidationStep,
           BeginById, ReadById, BeginLookup, LookupSelect, LookupCheck, Deny,
           LogPermits, IssueToken, Answer, ValidationDies
  <1>5. TokenTypeOK'
    BY <1>1, TokenTypeStep DEF TokenIInv, IInv
  <1> QED
    BY <1>2, <1>3, <1>4, <1>5

\* What a call relies on survives every step the call does not take.
LEMMA CallStays ==
    ASSUME TokenIInv, [TokenNext]_allVars, NEW v \in Validations,
           validation'[v] = validation[v]
    PROVE  CallSound(v)'
  <1> DEFINE req == validation[v]
             c   == req.consent
  <1>1. CallSound(v) /\ clock \in Times /\ clock' \in Times
    BY Background DEF TokenIInv, IssuanceSound, IInv, TypeOK
  <1>2. req.phase \in {"begun", "looking", "found", "checked", "logged"}
          => req.now \in Times
    BY CallFields DEF TokenIInv, Arrived, Holding
  <1>3. req.phase \in {"begun", "looking", "found", "checked", "logged"}
          => req.now <= clock'
    BY <1>1, <1>2, Background, ConstantsAssumption DEF CallSound, Times
  <1>4. req.phase \in {"begun", "looking"}
          => req.withdrawnBefore \subseteq WithdrawnConsents'
    BY <1>1, Background DEF CallSound
  <1>5. req.phase \in {"checked", "logged"} /\ req.route = "by_id" =>
          \A i \in DOMAIN revocations'[c] : req.now <= revocations'[c][i]
    <2> SUFFICES ASSUME req.phase \in {"checked", "logged"},
                        req.route = "by_id"
                 PROVE  \A i \in DOMAIN revocations'[c] :
                            req.now <= revocations'[c][i]
      OBVIOUS
    <2>1. c \in Consents
      BY CallFields DEF TokenIInv, Holding
    <2>2. req.now \in Int /\ req.now <= clock
      BY <1>1, <1>2, ConstantsAssumption DEF CallSound, Times
    <2>3. \A i \in DOMAIN revocations[c] : req.now <= revocations[c][i]
      BY <1>1 DEF CallSound
    <2> QED
      BY <2>1, <2>2, <2>3, OldTimeStaysOld, StatusView DEF TokenIInv
  <1> QED
    BY <1>1, <1>3, <1>4, <1>5, Background DEF CallSound

\* So do the promises about a token already issued.
LEMMA TokenStays ==
    ASSUME TokenIInv, [TokenNext]_allVars, NEW t \in tokens
    PROVE  TokenSound(t)' /\ (t.route = "by_id" => ReachesToken(t)')
  <1>1. /\ t.iat \in Times /\ t.exp \in 0..(MaxClock + TokenTTL)
        /\ t.consent \in Consents
    BY DEF TokenIInv, TokenTypeOK, Token
  <1>2. clock \in Times /\ clock' \in Times /\ clock <= clock'
    BY Background DEF TokenIInv, IInv, TypeOK
  <1>3. TokenSound(t)
    BY DEF TokenIInv, IssuanceSound
  <1>4. TokenSound(t)'
    BY <1>1, <1>2, <1>3, ConstantsAssumption, TokenTTLAssumption
    DEF TokenSound, Times
  <1>5. ASSUME t.route = "by_id" PROVE ReachesToken(t)'
    <2> DEFINE n == t.exp - TokenTTL
               c == t.consent
    <2>1. n \in Int /\ n <= clock
      BY <1>1, <1>2, <1>3, ConstantsAssumption, TokenTTLAssumption
      DEF TokenSound, Times
    <2>2. revocations[c] \in Seq(Times) /\ revocations'[c] \in Seq(Times)
      BY <1>1, Background DEF TokenIInv, IInv, TypeOK
    <2>3. \A i \in DOMAIN revocations[c] : n <= revocations[c][i]
      <3> TAKE i \in DOMAIN revocations[c]
      <3>1. t.exp <= revocations[c][i] + TokenTTL
        BY <1>5 DEF TokenIInv, RevocationReachesTokens, ReachesToken
      <3>2. revocations[c][i] \in Times
        BY <2>2
      <3> QED
        BY <1>1, <3>1, <3>2, ConstantsAssumption, TokenTTLAssumption DEF Times
    <2>4. \A i \in DOMAIN revocations'[c] : n <= revocations'[c][i]
      <3> HIDE DEF n
      <3> QED
        BY <1>1, <2>1, <2>3, OldTimeStaysOld, StatusView DEF TokenIInv
    <2>5. \A i \in DOMAIN revocations'[c] : revocations'[c][i] \in Times
      BY <2>2
    <2>6. \A i \in DOMAIN revocations'[c] :
            t.exp <= revocations'[c][i] + TokenTTL
      BY <1>1, <2>4, <2>5, ConstantsAssumption, TokenTTLAssumption DEF Times
    <2> QED
      BY <2>6 DEF ReachesToken
  <1> QED
    BY <1>4, <1>5

-----------------------------------------------------------------------------
(* Safety: what the steps of one call establish *)

\* NoPermitAfterWithdrawal, of one call.
PermitInTime(v) ==
    validation[v].phase \in {"logged", "permitted"}
        => validation[v].consent \notin validation[v].withdrawnBefore

\* A step that issues no token and touches at most call v keeps the invariant
\* if it leaves v sound.
LEMMA OneCallSteps ==
    ASSUME TokenIInv, [TokenNext]_allVars, NEW v \in Validations,
           \A u \in Validations \ {v} : validation'[u] = validation[u],
           tokens' = tokens,
           CallSound(v)', PermitInTime(v)'
    PROVE  TokenIInv'
  <1>1. IInv' /\ TokenTypeOK'
    BY Background
  <1>2. IssuanceSound'
    BY CallStays, TokenStays DEF IssuanceSound
  <1>3. RevocationReachesTokens'
    BY TokenStays DEF RevocationReachesTokens
  <1>4. NoPermitAfterWithdrawal'
    BY DEF TokenIInv, NoPermitAfterWithdrawal, PermitInTime
  <1>5. TokensAreLogged'
    BY Background DEF TokenIInv, TokensAreLogged
  <1>6. TokensWithinValidity'
    BY Background DEF TokenIInv, TokensWithinValidity
  <1> QED
    BY <1>1, <1>2, <1>3, <1>4, <1>5, <1>6 DEF TokenIInv

\* A step that touches no call and issues no token.
LEMMA NoCallSteps ==
    ASSUME TokenIInv, [TokenNext]_allVars, UNCHANGED <<validation, tokens>>
    PROVE  TokenIInv'
  <1>1. IInv' /\ TokenTypeOK'
    BY Background
  <1>2. IssuanceSound'
    BY CallStays, TokenStays DEF IssuanceSound
  <1>3. RevocationReachesTokens'
    BY TokenStays DEF RevocationReachesTokens
  <1>4. NoPermitAfterWithdrawal'
    BY DEF TokenIInv, NoPermitAfterWithdrawal
  <1>5. TokensAreLogged'
    BY Background DEF TokenIInv, TokensAreLogged
  <1>6. TokensWithinValidity'
    BY Background DEF TokenIInv, TokensWithinValidity
  <1> QED
    BY <1>1, <1>2, <1>3, <1>4, <1>5, <1>6 DEF TokenIInv

\* The heart of the argument: a consent that reads active has no revocation,
\* so none is older than the time the call took before it read.
LEMMA ReadByIdKeeps ==
    ASSUME TokenIInv, NEW v \in Validations, ReadById(v)
    PROVE  CallSound(v)' /\ PermitInTime(v)'
  <1> DEFINE req == validation[v]
             c   == req.consent
  <1>1. req \in Arrived /\ c \in Consents /\ req.now \in Times
    BY CallFields DEF ReadById, TokenIInv, Arrived
  <1>2. revocations[c] = <<>> /\ c \notin WithdrawnConsents
    BY <1>1
    DEF ReadById, UsableAt, TokenIInv, IInv, WithdrawnIsUnusable, Withdrawn,
        WithdrawnConsents
  <1>3. DOMAIN revocations[c] = {}
    BY <1>2
  <1>4. req.now <= clock /\ c \notin req.withdrawnBefore
    BY <1>2 DEF ReadById, TokenIInv, IssuanceSound, CallSound
  <1>5. validFrom[c] <= req.now /\ req.now <= validUntil[c]
    BY <1>1, ConstantsAssumption
    DEF ReadById, UsableAt, Lapsed, TokenIInv, IInv, TypeOK, TokenTypeOK,
        Times
  <1>6. validation'[v] = [phase |-> "checked", now |-> req.now,
                          consent |-> c, route |-> "by_id", granted |-> {},
                          withdrawnBefore |-> req.withdrawnBefore]
    BY DEF ReadById, TokenIInv, TokenTypeOK
  <1> QED
    BY <1>3, <1>4, <1>5, <1>6
    DEF ReadById, vars, CallSound, PermitInTime

LEMMA LookupKeeps ==
    ASSUME TokenIInv, NEW v \in Validations, LookupSelect(v)
    PROVE  CallSound(v)' /\ PermitInTime(v)'
  <1> DEFINE req == validation[v]
  <1>1. PICK c \in Matching(req.now) :
            validation' = [validation EXCEPT ![v] =
                [phase |-> "found", now |-> @.now, consent |-> c,
                 route |-> "lookup", granted |-> {},
                 withdrawnBefore |-> @.withdrawnBefore]]
    BY DEF LookupSelect
  <1>2. c \in Consents /\ c \notin WithdrawnConsents /\ validFrom[c] <= req.now
    BY DEF Matching, TokenIInv, IInv, WithdrawnIsUnusable, WithdrawnConsents
  <1>3. req.now <= clock /\ c \notin req.withdrawnBefore
    BY <1>2 DEF LookupSelect, TokenIInv, IssuanceSound, CallSound
  <1>4. validation'[v] = [phase |-> "found", now |-> req.now, consent |-> c,
                          route |-> "lookup", granted |-> {},
                          withdrawnBefore |-> req.withdrawnBefore]
    BY <1>1 DEF TokenIInv, TokenTypeOK
  <1> QED
    BY <1>2, <1>3, <1>4 DEF LookupSelect, vars, CallSound, PermitInTime

LEMMA LookupCheckKeeps ==
    ASSUME TokenIInv, NEW v \in Validations, LookupCheck(v)
    PROVE  CallSound(v)' /\ PermitInTime(v)'
  <1> DEFINE req == validation[v]
  <1>1. req \in Holding
    BY CallFields DEF LookupCheck, TokenIInv
  <1>2. /\ req.consent \in Consents
        /\ req.now \in Times
        /\ clock \in Times
        /\ validFrom[req.consent] \in Times
        /\ validUntil[req.consent] \in Times
    BY <1>1 DEF Holding, TokenIInv, IInv, TypeOK, TokenTypeOK
  <1>3. /\ req.now <= clock
        /\ validFrom[req.consent] <= req.now
        /\ req.consent \notin req.withdrawnBefore
        /\ req.route = "lookup"
        /\ ~(validUntil[req.consent] < clock)
    BY DEF LookupCheck, Lapsed, TokenIInv, IssuanceSound, CallSound
  <1>4. validFrom[req.consent] <= clock /\ clock <= validUntil[req.consent]
    BY <1>2, <1>3, ConstantsAssumption DEF Times
  <1>5. /\ validation'[v] = [req EXCEPT !.phase = "checked", !.now = clock]
        /\ clock <= clock
    BY <1>2, ConstantsAssumption DEF LookupCheck, TokenIInv, TokenTypeOK, Times
  <1>6. /\ validation'[v].phase = "checked"
        /\ validation'[v].now = clock
        /\ validation'[v].consent = req.consent
        /\ validation'[v].route = "lookup"
        /\ validation'[v].withdrawnBefore = req.withdrawnBefore
    BY <1>1, <1>3, <1>5 DEF Holding
  <1> QED
    BY <1>3, <1>4, <1>5, <1>6 DEF LookupCheck, vars, CallSound, PermitInTime

LEMMA LogPermitsKeeps ==
    ASSUME TokenIInv, NEW v \in Validations, LogPermits(v)
    PROVE  CallSound(v)' /\ PermitInTime(v)'
  <1> DEFINE req == validation[v]
  <1>1. req \in Holding /\ CallSound(v)
    BY CallFields DEF LogPermits, TokenIInv, IssuanceSound
  <1>2. PICK g \in SUBSET Controllers :
            /\ decisionLog' = decisionLog \cup
                 {[call |-> v, decision |-> "permit", controller |-> k] : k \in g}
            /\ validation' = [validation EXCEPT ![v].phase = "logged",
                                               ![v].granted = g]
    BY DEF LogPermits
  <1>3. validation'[v] = [req EXCEPT !.phase = "logged", !.granted = g]
    BY <1>2 DEF TokenIInv, TokenTypeOK
  <1>4. /\ validation'[v].phase = "logged"
        /\ validation'[v].now = req.now
        /\ validation'[v].consent = req.consent
        /\ validation'[v].route = req.route
        /\ validation'[v].granted = g
        /\ validation'[v].withdrawnBefore = req.withdrawnBefore
    BY <1>1, <1>3 DEF Holding
  <1> QED
    BY <1>1, <1>2, <1>4 DEF LogPermits, vars, CallSound, PermitInTime

\* A token is issued with a time no revocation is older than, and only for a
\* controller whose permit is in the log.
LEMMA IssueTokenKeeps ==
    ASSUME TokenIInv, [TokenNext]_allVars, NEW v \in Validations,
           NEW k \in Controllers, IssueToken(v, k)
    PROVE  TokenIInv'
  <1> DEFINE req == validation[v]
             c   == req.consent
  <1>1. req \in Holding /\ CallSound(v) /\ PermitInTime(v)
    BY CallFields
    DEF IssueToken, TokenIInv, IssuanceSound, NoPermitAfterWithdrawal,
        PermitInTime
  <1>2. /\ req.now \in Times /\ c \in Consents /\ clock \in Times
        /\ validUntil[c] \in Times
        /\ validFrom[c] \in Times
        /\ revocations[c] \in Seq(Times)
    BY <1>1 DEF Holding, TokenIInv, IInv, TypeOK, TokenTypeOK
  <1>17. PICK t \in Token : t = TokenOf(v, k)
    BY TokenOfType DEF IssueToken, TokenIInv, IInv
  <1>3. /\ t.call = v /\ t.controller = k /\ t.consent = c
        /\ t.route = req.route /\ t.iat = req.now
        /\ t.exp = Expiry(c, req.now)
    BY <1>17 DEF TokenOf
  <1>4. /\ req.now <= clock
        /\ validFrom[c] <= req.now
        /\ req.now <= validUntil[c]
    BY <1>1 DEF IssueToken, CallSound
  <1>5. /\ t.exp \in Int
        /\ t.exp <= t.iat + TokenTTL
        /\ t.iat <= t.exp
        /\ t.exp <= validUntil[c]
    BY <1>2, <1>3, <1>4, ConstantsAssumption, TokenTTLAssumption
    DEF Expiry, Earlier, Times
  <1>6. UNCHANGED vars /\ UNCHANGED <<validFrom, decisionLog>>
        /\ tokens' = tokens \cup {t}
    BY <1>17 DEF IssueToken
  <1>7. TokenSound(t)'
    BY <1>3, <1>4, <1>5, <1>6 DEF TokenSound, vars
  <1>8. t.route = "by_id" => ReachesToken(t)'
    <2> SUFFICES ASSUME req.route = "by_id",
                        NEW i \in DOMAIN revocations[c]
                 PROVE  t.exp <= revocations[c][i] + TokenTTL
      BY <1>3, <1>6 DEF ReachesToken, vars
    <2>1. req.now <= revocations[c][i] /\ revocations[c][i] \in Times
      BY <1>1, <1>2 DEF IssueToken, CallSound
    <2>2. /\ req.now \in Int /\ revocations[c][i] \in Int
          /\ TokenTTL \in Int /\ t.exp \in Int
      BY <1>2, <1>5, <2>1, ConstantsAssumption, TokenTTLAssumption DEF Times
    <2>3. t.exp <= req.now + TokenTTL
      BY <1>3, <1>5
    <2> QED
      BY <2>1, <2>2, <2>3
  <1>9. CallSound(v)' /\ PermitInTime(v)'
    <2>1. validation'[v] = [req EXCEPT !.granted = req.granted \ {k}]
      BY DEF IssueToken, TokenIInv, TokenTypeOK
    <2>2. /\ validation'[v].phase = "logged"
          /\ validation'[v].now = req.now
          /\ validation'[v].consent = c
          /\ validation'[v].route = req.route
          /\ validation'[v].granted \subseteq req.granted
          /\ validation'[v].withdrawnBefore = req.withdrawnBefore
      BY <1>1, <2>1 DEF Holding, IssueToken
    <2> QED
      BY <1>1, <1>6, <2>2 DEF IssueToken, vars, CallSound, PermitInTime
  <1>10. [call |-> v, decision |-> "permit", controller |-> k] \in decisionLog
    BY <1>1 DEF IssueToken, CallSound
  <1>11. \A u \in Validations \ {v} : validation'[u] = validation[u]
    BY DEF IssueToken, TokenIInv, TokenTypeOK
  <1>12. IssuanceSound'
    BY <1>6, <1>7, <1>9, <1>11, CallStays, TokenStays DEF IssuanceSound
  <1>13. RevocationReachesTokens'
    BY <1>6, <1>8, TokenStays DEF RevocationReachesTokens
  <1>14. NoPermitAfterWithdrawal'
    BY <1>9, <1>11 DEF TokenIInv, NoPermitAfterWithdrawal, PermitInTime
  <1>15. TokensAreLogged'
    BY <1>3, <1>6, <1>10 DEF TokenIInv, TokensAreLogged
  <1>16. TokensWithinValidity'
    BY <1>3, <1>4, <1>5, <1>6 DEF TokenIInv, TokensWithinValidity, vars
  <1> QED
    BY <1>12, <1>13, <1>14, <1>15, <1>16, Background DEF TokenIInv

-----------------------------------------------------------------------------
(* Safety: the inductive step and the theorems *)

LEMMA TokenIInvInit == TokenInit => TokenIInv
  <1> SUFFICES ASSUME TokenInit PROVE TokenIInv
    OBVIOUS
  <1>1. IInv /\ TokenTypeOK
    BY IInvInit, TokenTypeInit DEF TokenInit
  <1>2. \A v \in Validations : validation[v].phase = "new"
    BY DEF TokenInit
  <1> QED
    BY <1>1, <1>2
    DEF TokenInit, TokenIInv, IssuanceSound, CallSound,
        RevocationReachesTokens, NoPermitAfterWithdrawal, TokensAreLogged,
        TokensWithinValidity

LEMMA TokenIInvStep == TokenIInv /\ [TokenNext]_allVars => TokenIInv'
  <1> SUFFICES ASSUME TokenIInv, [TokenNext]_allVars PROVE TokenIInv'
    OBVIOUS
  <1>1. CASE StatusStep \/ UNCHANGED allVars
    BY <1>1, NoCallSteps DEF StatusStep, allVars, tokenVars
  <1>2. ASSUME NEW v \in Validations,
               ValidationStep(v), \A k \in Controllers : ~IssueToken(v, k)
        PROVE  TokenIInv'
    <2>1. tokens' = tokens
      BY <1>2
      DEF ValidationStep, BeginById, ReadById, BeginLookup, LookupSelect,
          LookupCheck, Deny, LogPermits, Answer, ValidationDies
    <2>2. \A u \in Validations \ {v} : validation'[u] = validation[u]
      BY <1>2
      DEF ValidationStep, BeginById, ReadById, BeginLookup, LookupSelect,
          LookupCheck, Deny, LogPermits, Answer, ValidationDies, TokenIInv,
          TokenTypeOK
    <2>3. CallSound(v)' /\ PermitInTime(v)'
      <3>1. ASSUME NEW c \in Consents, BeginById(v, c)
            PROVE  CallSound(v)' /\ PermitInTime(v)'
        <4>1. validation'[v] = [phase |-> "begun", now |-> clock,
                                consent |-> c,
                                withdrawnBefore |-> WithdrawnConsents]
          BY <3>1 DEF BeginById, TokenIInv, TokenTypeOK
        <4>2. clock <= clock /\ WithdrawnConsents' = WithdrawnConsents
                /\ clock' = clock
          BY <3>1, ConstantsAssumption
          DEF BeginById, vars, WithdrawnConsents, Withdrawn, TokenIInv, IInv,
              TypeOK, Times
        <4> QED
          BY <4>1, <4>2 DEF CallSound, PermitInTime
      <3>2. CASE BeginLookup(v)
        <4>1. validation'[v] = [phase |-> "looking", now |-> clock,
                                withdrawnBefore |-> WithdrawnConsents]
          BY <3>2 DEF BeginLookup, TokenIInv, TokenTypeOK
        <4>2. clock <= clock /\ WithdrawnConsents' = WithdrawnConsents
                /\ clock' = clock
          BY <3>2, ConstantsAssumption
          DEF BeginLookup, vars, WithdrawnConsents, Withdrawn, TokenIInv, IInv,
              TypeOK, Times
        <4> QED
          BY <4>1, <4>2 DEF CallSound, PermitInTime
      <3>3. CASE Deny(v) \/ ValidationDies(v)
        <4>1. validation'[v].phase \in {"denied", "dead"}
          BY <3>3 DEF Deny, ValidationDies, TokenIInv, TokenTypeOK
        <4> QED
          BY <4>1 DEF CallSound, PermitInTime
      <3>4. CASE Answer(v)
        <4>1. validation[v] \in Holding /\ PermitInTime(v)
          BY <3>4, CallFields
          DEF Answer, TokenIInv, NoPermitAfterWithdrawal, PermitInTime
        <4>2. validation'[v] = [validation[v] EXCEPT !.phase = "permitted"]
          BY <3>4 DEF Answer, TokenIInv, TokenTypeOK
        <4> QED
          BY <3>4, <4>1, <4>2 DEF Answer, Holding, CallSound, PermitInTime
      <3> QED
        BY <1>2, <3>1, <3>2, <3>3, <3>4, ReadByIdKeeps, LookupKeeps,
           LookupCheckKeeps, LogPermitsKeeps
        DEF ValidationStep
    <2> QED
      BY <2>1, <2>2, <2>3, OneCallSteps
  <1>3. ASSUME NEW v \in Validations, NEW k \in Controllers, IssueToken(v, k)
        PROVE  TokenIInv'
    BY <1>3, IssueTokenKeeps
  <1> QED
    BY <1>1, <1>2, <1>3 DEF TokenNext

LEMMA TokenIInvHolds == TokenSpec => []TokenIInv
  BY TokenIInvInit, TokenIInvStep, PTL DEF TokenSpec

\* A token asked for by consent_id never outlives a revocation of its consent
\* by more than the token lifetime, whatever interleaves with the call.
THEOREM RevocationReaches == TokenSpec => []RevocationReachesTokens
  <1>1. TokenIInv => RevocationReachesTokens
    BY DEF TokenIInv
  <1> QED
    BY <1>1, TokenIInvHolds, PTL

\* A call that arrives after a revocation was committed is not permitted, by
\* consent_id or by lookup.
THEOREM WithdrawalRefuses == TokenSpec => []NoPermitAfterWithdrawal
  <1>1. TokenIInv => NoPermitAfterWithdrawal
    BY DEF TokenIInv
  <1> QED
    BY <1>1, TokenIInvHolds, PTL

\* No token exists without its permit in the decision log, pods dying or not.
THEOREM TokensAccountedFor == TokenSpec => []TokensAreLogged
  <1>1. TokenIInv => TokensAreLogged
    BY DEF TokenIInv
  <1> QED
    BY <1>1, TokenIInvHolds, PTL

\* A token's dates lie within the validity of its consent.
THEOREM TokensStayWithinValidity == TokenSpec => []TokensWithinValidity
  <1>1. TokenIInv => TokensWithinValidity
    BY DEF TokenIInv
  <1> QED
    BY <1>1, TokenIInvHolds, PTL

\* Beside /validate, the handlers of the status column still behave as they do
\* alone: every behaviour of this module is one of ConsentStatus.
THEOREM StatusRunsBeneath == TokenSpec => Spec
  <1>1. TokenInit => Init
    BY DEF TokenInit
  <1> QED
    BY <1>1, StatusView, PTL DEF TokenSpec, Spec

\* So the promise about a consent's standing is kept beside /validate, too.
THEOREM StandingKeptBeneath == TokenSpec => StandingRefined
  BY StatusRunsBeneath, Refinement, PTL

-----------------------------------------------------------------------------
(* Refinement: the calls implement the promise of ConsentAnswers. *)

\* Tokens exist only of calls whose permits are logged, or that died after.
TokensOfPermitted ==
    \A t \in tokens : validation[t.call].phase \in {"logged", "permitted", "dead"}

LEMMA TokensOfPermittedStep ==
    ASSUME TokenTypeOK, TokensOfPermitted, [TokenNext]_allVars
    PROVE  TokensOfPermitted'
  <1>1. CASE StatusStep \/ UNCHANGED allVars
    BY <1>1 DEF StatusStep, tokenVars, allVars, TokensOfPermitted
  <1>2. ASSUME NEW v \in Validations, NEW k \in Controllers, IssueToken(v, k)
        PROVE  TokensOfPermitted'
    <2>1. validation[v] \in Holding
      BY <1>2, CallFields DEF IssueToken
    <2>2. validation'[v].phase = "logged"
      BY <1>2, <2>1 DEF IssueToken, TokenTypeOK, Holding
    <2>3. \A u \in Validations \ {v} : validation'[u] = validation[u]
      BY <1>2 DEF IssueToken, TokenTypeOK
    <2>4. \A t \in tokens : t.call \in Validations
      BY DEF TokenTypeOK, Token
    <2>5. TokenOf(v, k).call = v /\ tokens' = tokens \cup {TokenOf(v, k)}
      BY <1>2 DEF IssueToken, TokenOf
    <2> QED
      BY <2>2, <2>3, <2>4, <2>5 DEF TokensOfPermitted
  <1>3. ASSUME NEW v \in Validations, ValidationStep(v),
               \A k \in Controllers : ~IssueToken(v, k)
        PROVE  TokensOfPermitted'
    <2>1. /\ tokens' = tokens
          /\ \A u \in Validations \ {v} : validation'[u] = validation[u]
      BY <1>3
      DEF ValidationStep, BeginById, ReadById, BeginLookup, LookupSelect,
          LookupCheck, Deny, LogPermits, Answer, ValidationDies, TokenTypeOK
    <2>2. \A t \in tokens : t.call \in Validations
      BY DEF TokenTypeOK, Token
    <2>3. CASE Answer(v)
      <3>1. validation[v] \in Holding
        BY <2>3, CallFields DEF Answer
      <3>2. validation'[v].phase = "permitted"
        BY <2>3, <3>1 DEF Answer, TokenTypeOK, Holding
      <3> QED
        BY <2>1, <2>2, <3>2 DEF TokensOfPermitted
    <2>4. CASE ValidationDies(v)
      <3>1. validation'[v].phase = "dead"
        BY <2>4 DEF ValidationDies, TokenTypeOK
      <3> QED
        BY <2>1, <2>2, <3>1 DEF TokensOfPermitted
    <2>5. CASE validation[v].phase
                 \in {"new", "begun", "looking", "found", "checked"}
      BY <2>1, <2>2, <2>5 DEF TokensOfPermitted
    <2> QED
      BY <1>3, <2>3, <2>4, <2>5
      DEF ValidationStep, BeginById, ReadById, BeginLookup, LookupSelect,
          LookupCheck, Deny, Refused, LogPermits
  <1> QED
    BY <1>1, <1>2, <1>3 DEF TokenNext

\* A step of call v alone moves its abstract state alone.
LEMMA CallMoves ==
    ASSUME NEW v \in Validations, NEW state, AnsweredAs(v)' = state,
           \A u \in Validations \ {v} : validation'[u] = validation[u]
    PROVE  Promise!Moves(v, state)
  <1>1. \A u \in Validations \ {v} : AnsweredAs(u)' = AnsweredAs(u)
    BY DEF AnsweredAs
  <1> QED
    BY <1>1 DEF Promise!Moves, Asking

\* What the caller sees of the system when the status component rests.
LEMMA QuietView ==
    ASSUME UNCHANGED vars
    PROVE  UNCHANGED Promise!vars
  BY QuietStanding DEF vars, Promise!vars

\* An active consent stands: a withdrawn one never reads active.
LEMMA ActiveStands ==
    ASSUME IInv, NEW c \in Consents, status[c] = "active"
    PROVE  Standing[c] = "given"
  BY StandingValue DEF IInv, WithdrawnIsUnusable

LEMMA AskedById ==
    ASSUME TokenIInv, NEW v \in Validations, NEW c \in Consents, BeginById(v, c)
    PROVE  Promise!Ask(v, "by_id") /\ UNCHANGED Promise!vars
  <1>1. validation'[v] = [phase |-> "begun", now |-> clock, consent |-> c,
                          withdrawnBefore |-> WithdrawnConsents]
    BY DEF BeginById, TokenIInv, TokenTypeOK
  <1>2. AnsweredAs(v)' = [phase |-> "asked", route |-> "by_id", date |-> clock]
    BY <1>1 DEF AnsweredAs
  <1>3. Asking[v] = [phase |-> "new"]
    BY DEF BeginById, Asking, AnsweredAs
  <1>4. \A u \in Validations \ {v} : validation'[u] = validation[u]
    BY DEF BeginById, TokenIInv, TokenTypeOK
  <1> QED
    BY <1>2, <1>3, <1>4, CallMoves, QuietView
    DEF BeginById, Promise!Ask, Promise!vars, Issued

LEMMA AskedByLookup ==
    ASSUME TokenIInv, NEW v \in Validations, BeginLookup(v)
    PROVE  Promise!Ask(v, "lookup") /\ UNCHANGED Promise!vars
  <1>1. validation'[v] = [phase |-> "looking", now |-> clock,
                          withdrawnBefore |-> WithdrawnConsents]
    BY DEF BeginLookup, TokenIInv, TokenTypeOK
  <1>2. AnsweredAs(v)' = [phase |-> "asked", route |-> "lookup", date |-> clock]
    BY <1>1 DEF AnsweredAs
  <1>3. Asking[v] = [phase |-> "new"]
    BY DEF BeginLookup, Asking, AnsweredAs
  <1>4. \A u \in Validations \ {v} : validation'[u] = validation[u]
    BY DEF BeginLookup, TokenIInv, TokenTypeOK
  <1> QED
    BY <1>2, <1>3, <1>4, CallMoves, QuietView
    DEF BeginLookup, Promise!Ask, Promise!vars, Issued

\* The artefact is read at a moment at which the consent stands.
LEMMA PermittedById ==
    ASSUME TokenIInv, NEW v \in Validations, ReadById(v)
    PROVE  Promise!Permit(v, validation[v].consent) /\ UNCHANGED Promise!vars
           /\ validation[v].consent \in Consents
  <1> DEFINE req == validation[v]
             c   == req.consent
  <1>1. req \in Arrived /\ c \in Consents /\ req.now \in Times
    BY CallFields DEF ReadById, TokenIInv, Arrived
  <1>2. Standing[c] = "given"
    BY <1>1, ActiveStands DEF ReadById, UsableAt, TokenIInv
  <1>3. req.now <= validUntil[c]
    BY <1>1, ConstantsAssumption
    DEF ReadById, UsableAt, Lapsed, TokenIInv, IInv, TypeOK, Times
  <1>4. Asking[v] = [phase |-> "asked", route |-> "by_id", date |-> req.now]
    BY DEF ReadById, Asking, AnsweredAs
  <1>5. validation'[v] = [phase |-> "checked", now |-> req.now,
                          consent |-> c, route |-> "by_id", granted |-> {},
                          withdrawnBefore |-> req.withdrawnBefore]
    BY DEF ReadById, TokenIInv, TokenTypeOK
  <1>6. AnsweredAs(v)' = [phase |-> "permitted", route |-> "by_id",
                          date |-> req.now, of |-> c]
    BY <1>5 DEF AnsweredAs
  <1>7. AnsweredAs(v)' = Promise!Permitted(v, c, Asking[v].date)
    BY <1>4, <1>6 DEF Promise!Permitted
  <1>8. \A u \in Validations \ {v} : validation'[u] = validation[u]
    BY DEF ReadById, TokenIInv, TokenTypeOK
  <1> QED
    BY <1>1, <1>2, <1>3, <1>4, <1>7, <1>8, CallMoves, QuietView
    DEF ReadById, Promise!Permit, Promise!vars, Issued

LEMMA PermittedByLookup ==
    ASSUME TokenIInv, NEW v \in Validations, LookupSelect(v)
    PROVE  /\ \E c \in Consents : Promise!Permit(v, c)
           /\ UNCHANGED Promise!vars
  <1> DEFINE req == validation[v]
  <1>1. req.now \in Times
    BY CallFields DEF LookupSelect, TokenIInv, Arrived
  <1>2. PICK c \in Matching(req.now) :
            validation' = [validation EXCEPT ![v] =
                [phase |-> "found", now |-> @.now, consent |-> c,
                 route |-> "lookup", granted |-> {},
                 withdrawnBefore |-> @.withdrawnBefore]]
    BY DEF LookupSelect
  <1>3. c \in Consents /\ Standing[c] = "given"
    BY ActiveStands DEF Matching, TokenIInv
  <1>4. req.now <= validUntil[c]
    BY <1>1, <1>3, ConstantsAssumption DEF Matching, TokenIInv, IInv, TypeOK, Times
  <1>5. Asking[v] = [phase |-> "asked", route |-> "lookup", date |-> req.now]
    BY DEF LookupSelect, Asking, AnsweredAs
  <1>6. validation'[v] = [phase |-> "found", now |-> req.now, consent |-> c,
                          route |-> "lookup", granted |-> {},
                          withdrawnBefore |-> req.withdrawnBefore]
    BY <1>2 DEF TokenIInv, TokenTypeOK
  <1>7. AnsweredAs(v)' = [phase |-> "permitted", route |-> "lookup",
                          date |-> req.now, of |-> c]
    BY <1>6 DEF AnsweredAs
  <1>8. AnsweredAs(v)' = Promise!Permitted(v, c, Asking[v].date)
    BY <1>5, <1>7 DEF Promise!Permitted
  <1>9. \A u \in Validations \ {v} : validation'[u] = validation[u]
    BY <1>2 DEF TokenIInv, TokenTypeOK
  <1>10. Promise!Permit(v, c)
    BY <1>3, <1>4, <1>5, <1>8, <1>9, CallMoves, QuietView
    DEF LookupSelect, Promise!Permit, Promise!vars, Issued
  <1> QED
    BY <1>3, <1>10, QuietView DEF LookupSelect

\* A lookup takes the time it is dated with after it found the consent.
LEMMA DatedByLookup ==
    ASSUME TokenIInv, NEW v \in Validations, LookupCheck(v)
    PROVE  Promise!Date(v) /\ UNCHANGED Promise!vars
  <1> DEFINE req == validation[v]
             c   == req.consent
  <1>1. req \in Holding /\ req.route = "lookup"
    BY CallFields DEF LookupCheck, TokenIInv, IssuanceSound, CallSound
  <1>2. c \in Consents /\ clock <= validUntil[c]
    BY <1>1, ConstantsAssumption
    DEF LookupCheck, Lapsed, Holding, TokenIInv, IInv, TypeOK, Times
  <1>3. Asking[v] = [phase |-> "permitted", route |-> "lookup",
                     date |-> req.now, of |-> c]
    BY <1>1 DEF LookupCheck, Asking, AnsweredAs
  <1>4. validation'[v] = [req EXCEPT !.phase = "checked", !.now = clock]
    BY DEF LookupCheck, TokenIInv, TokenTypeOK
  <1>5. /\ validation'[v].phase = "checked"
        /\ validation'[v].now = clock
        /\ validation'[v].consent = c
        /\ validation'[v].route = "lookup"
    BY <1>1, <1>4 DEF Holding
  <1>6. AnsweredAs(v)' = [phase |-> "permitted", route |-> "lookup",
                          date |-> clock, of |-> c]
    BY <1>5 DEF AnsweredAs
  <1>7. AnsweredAs(v)' = Promise!Permitted(v, Asking[v].of, clock)
    BY <1>3, <1>6 DEF Promise!Permitted
  <1>8. \A u \in Validations \ {v} : validation'[u] = validation[u]
    BY DEF LookupCheck, TokenIInv, TokenTypeOK
  <1>9. Promise!Moves(v, Promise!Permitted(v, Asking[v].of, clock))
    BY <1>7, <1>8, CallMoves
  <1>10. UNCHANGED <<Promise!vars, Issued>>
    BY QuietView DEF LookupCheck, Issued
  <1> QED
    BY <1>2, <1>3, <1>9, <1>10 DEF Promise!Date, Promise!vars

\* The policy and the log leave the date and the consent of a call alone.
LEMMA LoggedUnseen ==
    ASSUME TokenIInv, NEW v \in Validations, LogPermits(v)
    PROVE  UNCHANGED Promise!answerVars
  <1> DEFINE req == validation[v]
  <1>1. req \in Holding
    BY CallFields DEF LogPermits, TokenIInv
  <1>2. PICK g \in SUBSET Controllers :
            validation' = [validation EXCEPT ![v].phase = "logged",
                                               ![v].granted = g]
    BY DEF LogPermits
  <1>3. validation'[v] = [req EXCEPT !.phase = "logged", !.granted = g]
    BY <1>2 DEF TokenIInv, TokenTypeOK
  <1>4. /\ validation'[v].phase = "logged"
        /\ validation'[v].now = req.now
        /\ validation'[v].consent = req.consent
        /\ validation'[v].route = req.route
    BY <1>1, <1>3 DEF Holding
  <1>5. AnsweredAs(v)' = AnsweredAs(v)
    BY <1>4 DEF LogPermits, AnsweredAs
  <1>6. \A u \in Validations \ {v} : AnsweredAs(u)' = AnsweredAs(u)
    BY <1>2 DEF TokenIInv, TokenTypeOK, AnsweredAs
  <1>7. UNCHANGED Asking
    BY <1>5, <1>6 DEF Asking
  <1> QED
    BY <1>7, QuietView DEF LogPermits, Promise!answerVars, Issued

LEMMA TokenFollowsPermit ==
    ASSUME TokenIInv, NEW v \in Validations, NEW k \in Controllers,
           IssueToken(v, k)
    PROVE  /\ \E end \in 0..(MaxClock + TokenTTL) : Promise!Issue(v, end)
           /\ UNCHANGED Promise!vars
  <1> DEFINE req == validation[v]
             c   == req.consent
             end == Expiry(c, req.now)
  <1>1. req \in Holding
    BY CallFields DEF IssueToken, TokenIInv
  <1>2. req.now \in Times /\ c \in Consents /\ validUntil[c] \in Times
    BY <1>1 DEF Holding, TokenIInv, IInv, TypeOK
  <1>3. /\ end \in 0..(MaxClock + TokenTTL)
        /\ end <= req.now + TokenTTL
        /\ end <= validUntil[c]
    BY <1>2, ConstantsAssumption, TokenTTLAssumption DEF Expiry, Earlier, Times
  <1>4. Asking[v] = [phase |-> "permitted", route |-> req.route,
                     date |-> req.now, of |-> c]
    BY DEF IssueToken, Asking, AnsweredAs
  <1>5. Issued' = Issued \cup {[call |-> v, consent |-> c, end |-> end]}
    <2>1. PICK t : t = TokenOf(v, k)
      OBVIOUS
    <2>2. t.call = v /\ t.consent = c /\ t.exp = end
      BY <2>1 DEF TokenOf
    <2>3. tokens' = tokens \cup {t}
      BY <2>1 DEF IssueToken
    <2> QED
      BY <2>2, <2>3 DEF Issued
  <1>6. UNCHANGED Asking
    <2>1. validation'[v] = [req EXCEPT !.granted = req.granted \ {k}]
      BY DEF IssueToken, TokenIInv, TokenTypeOK
    <2>2. /\ validation'[v].phase = "logged"
          /\ validation'[v].now = req.now
          /\ validation'[v].consent = c
          /\ validation'[v].route = req.route
      BY <1>1, <2>1 DEF IssueToken, Holding
    <2>3. AnsweredAs(v)' = AnsweredAs(v)
      BY <2>2 DEF IssueToken, AnsweredAs
    <2>4. \A u \in Validations \ {v} : AnsweredAs(u)' = AnsweredAs(u)
      BY DEF IssueToken, TokenIInv, TokenTypeOK, AnsweredAs
    <2> QED
      BY <2>3, <2>4 DEF Asking
  <1>7. Promise!Issue(v, end)
    <2> HIDE DEF end
    <2> QED
      BY <1>3, <1>4, <1>5, <1>6, QuietView
      DEF IssueToken, Promise!Issue, Promise!vars
  <1> QED
    BY <1>3, <1>7, QuietView DEF IssueToken

LEMMA AnsweredPermitted ==
    ASSUME TokenIInv, NEW v \in Validations, Answer(v)
    PROVE  Promise!Answer(v) /\ UNCHANGED Promise!vars
  <1> DEFINE req == validation[v]
  <1>1. req \in Holding
    BY CallFields DEF Answer, TokenIInv
  <1>2. validation'[v] = [req EXCEPT !.phase = "permitted"]
    BY DEF Answer, TokenIInv, TokenTypeOK
  <1>3. validation'[v].phase = "permitted" /\ validation'[v].consent = req.consent
    BY <1>1, <1>2 DEF Holding
  <1>4. AnsweredAs(v)' = [phase |-> "answered", of |-> req.consent]
    BY <1>3 DEF AnsweredAs
  <1>5. Asking[v] = [phase |-> "permitted", route |-> req.route,
                     date |-> req.now, of |-> req.consent]
    BY DEF Answer, Asking, AnsweredAs
  <1>6. \A u \in Validations \ {v} : validation'[u] = validation[u]
    BY DEF Answer, TokenIInv, TokenTypeOK
  <1> QED
    BY <1>4, <1>5, <1>6, CallMoves, QuietView
    DEF Answer, Promise!Answer, Promise!vars, Issued

\* What the caller sees of a call that has begun and not been answered.
LEMMA Unanswered ==
    ASSUME NEW v \in Validations,
           validation[v].phase \in {"begun", "looking", "found", "checked", "logged"}
    PROVE  Asking[v].phase \in {"asked", "permitted"}
  BY DEF Asking, AnsweredAs

LEMMA RefusedWithoutToken ==
    ASSUME TokenIInv, TokensOfPermitted, NEW v \in Validations, Deny(v)
    PROVE  Promise!Refuse(v) /\ UNCHANGED Promise!vars
  <1>1. validation[v].phase \in {"begun", "looking", "found", "checked"}
    BY DEF Deny, Refused
  <1>2. \A t \in Issued : t.call # v
    BY <1>1 DEF Issued, TokensOfPermitted
  <1>3. validation'[v] = [phase |-> "denied"]
    BY DEF Deny, TokenIInv, TokenTypeOK
  <1>4. AnsweredAs(v)' = [phase |-> "refused"]
    BY <1>3 DEF AnsweredAs
  <1>5. \A u \in Validations \ {v} : validation'[u] = validation[u]
    BY DEF Deny, TokenIInv, TokenTypeOK
  <1> QED
    BY <1>1, <1>2, <1>4, <1>5, Unanswered, CallMoves, QuietView
    DEF Deny, Promise!Refuse, Promise!vars, Issued

LEMMA FailedSilently ==
    ASSUME TokenIInv, NEW v \in Validations, ValidationDies(v)
    PROVE  Promise!Fail(v) /\ UNCHANGED Promise!vars
  <1>1. validation'[v] = [phase |-> "dead"]
    BY DEF ValidationDies, TokenIInv, TokenTypeOK
  <1>2. AnsweredAs(v)' = [phase |-> "failed"]
    BY <1>1 DEF AnsweredAs
  <1>3. \A u \in Validations \ {v} : validation'[u] = validation[u]
    BY DEF ValidationDies, TokenIInv, TokenTypeOK
  <1> QED
    BY <1>2, <1>3, Unanswered, CallMoves, QuietView
    DEF ValidationDies, Promise!Fail, Promise!vars, Issued

LEMMA AnswersBegin == TokenInit => Promise!AnswersInit
  <1> SUFFICES ASSUME TokenInit PROVE Promise!AnswersInit
    OBVIOUS
  <1>1. Promise!Init
    BY InitRefines DEF TokenInit, Abstract!Init, Promise!Init
  <1>2. Asking = [v \in Validations |-> [phase |-> "new"]]
    BY DEF TokenInit, Asking, AnsweredAs
  <1>3. Issued = {}
    BY DEF TokenInit, Issued
  <1> QED
    BY <1>1, <1>2, <1>3 DEF Promise!AnswersInit

LEMMA AnswersStep ==
    TokenIInv /\ TokensOfPermitted /\ [TokenNext]_allVars
        => [Promise!AnswersNext]_(Promise!answerVars)
  <1> SUFFICES ASSUME TokenIInv, TokensOfPermitted, [TokenNext]_allVars
               PROVE  Promise!AnswersNext \/ UNCHANGED Promise!answerVars
    OBVIOUS
  <1>1. CASE StatusStep \/ UNCHANGED allVars
    <2>1. UNCHANGED <<Asking, Issued>>
      BY <1>1 DEF StatusStep, tokenVars, allVars, Asking, AnsweredAs, Issued
    <2>2. IInv /\ IInv' /\ [Next]_vars
      BY Background, StatusView DEF TokenIInv
    <2>3. CASE Abstract!Next
      <3>1. Promise!Next
        BY <2>3
        DEF Abstract!Next, Abstract!Tick, Abstract!Withdraw, Abstract!Lapse,
            Promise!Next, Promise!Tick, Promise!Withdraw, Promise!Lapse
      <3> QED
        BY <2>1, <3>1 DEF Promise!AnswersNext
    <2>4. CASE UNCHANGED Abstract!vars
      BY <2>1, <2>4 DEF Abstract!vars, Promise!vars, Promise!answerVars
    <2> QED
      BY <2>2, <2>3, <2>4, StepRefines
  <1>2. ASSUME NEW v \in Validations, ValidationStep(v)
        PROVE  Promise!AnswersNext \/ UNCHANGED Promise!answerVars
    <2>1. ASSUME NEW c \in Consents, BeginById(v, c) PROVE Promise!AnswersNext
      BY <2>1, AskedById DEF Promise!AnswersNext
    <2>2. CASE ReadById(v)
      BY <2>2, PermittedById DEF Promise!AnswersNext
    <2>3. CASE BeginLookup(v)
      BY <2>3, AskedByLookup DEF Promise!AnswersNext
    <2>4. CASE LookupSelect(v)
      BY <2>4, PermittedByLookup DEF Promise!AnswersNext
    <2>5. CASE LookupCheck(v)
      BY <2>5, DatedByLookup DEF Promise!AnswersNext
    <2>6. CASE Deny(v)
      BY <2>6, RefusedWithoutToken DEF Promise!AnswersNext
    <2>7. CASE LogPermits(v)
      BY <2>7, LoggedUnseen
    <2>8. ASSUME NEW k \in Controllers, IssueToken(v, k)
          PROVE  Promise!AnswersNext
      BY <2>8, TokenFollowsPermit DEF Promise!AnswersNext
    <2>9. CASE Answer(v)
      BY <2>9, AnsweredPermitted DEF Promise!AnswersNext
    <2>10. CASE ValidationDies(v)
      BY <2>10, FailedSilently DEF Promise!AnswersNext
    <2> QED
      BY <1>2, <2>1, <2>2, <2>3, <2>4, <2>5, <2>6, <2>7, <2>8, <2>9, <2>10
      DEF ValidationStep
  <1> QED
    BY <1>1, <1>2 DEF TokenNext

\* Whatever revocations, expiries and other calls do between its steps, every
\* call is permitted at a moment at which its consent stood, or not at all,
\* and its tokens follow from that.
THEOREM ImplementsAnswers == TokenSpec => AnswersRefined
  <1>1. TokenInit => TokensOfPermitted
    BY DEF TokenInit, TokensOfPermitted
  <1>2. TokenIInv /\ TokensOfPermitted /\ [TokenNext]_allVars
          => TokensOfPermitted'
    BY TokensOfPermittedStep DEF TokenIInv
  <1>3. TokenSpec => [](TokenIInv /\ TokensOfPermitted)
    BY <1>1, <1>2, TokenIInvInit, TokenIInvStep, PTL DEF TokenSpec
  <1> QED
    BY <1>3, AnswersBegin, AnswersStep, PTL
    DEF TokenSpec, AnswersRefined, Promise!AnswersSpec
=============================================================================
