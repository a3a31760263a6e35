------------------------ MODULE ConsentGrantsProofs ------------------------
(* Theorems of ConsentGrants, for every value of the constants. *)
EXTENDS ConsentGrants, TLAPS

-----------------------------------------------------------------------------
(* Type correctness *)

\* The fields that the phase of a request says it has.
LEMMA RequestFields ==
    ASSUME NEW r \in RequestState
    PROVE  /\ r.phase \in {"checking", "pending", "approved", "narrowing", "capping"} =>
                r.want \in ByController
           /\ r.phase \in {"checking", "narrowing"} => r.todo \in SUBSET Controllers
           /\ r.phase \in {"pending", "approved", "narrowing"} => r.useCase \in MaybeUseCase
           /\ r.phase \in {"naming", "capping"} => r.useCase \in UseCases
           /\ r.phase \in {"narrowing", "capping"} => r.granted \in ByController
           /\ r.phase = "narrowing" =>
                r.left \in ByController /\ r.version \in [Controllers -> Nat]
           /\ r.phase = "capping" => r.read \in Nat
  BY DEF RequestState

LEMMA CallFields ==
    ASSUME NEW s \in CallState
    PROVE  s.phase \in {"reading", "permitted"} =>
            /\ s.how \in {"id", "lookup"} /\ s.useCase \in MaybeUseCase
            /\ s.asks \in SUBSET Scopes /\ s.todo \in SUBSET Controllers
            /\ s.scopes \in ByController /\ s.version \in [Controllers -> Nat]
            /\ s.since \in [Keys -> Nat]
  BY DEF CallState

LEMMA ConsentFields ==
    ASSUME NEW s \in Consent
    PROVE  /\ s.useCase \in MaybeUseCase /\ s.validity \in Validities
           /\ s.granted \in ByController /\ s.left \in ByController
           /\ s.version \in [Controllers -> Nat]
  BY DEF Consent

LEMMA ReadableTyped ==
    ASSUME GrantsTypeOK, NEW k \in Keys, NEW v \in Readable(k)
    PROVE  /\ v \in Nat /\ v \in 1..Len(policy[k]) /\ v >= oldest[k]
           /\ policy[k][v] \in Policies \cup {NoPolicy}
  <1>1. policy[k] \in Seq(Policies \cup {NoPolicy}) /\ oldest[k] \in 1..Len(policy[k])
    BY DEF GrantsTypeOK, Current
  <1>2. v \in oldest[k]..Len(policy[k])
    BY DEF Readable, Current
  <1>3. v \in Nat /\ v \in 1..Len(policy[k]) /\ v >= oldest[k]
    BY <1>1, <1>2
  <1> QED
    BY <1>1, <1>3

\* A scope policy's key is its controller, a use case's the use case.
LEMMA KeysHave == Controllers \subseteq Keys /\ UseCases \subseteq Keys
  BY DEF Keys

LEMMA NarrowingTyped ==
    ASSUME GrantsTypeOK, request.phase \in {"pending", "narrowing", "capping"},
           NEW granted \in ByController, NEW left \in ByController,
           NEW version \in [Controllers -> Nat], NEW todo \in SUBSET Controllers
    PROVE  Narrowing(granted, left, version, todo) \in RequestState
  <1>1. request.want \in ByController /\ request.useCase \in MaybeUseCase
    BY RequestFields DEF GrantsTypeOK, MaybeUseCase
  <1> QED
    BY <1>1 DEF Narrowing, RequestState

LEMMA PendingTyped ==
    ASSUME NEW want \in ByController, NEW u \in MaybeUseCase
    PROVE  Pending(want, u) \in RequestState
  BY DEF Pending, RequestState

\* What a policy has of a controller's scopes is put in the controller's place.
LEMMA PlaceTyped ==
    ASSUME NEW f \in ByController, NEW g \in ByController, NEW c \in Controllers, NEW X
    PROVE  /\ [f EXCEPT ![c] = g[c] \cap X] \in ByController
           /\ [f EXCEPT ![c] = {}] \in ByController
  BY DEF ByController

LEMMA InitTyped == GrantsInit => GrantsTypeOK
  <1> SUFFICES ASSUME GrantsInit PROVE GrantsTypeOK
    OBVIOUS
  <1>1. policy \in [Keys -> Seq(Policies \cup {NoPolicy})]
        /\ \A k \in Keys : Len(policy[k]) = 1
    <2>1. FirstPolicies \subseteq Policies \cup {NoPolicy}
      BY GrantsAssumption
    <2>2. ASSUME NEW k \in Keys
          PROVE  policy[k] \in Seq(Policies \cup {NoPolicy}) /\ Len(policy[k]) = 1
      <3>1. PICK first \in FirstPolicies : policy[k] = <<first>>
        BY DEF GrantsInit
      <3> QED
        BY <2>1, <3>1
    <2>3. policy \in [Keys -> {<<first>> : first \in FirstPolicies}]
      BY DEF GrantsInit
    <2> QED
      BY <2>2, <2>3
  <1>2. oldest \in [Keys -> Nat] /\ \A k \in Keys : oldest[k] \in 1..Current(k)
    <2>1. oldest = [k \in Keys |-> 1]
      BY DEF GrantsInit
    <2>2. \A k \in Keys : oldest[k] \in 1..Len(policy[k])
      <3> TAKE k \in Keys
      <3>1. oldest[k] = 1 /\ Len(policy[k]) = 1
        BY <1>1, <2>1
      <3>2. 1 \in 1..1
        OBVIOUS
      <3> QED
        BY <3>1, <3>2
    <2> QED
      BY <2>1, <2>2 DEF Current
  <1>3. request \in RequestState
    BY DEF GrantsInit, RequestState
  <1>4. call \in [Calls -> CallState]
    <2>1. [phase |-> "idle"] \in CallState
      BY DEF CallState
    <2> QED
      BY <2>1 DEF GrantsInit
  <1> QED
    BY <1>1, <1>2, <1>3, <1>4 DEF GrantsInit, GrantsTypeOK

\* Versions of policies are only added.
LEMMA PublishTyped ==
    ASSUME GrantsTypeOK, NEW k \in Keys, NEW new \in Policies \cup {NoPolicy}, Publish(k, new)
    PROVE  /\ GrantsTypeOK'
           /\ \A j \in Keys : Len(policy'[j]) >= Len(policy[j])
                              /\ \A v \in 1..Len(policy[j]) : policy'[j][v] = policy[j][v]
  <1> DEFINE longer == Append(policy[k], new)
  <1>1. policy[k] \in Seq(Policies \cup {NoPolicy})
    BY DEF GrantsTypeOK
  <1>2. /\ longer \in Seq(Policies \cup {NoPolicy}) /\ Len(longer) = Len(policy[k]) + 1
        /\ Len(policy[k]) \in Nat /\ \A v \in 1..Len(policy[k]) : longer[v] = policy[k][v]
    BY <1>1
  <1>3. policy' = [policy EXCEPT ![k] = longer]
    BY DEF Publish
  <1> HIDE DEF longer
  <1>4. policy' \in [Keys -> Seq(Policies \cup {NoPolicy})]
    BY <1>2, <1>3 DEF GrantsTypeOK
  <1>5. ASSUME NEW j \in Keys
        PROVE  Len(policy'[j]) >= Len(policy[j])
               /\ \A v \in 1..Len(policy[j]) : policy'[j][v] = policy[j][v]
    <2>1. CASE j = k
      <3>1. policy'[j] = longer
        BY <1>3, <2>1 DEF GrantsTypeOK
      <3> QED
        BY <1>2, <2>1, <3>1
    <2>2. CASE j # k
      <3>1. policy'[j] = policy[j] /\ Len(policy[j]) \in Nat
        BY <1>3, <2>2 DEF GrantsTypeOK
      <3> QED
        BY <3>1
    <2> QED
      BY <2>1, <2>2
  <1>6. \A j \in Keys : oldest'[j] \in 1..Len(policy'[j])
    <2> TAKE j \in Keys
    <2>1. oldest'[j] = oldest[j] /\ oldest[j] \in 1..Len(policy[j])
      BY DEF Publish, GrantsTypeOK, Current
    <2>2. Len(policy'[j]) \in Nat /\ Len(policy[j]) \in Nat
      BY <1>4 DEF GrantsTypeOK
    <2> QED
      BY <1>5, <2>1, <2>2
  <1> QED
    BY <1>4, <1>5, <1>6 DEF Publish, GrantsTypeOK, Current

LEMMA ExternalTyped ==
    ASSUME GrantsTypeOK, ExternalStep PROVE GrantsTypeOK'
  <1>1. ASSUME NEW k \in Keys, CachesExpire(k) PROVE GrantsTypeOK'
    <2>1. PICK v \in Readable(k) : oldest' = [oldest EXCEPT ![k] = v]
      BY <1>1 DEF CachesExpire
    <2>2. oldest' \in [Keys -> Nat] /\ \A j \in Keys : oldest'[j] \in 1..Len(policy[j])
      BY <2>1, ReadableTyped DEF GrantsTypeOK, Current
    <2> QED
      BY <1>1, <2>2 DEF CachesExpire, GrantsTypeOK, Current
  <1>2. ASSUME NEW u \in UseCases, NEW new \in Offers, PublishUseCase(u, new)
        PROVE  GrantsTypeOK'
    BY <1>2 DEF PublishUseCase, GrantsTypeOK, Current
  <1> QED
    BY <1>1, <1>2, PublishTyped DEF ExternalStep

LEMMA RequestStepTyped ==
    ASSUME GrantsTypeOK, RequestStep PROVE GrantsTypeOK'
  <1> DEFINE Rest == UNCHANGED <<exchange, policy, oldest, offer, call>>
  <1>a. ASSUME Rest, consent' \in Consent \cup {NoConsent}, request' \in RequestState
        PROVE  GrantsTypeOK'
    BY <1>a DEF GrantsTypeOK, Current
  <1>b. Nothing \in ByController /\ Unread \in [Controllers -> Nat]
    BY DEF Nothing, ByController, Unread
  <1>c. consent \in Consent \cup {NoConsent} /\ request \in RequestState
    BY DEF GrantsTypeOK
  <1>d. [phase |-> "none"] \in RequestState
    BY DEF RequestState
  <1>1. ASSUME NEW want \in Requests, AskScopes(want) PROVE GrantsTypeOK'
    <2>1. want \in ByController
      BY GrantsAssumption
    <2>2. request' \in RequestState
      BY <1>1, <2>1 DEF AskScopes, RequestState
    <2> QED
      BY <1>1, <1>a, <1>c, <2>2 DEF AskScopes, served
  <1>2. ASSUME NEW c \in Controllers, CheckGrant(c) PROVE GrantsTypeOK'
    <2>1. request.want \in ByController /\ request.todo \ {c} \in SUBSET Controllers
      BY <1>2, <1>c, RequestFields DEF CheckGrant
    <2>2. [phase |-> "checking", want |-> request.want, todo |-> request.todo \ {c}]
            \in RequestState
      BY <2>1 DEF RequestState
    <2>3. request' \in RequestState
      BY <1>2, <1>d, <2>2 DEF CheckGrant
    <2> QED
      BY <1>2, <1>a, <1>c, <2>3 DEF CheckGrant, served
  <1>3. ASSUME NEW c \in Controllers, NarrowGrant(c) PROVE GrantsTypeOK'
    <2>1. /\ request.granted \in ByController /\ request.left \in ByController
          /\ request.version \in [Controllers -> Nat] /\ request.todo \in SUBSET Controllers
          /\ request.phase = "narrowing"
      BY <1>3, <1>c, RequestFields DEF NarrowGrant
    <2>2. PICK v \in Readable(c) :
            request' = Narrowing(request.granted,
              [request.left EXCEPT ![c] =
                 IF Active(c, v) THEN request.granted[c] \cap policy[c][v].scopes ELSE {}],
              [request.version EXCEPT ![c] = v], request.todo \ {c})
      BY <1>3 DEF NarrowGrant
    <2>3. v \in Nat
      BY KeysHave, ReadableTyped
    <2> DEFINE left == [request.left EXCEPT ![c] =
                 IF Active(c, v) THEN request.granted[c] \cap policy[c][v].scopes ELSE {}]
               version == [request.version EXCEPT ![c] = v]
    <2>4. left \in ByController
      BY <2>1, PlaceTyped
    <2>5. version \in [Controllers -> Nat]
      BY <2>1, <2>3
    <2> HIDE DEF left, version
    <2>6. Narrowing(request.granted, left, version, request.todo \ {c}) \in RequestState
      BY <2>1, <2>4, <2>5, NarrowingTyped
    <2>7. request' \in RequestState
      BY <2>2, <2>6 DEF left, version
    <2> QED
      BY <1>3, <1>a, <1>c, <2>7 DEF NarrowGrant, served
  <1>4. ASSUME NEW u \in UseCases, AskUseCase(u) PROVE GrantsTypeOK'
    <2>1. request' \in RequestState
      BY <1>4 DEF AskUseCase, RequestState
    <2> QED
      BY <1>4, <1>a, <1>c, <2>1 DEF AskUseCase, served
  <1>5. CASE Created
    <2>1. request.want \in ByController /\ NoUseCase \in MaybeUseCase
      BY <1>5, <1>c, RequestFields DEF Created, MaybeUseCase
    <2> QED
      BY <1>5, <1>a, <1>c, <2>1, PendingTyped DEF Created, served
  <1>6. CASE CreatedForUseCase
    <2>1. request.useCase \in UseCases /\ request.useCase \in MaybeUseCase
      BY <1>6, <1>c, RequestFields DEF CreatedForUseCase, MaybeUseCase
    <2>2. offer[request.useCase] \in ByController
      BY <2>1, GrantsAssumption DEF GrantsTypeOK
    <2> QED
      BY <1>6, <1>a, <1>c, <2>1, <2>2, PendingTyped DEF CreatedForUseCase, served
  <1>7. CASE Cap
    <2>1. /\ request.granted \in ByController /\ request.read \in Nat
          /\ request.useCase \in UseCases /\ request.phase = "capping"
      BY <1>7, <1>c, RequestFields DEF Cap
    <2> DEFINE left == [c \in Controllers |-> request.granted[c] \cap offer[request.useCase][c]]
               version == [c \in Controllers |-> request.read]
    <2>2. left \in ByController /\ version \in [Controllers -> Nat]
      BY <2>1 DEF ByController
    <2>3. request' = Narrowing(request.granted, left, version, {})
      BY <1>7 DEF Cap
    <2> HIDE DEF left, version
    <2>4. request' \in RequestState
      BY <2>1, <2>2, <2>3, NarrowingTyped
    <2> QED
      BY <1>7, <1>a, <1>c, <2>4 DEF Cap, served
  <1>8. CASE GiveUp
    <2>1. request' \in RequestState
      <3>1. CASE request.phase \in {"checking", "naming"}
        BY <1>8, <1>d, <3>1 DEF GiveUp
      <3>2. CASE request.phase \in {"narrowing", "capping"}
        <4>1. request.want \in ByController /\ request.useCase \in MaybeUseCase
          BY <1>c, <3>2, RequestFields DEF MaybeUseCase
        <4>2. request' = Pending(request.want, request.useCase)
          BY <1>8, <3>2 DEF GiveUp
        <4> QED
          BY <4>1, <4>2, PendingTyped
      <3> QED
        BY <1>8, <3>1, <3>2 DEF GiveUp
    <2> QED
      BY <1>8, <1>a, <1>c, <2>1 DEF GiveUp, served
  <1>9. ASSUME NEW granted \in ByController, Approve(granted) PROVE GrantsTypeOK'
    <2>1. Asking(granted) \in SUBSET Controllers /\ request.phase = "pending"
      BY <1>9 DEF Asking, Approve
    <2>2. Narrowing(granted, Nothing, Unread, Asking(granted)) \in RequestState
      BY <1>b, <2>1, NarrowingTyped
    <2> QED
      BY <1>9, <1>a, <1>c, <2>2 DEF Approve, served
  <1>10. ASSUME NEW granted \in ByController, ApproveForUseCase(granted) PROVE GrantsTypeOK'
    <2>1. request.want \in ByController /\ request.useCase \in UseCases
      BY <1>10, <1>c, RequestFields DEF ApproveForUseCase, MaybeUseCase
    <2>2. PICK v \in Readable(request.useCase) :
            request' = [phase |-> "capping", want |-> request.want,
                        useCase |-> request.useCase, granted |-> granted, read |-> v]
      BY <1>10 DEF ApproveForUseCase
    <2>3. v \in Nat
      BY <2>1, KeysHave, ReadableTyped
    <2>4. request' \in RequestState
      BY <2>1, <2>2, <2>3 DEF RequestState
    <2> QED
      BY <1>10, <1>a, <1>c, <2>4 DEF ApproveForUseCase, served
  <1>11. ASSUME NEW validity \in Validities, Approved(validity) PROVE GrantsTypeOK'
    <2>1. /\ request.want \in ByController /\ request.useCase \in MaybeUseCase
          /\ request.granted \in ByController /\ request.left \in ByController
          /\ request.version \in [Controllers -> Nat]
      BY <1>11, <1>c, RequestFields DEF Approved
    <2>2. request' \in RequestState
      BY <1>11, <2>1 DEF Approved, RequestState
    <2>3. consent' \in Consent
      BY <1>11, <2>1 DEF Approved, Consent
    <2> QED
      BY <1>11, <1>a, <2>2, <2>3 DEF Approved, served
  <1> QED
    BY <1>1, <1>2, <1>3, <1>4, <1>5, <1>6, <1>7, <1>8, <1>9, <1>10, <1>11 DEF RequestStep

LEMMA ReadsTyped ==
    ASSUME GrantsTypeOK, NEW p \in Calls, call[p].phase = "reading",
           NEW done \in SUBSET Controllers, NEW scopes \in ByController,
           NEW version \in [Controllers -> Nat]
    PROVE  Reads(p, done, scopes, version) \in CallState
  <1>1. /\ call[p].how \in {"id", "lookup"} /\ call[p].useCase \in MaybeUseCase
        /\ call[p].asks \in SUBSET Scopes /\ call[p].todo \ done \in SUBSET Controllers
        /\ call[p].since \in [Keys -> Nat]
    BY CallFields DEF GrantsTypeOK
  <1> QED
    BY <1>1 DEF Reads, CallState

ReadMove(p, c, v, scopes, version) ==
    /\ call' = [call EXCEPT ![p] = Reads(p, {c}, scopes, version)]
    /\ scopes = [call[p].scopes EXCEPT ![c] =
         IF Active(c, v)
         THEN consent.left[c] \cap policy[c][v].scopes \cap call[p].asks ELSE {}]
    /\ version = [call[p].version EXCEPT ![c] = v]

\* What a call reads of one controller's policy.
LEMMA ReadScopeMoves ==
    ASSUME GrantsTypeOK, NEW p \in Calls, NEW c \in Controllers, ReadScopePolicy(p, c)
    PROVE  \E v \in Readable(c), scopes \in ByController, version \in [Controllers -> Nat] :
             ReadMove(p, c, v, scopes, version)
  <1>1. call[p].phase = "reading" /\ call[p].scopes \in ByController
        /\ call[p].version \in [Controllers -> Nat] /\ call[p].asks \in SUBSET Scopes
    BY CallFields DEF ReadScopePolicy, GrantsTypeOK
  <1>2. PICK v \in Readable(c) :
          call' = [call EXCEPT ![p] = Reads(p, {c},
            [call[p].scopes EXCEPT ![c] =
                IF Active(c, v)
                THEN consent.left[c] \cap policy[c][v].scopes \cap call[p].asks ELSE {}],
            [call[p].version EXCEPT ![c] = v])]
    BY DEF ReadScopePolicy
  <1>3. v \in Nat
    BY KeysHave, ReadableTyped
  <1> DEFINE scopes == [call[p].scopes EXCEPT ![c] =
                  IF Active(c, v)
                  THEN consent.left[c] \cap policy[c][v].scopes \cap call[p].asks ELSE {}]
             version == [call[p].version EXCEPT ![c] = v]
  <1>4. scopes \in ByController
    BY <1>1 DEF ByController
  <1>5. version \in [Controllers -> Nat]
    BY <1>1, <1>3
  <1> QED
    BY <1>2, <1>4, <1>5 DEF ReadMove

LEMMA CallStepTyped ==
    ASSUME GrantsTypeOK, NEW p \in Calls, CallStep(p) PROVE GrantsTypeOK'
  <1>a. ASSUME UNCHANGED <<served, request, consent>>, NEW s \in CallState,
               call' = [call EXCEPT ![p] = s]
        PROVE  GrantsTypeOK'
    BY <1>a DEF served, GrantsTypeOK, Current
  <1>b. Refused \in CallState
    BY DEF Refused, CallState
  <1>1. ASSUME NEW how \in {"id", "lookup"}, NEW u \in MaybeUseCase, NEW at,
               NEW asks \in Asks, Present(p, how, u, at, asks)
        PROVE  GrantsTypeOK'
    <2> DEFINE begun == [phase |-> "reading", how |-> how, useCase |-> u, asks |-> asks,
              todo |-> at \cap Asking(consent.left), scopes |-> Nothing,
              version |-> Unread, since |-> oldest]
    <2>1. asks \in SUBSET Scopes /\ at \cap Asking(consent.left) \in SUBSET Controllers
      BY GrantsAssumption DEF Asking
    <2>2. Nothing \in ByController /\ Unread \in [Controllers -> Nat] /\ oldest \in [Keys -> Nat]
      BY DEF Nothing, ByController, Unread, GrantsTypeOK
    <2>3. begun \in CallState
      BY <2>1, <2>2 DEF CallState
    <2>4. call' = [call EXCEPT ![p] = begun] \/ call' = [call EXCEPT ![p] = Refused]
      BY <1>1 DEF Present
    <2> HIDE DEF begun
    <2> QED
      BY <1>1, <1>a, <1>b, <2>3, <2>4 DEF Present
  <1>2. ASSUME NEW c \in Controllers, ReadScopePolicy(p, c) PROVE GrantsTypeOK'
    <2>0. PICK v \in Readable(c), scopes \in ByController, version \in [Controllers -> Nat] :
            ReadMove(p, c, v, scopes, version)
      BY <1>2, ReadScopeMoves
    <2>1. call' = [call EXCEPT ![p] = Reads(p, {c}, scopes, version)]
      BY <2>0 DEF ReadMove
    <2>2. Reads(p, {c}, scopes, version) \in CallState
      BY <1>2, ReadsTyped DEF ReadScopePolicy
    <2> QED
      BY <1>2, <1>a, <2>1, <2>2 DEF ReadScopePolicy
  <1>3. CASE ReadUseCasePolicy(p)
    <2> DEFINE scopes == [c \in Controllers |->
                    IF c \in call[p].todo THEN consent.left[c] \cap call[p].asks ELSE {}]
    <2>1. PICK v \in Readable(call[p].useCase) :
            \/ call' = [call EXCEPT ![p] = Refused]
            \/ call' = [call EXCEPT ![p] =
                 Reads(p, call[p].todo, scopes, [c \in Controllers |-> v])]
      BY <1>3 DEF ReadUseCasePolicy
    <2>2. call[p].phase = "reading" /\ call[p].useCase \in UseCases
          /\ call[p].asks \in SUBSET Scopes /\ call[p].todo \in SUBSET Controllers
      BY <1>3, CallFields DEF ReadUseCasePolicy, GrantsTypeOK, MaybeUseCase
    <2>3. v \in Nat
      BY <2>2, KeysHave, ReadableTyped
    <2>4. scopes \in ByController
      BY <2>2 DEF ByController
    <2>5. [c \in Controllers |-> v] \in [Controllers -> Nat]
      BY <2>3
    <2> HIDE DEF scopes
    <2>6. Reads(p, call[p].todo, scopes, [c \in Controllers |-> v]) \in CallState
      BY <2>2, <2>4, <2>5, ReadsTyped
    <2> QED
      BY <1>3, <1>a, <1>b, <2>1, <2>6 DEF ReadUseCasePolicy
  <1>4. CASE Answer(p)
    <2>1. call[p] \in CallState /\ call[p].phase = "reading"
      BY <1>4 DEF Answer, GrantsTypeOK
    <2>2. Permit(p, call[p].version) \in CallState
      BY <2>1, CallFields DEF Permit, CallState
    <2>3. call' = [call EXCEPT ![p] = Permit(p, call[p].version)]
          \/ call' = [call EXCEPT ![p] = Refused]
      BY <1>4 DEF Answer
    <2> QED
      BY <1>4, <1>a, <1>b, <2>2, <2>3 DEF Answer
  <1> QED
    BY <1>1, <1>2, <1>3, <1>4 DEF CallStep

LEMMA RestartTyped ==
    ASSUME GrantsTypeOK, NEW role \in BOOLEAN, Restart(role) PROVE GrantsTypeOK'
  <1>1. call' \in [Calls -> CallState]
    <2>1. [phase |-> "idle"] \in CallState
      BY DEF CallState
    <2> QED
      BY <2>1 DEF Restart
  <1>2. request' \in RequestState
    <2>1. request \in RequestState
      BY DEF GrantsTypeOK
    <2>2. CASE request.phase \in {"checking", "naming"}
      BY <2>2 DEF Restart, RequestState
    <2>3. CASE request.phase \in {"narrowing", "capping"}
      <3>1. request.want \in ByController /\ request.useCase \in MaybeUseCase
        BY <2>1, <2>3, RequestFields DEF MaybeUseCase
      <3>2. request' = Pending(request.want, request.useCase)
        BY <2>3 DEF Restart
      <3> QED
        BY <3>1, <3>2, PendingTyped
    <2>4. CASE request.phase \notin {"checking", "naming", "narrowing", "capping"}
      BY <2>1, <2>4 DEF Restart
    <2> QED
      BY <2>2, <2>3, <2>4
  <1>3. /\ exchange' \in BOOLEAN /\ policy' = policy /\ oldest' = oldest /\ offer' = offer
        /\ consent' = consent
    BY DEF Restart
  <1> QED
    BY <1>1, <1>2, <1>3 DEF GrantsTypeOK, Current

LEMMA StepTyped == GrantsTypeOK /\ [GrantsNext]_grantVars => GrantsTypeOK'
  <1> SUFFICES ASSUME GrantsTypeOK, [GrantsNext]_grantVars PROVE GrantsTypeOK'
    OBVIOUS
  <1>1. CASE UNCHANGED grantVars
    BY <1>1 DEF grantVars, GrantsTypeOK, Current
  <1> QED
    BY <1>1, ExternalTyped, RequestStepTyped, CallStepTyped, RestartTyped DEF GrantsNext

\* What GrantsTypeOK says holds for every value of the constants.
THEOREM GrantsTypeCorrect == GrantsSpec => []GrantsTypeOK
  BY InitTyped, StepTyped, PTL DEF GrantsSpec

-----------------------------------------------------------------------------
(* The invariant. What was read of a policy stays as it was read, since       *)
(* versions are never altered; a consent, once made, is never altered either. *)

\* With these policies: version v allowed the controller's scopes.
GrantIn(pol, u, c, scopes, v) ==
    LET k == KeyFor(u, c) IN
    /\ v \in 1..Len(pol[k]) /\ pol[k][v] # NoPolicy
    /\ u = NoUseCase => scopes \subseteq pol[k][v].scopes

PermitIn(pol, u, c, scopes, v, validity) ==
    LET k == KeyFor(u, c) IN
    /\ v \in 1..Len(pol[k]) /\ pol[k][v] # NoPolicy
    /\ IF u = NoUseCase THEN scopes \subseteq pol[k][v].scopes
       ELSE pol[k][v].limit # 0 => validity <= pol[k][v].limit

RequestSound ==
    /\ request.phase = "narrowing" /\ request.useCase # NoUseCase => request.todo = {}
    /\ request.phase = "narrowing" => \A c \in Controllers :
        /\ request.granted[c] \subseteq request.want[c]
        /\ request.left[c] \subseteq request.granted[c]
        /\ request.left[c] # {} =>
            GrantIn(policy, request.useCase, c, request.left[c], request.version[c])
    /\ request.phase = "capping" =>
        /\ \A c \in Controllers : request.granted[c] \subseteq request.want[c]
        /\ request.read \in 1..Len(policy[request.useCase])
        /\ policy[request.useCase][request.read] # NoPolicy

ConsentSound ==
    consent # NoConsent =>
        /\ request.phase = "approved"
        /\ \A c \in Controllers :
            /\ consent.granted[c] \subseteq request.want[c]
            /\ consent.left[c] \subseteq consent.granted[c]
            /\ consent.left[c] # {} =>
                GrantIn(policy, consent.useCase, c, consent.left[c], consent.version[c])

CallSound(p) ==
    call[p].phase \in {"reading", "permitted"} =>
        /\ consent # NoConsent
        /\ call[p].how = "lookup" => call[p].useCase = consent.useCase
        /\ call[p].useCase # NoUseCase => consent.useCase \in {call[p].useCase, NoUseCase}
        /\ \A k \in Keys : call[p].since[k] <= oldest[k]
        /\ \A c \in Controllers :
            /\ call[p].scopes[c] \subseteq consent.left[c] \cap call[p].asks
            /\ call[p].scopes[c] # {} =>
                /\ PermitIn(policy, call[p].useCase, c, call[p].scopes[c],
                            call[p].version[c], consent.validity)
                /\ call[p].version[c] >= call[p].since[KeyFor(call[p].useCase, c)]

GrantsIInv ==
    GrantsTypeOK /\ RequestSound /\ ConsentSound /\ \A p \in Calls : CallSound(p)

PolicyGrows ==
    \A k \in Keys :
        /\ Len(policy'[k]) \in Nat /\ Len(policy'[k]) >= Len(policy[k])
        /\ \A v \in 1..Len(policy[k]) : policy'[k][v] = policy[k][v]
        /\ oldest'[k] >= oldest[k]

LEMMA KeyIsKey ==
    ASSUME NEW u \in MaybeUseCase, NEW c \in Controllers PROVE KeyFor(u, c) \in Keys
  BY DEF KeyFor, Keys, MaybeUseCase

\* A version of a policy is there for good.
LEMMA VersionStays ==
    ASSUME GrantsTypeOK, PolicyGrows, NEW k \in Keys, NEW v \in 1..Len(policy[k])
    PROVE  v \in 1..Len(policy'[k]) /\ policy'[k][v] = policy[k][v]
  <1>1. Len(policy[k]) \in Nat /\ Len(policy'[k]) \in Nat /\ Len(policy'[k]) >= Len(policy[k])
    BY DEF PolicyGrows, GrantsTypeOK
  <1> QED
    BY <1>1 DEF PolicyGrows

LEMMA GrantStays ==
    ASSUME GrantsTypeOK, PolicyGrows, NEW u \in MaybeUseCase, NEW c \in Controllers,
           NEW scopes, NEW v, GrantIn(policy, u, c, scopes, v)
    PROVE  GrantIn(policy', u, c, scopes, v)
  <1>1. KeyFor(u, c) \in Keys /\ v \in 1..Len(policy[KeyFor(u, c)])
    BY KeyIsKey DEF GrantIn
  <1> QED
    BY <1>1, VersionStays DEF GrantIn

LEMMA PermitStays ==
    ASSUME GrantsTypeOK, PolicyGrows, NEW u \in MaybeUseCase, NEW c \in Controllers,
           NEW scopes, NEW v, NEW validity, PermitIn(policy, u, c, scopes, v, validity)
    PROVE  PermitIn(policy', u, c, scopes, v, validity)
  <1>1. KeyFor(u, c) \in Keys /\ v \in 1..Len(policy[KeyFor(u, c)])
    BY KeyIsKey DEF PermitIn
  <1> QED
    BY <1>1, VersionStays DEF PermitIn

LEMMA RequestStays ==
    ASSUME GrantsTypeOK, PolicyGrows, RequestSound, request' = request PROVE RequestSound'
  <1>1. request \in RequestState
    BY DEF GrantsTypeOK
  <1>2. CASE request.phase = "narrowing"
    <2>1. request.useCase \in MaybeUseCase
      BY <1>1, <1>2, RequestFields
    <2>2. ASSUME NEW c \in Controllers
          PROVE  /\ request.granted[c] \subseteq request.want[c]
                 /\ request.left[c] \subseteq request.granted[c]
                 /\ request.left[c] # {} =>
                    GrantIn(policy', request.useCase, c, request.left[c], request.version[c])
      BY <1>2, <2>1, GrantStays DEF RequestSound
    <2> QED
      BY <1>2, <2>2 DEF RequestSound
  <1>3. CASE request.phase = "capping"
    <2>1. request.useCase \in Keys /\ request.read \in 1..Len(policy[request.useCase])
      BY <1>1, <1>3, RequestFields, KeysHave DEF RequestSound
    <2>2. /\ request.read \in 1..Len(policy'[request.useCase])
          /\ policy'[request.useCase][request.read] # NoPolicy
      BY <1>3, <2>1, VersionStays DEF RequestSound
    <2> QED
      BY <1>3, <2>2 DEF RequestSound
  <1>4. CASE request.phase \notin {"narrowing", "capping"}
    BY <1>4 DEF RequestSound
  <1> QED
    BY <1>2, <1>3, <1>4

LEMMA ConsentStays ==
    ASSUME GrantsTypeOK, PolicyGrows, ConsentSound, consent' = consent,
           consent # NoConsent => request' = request
    PROVE  ConsentSound'
  <1> SUFFICES ASSUME consent # NoConsent PROVE ConsentSound'
    BY DEF ConsentSound
  <1>1. consent.useCase \in MaybeUseCase
    BY ConsentFields DEF GrantsTypeOK
  <1>2. ASSUME NEW c \in Controllers
        PROVE  /\ consent.granted[c] \subseteq request.want[c]
               /\ consent.left[c] \subseteq consent.granted[c]
               /\ consent.left[c] # {} =>
                  GrantIn(policy', consent.useCase, c, consent.left[c], consent.version[c])
    BY <1>1, GrantStays DEF ConsentSound
  <1> QED
    BY <1>2 DEF ConsentSound

LEMMA CallStays ==
    ASSUME GrantsTypeOK, PolicyGrows, GrantsTypeOK', consent' = consent,
           NEW p \in Calls, CallSound(p), call'[p] = call[p]
    PROVE  CallSound(p)'
  <1> SUFFICES ASSUME call[p].phase \in {"reading", "permitted"} PROVE CallSound(p)'
    BY DEF CallSound
  <1>1. call[p].useCase \in MaybeUseCase /\ call[p].since \in [Keys -> Nat]
    BY CallFields DEF GrantsTypeOK
  <1>2. ASSUME NEW k \in Keys PROVE call[p].since[k] <= oldest'[k]
    <2>1. call[p].since[k] \in Nat /\ oldest[k] \in Nat /\ oldest'[k] \in Nat
      BY <1>1 DEF GrantsTypeOK
    <2>2. call[p].since[k] <= oldest[k] /\ oldest'[k] >= oldest[k]
      BY DEF CallSound, PolicyGrows
    <2> QED
      BY <2>1, <2>2
  <1>3. ASSUME NEW c \in Controllers, call[p].scopes[c] # {}
        PROVE  PermitIn(policy', call[p].useCase, c, call[p].scopes[c],
                        call[p].version[c], consent.validity)
    BY <1>1, <1>3, PermitStays DEF CallSound
  <1> QED
    BY <1>2, <1>3 DEF CallSound

\* A step that leaves requests, consents and calls alone.
LEMMA AllStays ==
    ASSUME GrantsIInv, PolicyGrows, GrantsTypeOK',
           UNCHANGED <<request, consent, call>>
    PROVE  GrantsIInv'
  <1>1. \A p \in Calls : CallSound(p)'
    BY CallStays DEF GrantsIInv
  <1> QED
    BY <1>1, RequestStays, ConsentStays DEF GrantsIInv

-----------------------------------------------------------------------------
(* The steps *)

\* Where nothing is published, policies grow trivially.
LEMMA NothingPublished ==
    ASSUME GrantsTypeOK, policy' = policy, oldest' = oldest PROVE PolicyGrows
  <1>1. ASSUME NEW k \in Keys
        PROVE  /\ Len(policy[k]) \in Nat /\ Len(policy[k]) >= Len(policy[k])
               /\ oldest[k] >= oldest[k]
    <2>1. Len(policy[k]) \in Nat /\ oldest[k] \in Nat
      BY DEF GrantsTypeOK
    <2> QED
      BY <2>1
  <1> QED
    BY <1>1 DEF PolicyGrows

LEMMA ExternalSound == ASSUME GrantsIInv, ExternalStep PROVE GrantsIInv'
  <1> GrantsTypeOK /\ GrantsTypeOK'
    BY ExternalTyped DEF GrantsIInv
  <1>1. ASSUME NEW k \in Keys, NEW new \in Policies \cup {NoPolicy}, Publish(k, new)
        PROVE  GrantsIInv'
    <2>1. ASSUME NEW j \in Keys
          PROVE  oldest'[j] >= oldest[j] /\ Len(policy'[j]) \in Nat
      <3>1. oldest'[j] = oldest[j] /\ oldest[j] \in Nat
        BY <1>1 DEF Publish, GrantsTypeOK
      <3>2. policy'[j] \in Seq(Policies \cup {NoPolicy})
        BY DEF GrantsTypeOK
      <3> QED
        BY <3>1, <3>2
    <2>2. PolicyGrows
      BY <1>1, <2>1, PublishTyped DEF PolicyGrows
    <2> QED
      BY <1>1, <2>2, AllStays DEF Publish
  <1>2. ASSUME NEW k \in Keys, CachesExpire(k) PROVE GrantsIInv'
    <2>1. ASSUME NEW j \in Keys
          PROVE  /\ oldest'[j] >= oldest[j] /\ policy'[j] = policy[j]
                 /\ Len(policy[j]) \in Nat /\ Len(policy[j]) >= Len(policy[j])
      <3>1. Len(policy[j]) \in Nat /\ oldest[j] \in 1..Len(policy[j]) /\ oldest[j] \in Nat
        BY DEF GrantsTypeOK, Current
      <3>2. PICK v \in Readable(k) : oldest' = [oldest EXCEPT ![k] = v]
        BY <1>2 DEF CachesExpire
      <3>3. v \in Nat /\ v >= oldest[k] /\ oldest'[j] = IF j = k THEN v ELSE oldest[j]
        BY <3>2, ReadableTyped DEF GrantsTypeOK
      <3> QED
        BY <1>2, <3>1, <3>3 DEF CachesExpire
    <2>2. PolicyGrows
      BY <2>1 DEF PolicyGrows
    <2> QED
      BY <1>2, <2>2, AllStays DEF CachesExpire
  <1>3. ASSUME NEW u \in UseCases, NEW new \in Offers, PublishUseCase(u, new)
        PROVE  GrantsIInv'
    BY <1>3, NothingPublished, AllStays DEF PublishUseCase
  <1> QED
    BY <1>1, <1>2, <1>3 DEF ExternalStep

\* Work on the request, before its approval.
LEMMA RequestMoves ==
    ASSUME GrantsIInv, GrantsTypeOK', UNCHANGED <<served, consent, call>>,
           request.phase # "approved", RequestSound'
    PROVE  GrantsIInv'
  <1>1. GrantsTypeOK /\ consent = NoConsent /\ PolicyGrows
    BY NothingPublished DEF GrantsIInv, ConsentSound, served
  <1>2. ConsentSound'
    BY <1>1 DEF ConsentSound
  <1>3. \A p \in Calls : CallSound(p)'
    BY <1>1, CallStays DEF GrantsIInv
  <1> QED
    BY <1>2, <1>3 DEF GrantsIInv

\* Whatever is granted, was requested.
LEMMA GrantableRequested ==
    ASSUME NEW want \in ByController, NEW granted \in Grantable(want)
    PROVE  \A c \in Controllers : granted[c] \subseteq want[c]
  BY DEF Grantable, Agreed

LEMMA NarrowSound ==
    ASSUME GrantsIInv, NEW c \in Controllers, NarrowGrant(c) PROVE RequestSound'
  <1> GrantsTypeOK /\ RequestSound
    BY DEF GrantsIInv
  <1>1. /\ request.phase = "narrowing" /\ request \in RequestState
        /\ request.left \in ByController /\ request.version \in [Controllers -> Nat]
        /\ request.useCase \in MaybeUseCase
    BY RequestFields DEF NarrowGrant, GrantsTypeOK
  <1>2. PICK v \in Readable(c) :
          request' = Narrowing(request.granted,
            [request.left EXCEPT ![c] =
               IF Active(c, v) THEN request.granted[c] \cap policy[c][v].scopes ELSE {}],
            [request.version EXCEPT ![c] = v], request.todo \ {c})
    BY DEF NarrowGrant
  <1> DEFINE mine == IF Active(c, v) THEN request.granted[c] \cap policy[c][v].scopes ELSE {}
             left == [request.left EXCEPT ![c] = mine]
             version == [request.version EXCEPT ![c] = v]
  <1>3. request' = Narrowing(request.granted, left, version, request.todo \ {c})
    BY <1>2
  <1>4. \A d \in Controllers :
          /\ left[d] = IF d = c THEN mine ELSE request.left[d]
          /\ version[d] = IF d = c THEN v ELSE request.version[d]
    BY <1>1 DEF ByController
  <1>5. v \in 1..Len(policy[c]) /\ mine \subseteq request.granted[c]
        /\ (mine # {} => policy[c][v] # NoPolicy /\ mine \subseteq policy[c][v].scopes)
    BY KeysHave, ReadableTyped DEF Active
  <1> HIDE DEF mine, left, version
  <1>6. /\ request'.phase = "narrowing" /\ request'.granted = request.granted
        /\ request'.want = request.want /\ request'.useCase = request.useCase
        /\ request'.left = left /\ request'.version = version
    BY <1>3 DEF Narrowing
  <1>7. request.useCase = NoUseCase
    BY <1>1 DEF NarrowGrant, RequestSound
  <1>8. mine # {} => GrantIn(policy, request.useCase, c, mine, v)
    BY <1>5, <1>7 DEF GrantIn, KeyFor
  <1>9. ASSUME NEW d \in Controllers
        PROVE  /\ request.granted[d] \subseteq request.want[d]
               /\ left[d] \subseteq request.granted[d]
               /\ left[d] # {} => GrantIn(policy, request.useCase, d, left[d], version[d])
    <2>1. CASE d = c
      BY <1>1, <1>4, <1>5, <1>8, <2>1 DEF RequestSound
    <2>2. CASE d # c
      BY <1>1, <1>4, <2>2 DEF RequestSound
    <2> QED
      BY <2>1, <2>2
  <1>10. policy' = policy
    BY DEF NarrowGrant, served
  <1> QED
    BY <1>6, <1>7, <1>9, <1>10 DEF RequestSound

LEMMA ApproveSound ==
    ASSUME GrantsIInv, NEW granted \in ByController,
           request.phase = "pending", granted \in Grantable(request.want),
           Approve(granted) \/ ApproveForUseCase(granted)
    PROVE  RequestSound'
  <1>0. request \in RequestState
    BY DEF GrantsIInv, GrantsTypeOK
  <1>1. request.want \in ByController /\ request.useCase \in MaybeUseCase
    BY <1>0, RequestFields
  <1>2. \A c \in Controllers : granted[c] \subseteq request.want[c]
    BY <1>1, GrantableRequested
  <1>3. CASE Approve(granted)
    <2>1. /\ request'.phase = "narrowing" /\ request'.granted = granted
          /\ request'.want = request.want /\ request'.left = Nothing
          /\ request'.useCase = NoUseCase
      BY <1>3 DEF Approve, Narrowing
    <2> QED
      BY <1>2, <2>1 DEF RequestSound, Nothing
  <1>4. CASE ApproveForUseCase(granted)
    <2>1. PICK v \in Readable(request.useCase) :
            /\ Active(request.useCase, v)
            /\ request' = [phase |-> "capping", want |-> request.want,
                           useCase |-> request.useCase, granted |-> granted, read |-> v]
      BY <1>4 DEF ApproveForUseCase
    <2>2. request.useCase \in Keys /\ policy' = policy
      BY <1>1, <1>4 DEF ApproveForUseCase, MaybeUseCase, Keys, served
    <2>3. v \in 1..Len(policy[request.useCase])
      BY <2>2, ReadableTyped DEF GrantsIInv
    <2> QED
      BY <1>2, <2>1, <2>2, <2>3 DEF RequestSound, Active
  <1> QED
    BY <1>3, <1>4

LEMMA CapSound ==
    ASSUME GrantsIInv, Cap PROVE RequestSound'
  <1> DEFINE left == [c \in Controllers |->
                        request.granted[c] \cap offer[request.useCase][c]]
             version == [c \in Controllers |-> request.read]
  <1>1. /\ request.phase = "capping" /\ policy' = policy
        /\ request' = Narrowing(request.granted, left, version, {})
    BY DEF Cap, served
  <1>2. request.useCase \in UseCases /\ request.useCase # NoUseCase
    <2>1. request \in RequestState
      BY DEF GrantsIInv, GrantsTypeOK
    <2> QED
      BY <1>1, <2>1, RequestFields, GrantsAssumption
  <1>3. ASSUME NEW c \in Controllers
        PROVE  /\ request.granted[c] \subseteq request.want[c]
               /\ left[c] \subseteq request.granted[c]
               /\ GrantIn(policy, request.useCase, c, left[c], version[c])
    BY <1>1, <1>2 DEF GrantsIInv, RequestSound, GrantIn, KeyFor
  <1> HIDE DEF left, version
  <1>4. /\ request'.phase = "narrowing" /\ request'.granted = request.granted
        /\ request'.want = request.want /\ request'.useCase = request.useCase
        /\ request'.left = left /\ request'.version = version /\ request'.todo = {}
    BY <1>1 DEF Narrowing
  <1> QED
    BY <1>1, <1>3, <1>4 DEF RequestSound

\* A step that leaves the request in a state about which nothing is claimed.
LEMMA OtherPhaseSound ==
    ASSUME request'.phase \notin {"narrowing", "capping"} PROVE RequestSound'
  BY DEF RequestSound

LEMMA ApprovedSound ==
    ASSUME GrantsIInv, NEW validity \in Validities, Approved(validity) PROVE GrantsIInv'
  <1>1. RequestStep
    BY DEF RequestStep
  <1>2. GrantsTypeOK /\ GrantsTypeOK' /\ RequestSound /\ ConsentSound
    BY <1>1, RequestStepTyped DEF GrantsIInv
  <1>3. /\ request.phase = "narrowing" /\ consent = NoConsent /\ policy' = policy /\ call' = call
        /\ request' = [phase |-> "approved", want |-> request.want,
                       useCase |-> request.useCase]
        /\ consent' = [useCase |-> request.useCase, validity |-> validity,
                       granted |-> request.granted, left |-> request.left,
                       version |-> request.version]
    BY <1>2 DEF Approved, ConsentSound, served
  <1>4. RequestSound'
    BY <1>3, OtherPhaseSound
  <1>5. ConsentSound'
    <2>1. /\ consent'.useCase = request.useCase /\ consent'.granted = request.granted
          /\ consent'.left = request.left /\ consent'.version = request.version
          /\ request'.phase = "approved" /\ request'.want = request.want
      BY <1>3
    <2>2. ASSUME NEW c \in Controllers
          PROVE  /\ request.granted[c] \subseteq request.want[c]
                 /\ request.left[c] \subseteq request.granted[c]
                 /\ request.left[c] # {} =>
                    GrantIn(policy, request.useCase, c, request.left[c], request.version[c])
      BY <1>2, <1>3 DEF RequestSound
    <2> QED
      BY <1>3, <2>1, <2>2 DEF ConsentSound
  <1>6. ASSUME NEW p \in Calls PROVE CallSound(p)'
    <2>1. call[p].phase \notin {"reading", "permitted"}
      BY <1>3 DEF GrantsIInv, CallSound
    <2> QED
      BY <1>3, <2>1 DEF CallSound
  <1> QED
    BY <1>2, <1>4, <1>5, <1>6 DEF GrantsIInv

LEMMA RequestStepSound == ASSUME GrantsIInv, RequestStep PROVE GrantsIInv'
  <1>0. GrantsTypeOK'
    BY RequestStepTyped DEF GrantsIInv
  <1>1. ASSUME NEW want \in Requests, AskScopes(want) PROVE GrantsIInv'
    <2>1. request'.phase = "checking" /\ request.phase # "approved"
      BY <1>1 DEF AskScopes
    <2> QED
      BY <1>0, <1>1, <2>1, OtherPhaseSound, RequestMoves DEF AskScopes
  <1>2. ASSUME NEW c \in Controllers, CheckGrant(c) PROVE GrantsIInv'
    <2>1. request'.phase \in {"checking", "none"} /\ request.phase # "approved"
      BY <1>2 DEF CheckGrant
    <2> QED
      BY <1>0, <1>2, <2>1, OtherPhaseSound, RequestMoves DEF CheckGrant
  <1>3. ASSUME NEW c \in Controllers, NarrowGrant(c) PROVE GrantsIInv'
    BY <1>0, <1>3, NarrowSound, RequestMoves DEF NarrowGrant
  <1>4. ASSUME NEW u \in UseCases, AskUseCase(u) PROVE GrantsIInv'
    <2>1. request'.phase = "naming" /\ request.phase # "approved"
      BY <1>4 DEF AskUseCase
    <2> QED
      BY <1>0, <1>4, <2>1, OtherPhaseSound, RequestMoves DEF AskUseCase
  <1>5. CASE Created
    <2>1. request'.phase = "pending" /\ request.phase # "approved"
      BY <1>5 DEF Created, Pending
    <2> QED
      BY <1>0, <1>5, <2>1, OtherPhaseSound, RequestMoves DEF Created
  <1>6. CASE CreatedForUseCase
    <2>1. request'.phase = "pending" /\ request.phase # "approved"
      BY <1>6 DEF CreatedForUseCase, Pending
    <2> QED
      BY <1>0, <1>6, <2>1, OtherPhaseSound, RequestMoves DEF CreatedForUseCase
  <1>7. CASE Cap
    BY <1>0, <1>7, CapSound, RequestMoves DEF Cap
  <1>8. CASE GiveUp
    <2>1. request'.phase \in {"pending", "none"} /\ request.phase # "approved"
      BY <1>8 DEF GiveUp, Pending
    <2> QED
      BY <1>0, <1>8, <2>1, OtherPhaseSound, RequestMoves DEF GiveUp
  <1>9. ASSUME NEW granted \in ByController, request.phase = "pending",
               granted \in Grantable(request.want), Approve(granted) \/ ApproveForUseCase(granted)
        PROVE  GrantsIInv'
    BY <1>0, <1>9, ApproveSound, RequestMoves DEF Approve, ApproveForUseCase
  <1>10. ASSUME NEW validity \in Validities, Approved(validity) PROVE GrantsIInv'
    BY <1>10, ApprovedSound
  <1> QED
    BY <1>1, <1>2, <1>3, <1>4, <1>5, <1>6, <1>7, <1>8, <1>9, <1>10 DEF RequestStep

-----------------------------------------------------------------------------
(* The steps of a call *)

\* Nothing but one call changes.
LEMMA OneCallMoves ==
    ASSUME GrantsIInv, GrantsTypeOK', UNCHANGED <<served, request, consent>>,
           NEW p \in Calls, NEW s, call' = [call EXCEPT ![p] = s], CallSound(p)'
    PROVE  GrantsIInv'
  <1>1. GrantsTypeOK /\ PolicyGrows
    BY NothingPublished DEF GrantsIInv, served
  <1>2. RequestSound' /\ ConsentSound'
    BY <1>1, RequestStays, ConsentStays DEF GrantsIInv
  <1>3. ASSUME NEW q \in Calls PROVE CallSound(q)'
    <2>1. CASE q = p
      BY <2>1
    <2>2. CASE q # p
      <3>1. call'[q] = call[q]
        BY <1>1, <2>2 DEF GrantsTypeOK
      <3> QED
        BY <1>1, <3>1, CallStays DEF GrantsIInv
    <2> QED
      BY <2>1, <2>2
  <1> QED
    BY <1>2, <1>3 DEF GrantsIInv

\* A call that is refused claims nothing.
LEMMA RefusedSound ==
    ASSUME GrantsTypeOK, NEW p \in Calls, call' = [call EXCEPT ![p] = Refused]
    PROVE  CallSound(p)'
  <1>1. call'[p] = Refused
    BY DEF GrantsTypeOK
  <1> QED
    BY <1>1 DEF CallSound, Refused

LEMMA PresentSound ==
    ASSUME GrantsTypeOK, NEW p \in Calls, NEW how \in {"id", "lookup"}, NEW u \in MaybeUseCase,
           NEW at, NEW asks \in Asks, Present(p, how, u, at, asks)
    PROVE  CallSound(p)'
  <1>1. CASE call' = [call EXCEPT ![p] = Refused]
    BY <1>1, RefusedSound
  <1>2. CASE call' # [call EXCEPT ![p] = Refused]
    <2> DEFINE begun == [phase |-> "reading", how |-> how, useCase |-> u, asks |-> asks,
              todo |-> at \cap Asking(consent.left), scopes |-> Nothing,
              version |-> Unread, since |-> oldest]
    <2>1. /\ call' = [call EXCEPT ![p] = begun] /\ Found(how, u, at) /\ Serves(u)
          /\ consent # NoConsent /\ consent' = consent /\ policy' = policy /\ oldest' = oldest
      BY <1>2 DEF Present, served
    <2>2. call'[p] = begun
      BY <2>1 DEF GrantsTypeOK
    <2>3. /\ call'[p].how = how /\ call'[p].useCase = u /\ call'[p].asks = asks
          /\ call'[p].scopes = Nothing /\ call'[p].since = oldest
      BY <2>2
    <2>4. \A k \in Keys : oldest[k] <= oldest[k]
      BY DEF GrantsTypeOK
    <2>5. \A c \in Controllers : Nothing[c] = {}
      BY DEF Nothing
    <2> HIDE DEF begun
    <2> QED
      BY <2>1, <2>3, <2>4, <2>5 DEF CallSound, Found, Serves
  <1> QED
    BY <1>1, <1>2

\* A call that goes on reading keeps what it has of the other controllers.
LEMMA ReadScopeSound ==
    ASSUME GrantsIInv, NEW p \in Calls, NEW c \in Controllers, ReadScopePolicy(p, c)
    PROVE  CallSound(p)'
  <1> GrantsTypeOK /\ CallSound(p)
    BY DEF GrantsIInv
  <1>0. PICK v \in Readable(c), scopes \in ByController, version \in [Controllers -> Nat] :
          ReadMove(p, c, v, scopes, version)
    BY ReadScopeMoves
  <1>1. /\ call[p].phase = "reading" /\ call[p].useCase = NoUseCase /\ consent # NoConsent
        /\ call[p].scopes \in ByController /\ call[p].version \in [Controllers -> Nat]
        /\ call[p].since \in [Keys -> Nat]
        /\ policy' = policy /\ oldest' = oldest /\ consent' = consent
    BY CallFields DEF ReadScopePolicy, GrantsTypeOK, CallSound, served
  <1>2. call'[p] = Reads(p, {c}, scopes, version)
    BY <1>0 DEF ReadMove, GrantsTypeOK
  <1>3. /\ call'[p].phase = "reading" /\ call'[p].how = call[p].how
        /\ call'[p].useCase = NoUseCase /\ call'[p].asks = call[p].asks
        /\ call'[p].scopes = scopes /\ call'[p].version = version
        /\ call'[p].since = call[p].since
    BY <1>1, <1>2 DEF Reads
  <1>4. \A d \in Controllers :
          /\ d # c => scopes[d] = call[p].scopes[d] /\ version[d] = call[p].version[d]
          /\ d = c => /\ version[d] = v
                      /\ scopes[d] \subseteq consent.left[d] \cap call[p].asks
                      /\ scopes[d] # {} => Active(c, v) /\ scopes[d] \subseteq policy[c][v].scopes
    BY <1>0, <1>1 DEF ReadMove, ByController
  <1>5. v \in 1..Len(policy[c]) /\ v >= call[p].since[c]
    <2>1. c \in Keys /\ v \in Nat /\ v \in 1..Len(policy[c]) /\ v >= oldest[c]
      BY KeysHave, ReadableTyped
    <2>2. call[p].since[c] <= oldest[c] /\ call[p].since[c] \in Nat /\ oldest[c] \in Nat
      BY <1>1, <2>1 DEF CallSound, GrantsTypeOK
    <2> QED
      BY <2>1, <2>2
  <1>6. ASSUME NEW d \in Controllers
        PROVE  /\ scopes[d] \subseteq consent.left[d] \cap call[p].asks
               /\ scopes[d] # {} =>
                    /\ PermitIn(policy, NoUseCase, d, scopes[d], version[d], consent.validity)
                    /\ version[d] >= call[p].since[KeyFor(NoUseCase, d)]
    <2>1. CASE d = c
      BY <1>4, <1>5, <2>1 DEF PermitIn, KeyFor, Active
    <2>2. CASE d # c
      BY <1>1, <1>4, <2>2 DEF CallSound
    <2> QED
      BY <2>1, <2>2
  <1>7. /\ call[p].how = "lookup" => NoUseCase = consent.useCase
        /\ \A k \in Keys : call[p].since[k] <= oldest[k]
    BY <1>1 DEF CallSound
  <1> QED
    BY <1>1, <1>3, <1>6, <1>7 DEF CallSound

LEMMA ReadUseCaseSound ==
    ASSUME GrantsIInv, NEW p \in Calls, ReadUseCasePolicy(p) PROVE CallSound(p)'
  <1> GrantsTypeOK /\ CallSound(p)
    BY DEF GrantsIInv
  <1> DEFINE u == call[p].useCase
             scopes == [c \in Controllers |->
                    IF c \in call[p].todo THEN consent.left[c] \cap call[p].asks ELSE {}]
  <1>1. /\ call[p].phase = "reading" /\ u \in UseCases /\ u # NoUseCase /\ consent # NoConsent
        /\ call[p].since \in [Keys -> Nat]
        /\ policy' = policy /\ oldest' = oldest /\ consent' = consent
    BY CallFields DEF ReadUseCasePolicy, GrantsTypeOK, CallSound, served, MaybeUseCase
  <1>2. CASE call' = [call EXCEPT ![p] = Refused]
    BY <1>2, RefusedSound
  <1>3. CASE call' # [call EXCEPT ![p] = Refused]
    <2> DEFINE version(v) == [c \in Controllers |-> v]
    <2>1. PICK v \in Readable(u) :
            /\ Allows(u, v)
            /\ call' = [call EXCEPT ![p] = Reads(p, call[p].todo, scopes, version(v))]
      BY <1>3 DEF ReadUseCasePolicy
    <2>2. call'[p] = Reads(p, call[p].todo, scopes, version(v))
      BY <2>1 DEF GrantsTypeOK
    <2>3. /\ call'[p].phase = "reading" /\ call'[p].how = call[p].how
          /\ call'[p].useCase = u /\ call'[p].asks = call[p].asks
          /\ call'[p].scopes = scopes /\ call'[p].version = version(v)
          /\ call'[p].since = call[p].since
      BY <2>2 DEF Reads
    <2>4. v \in 1..Len(policy[u]) /\ v >= call[p].since[u]
      <3>1. u \in Keys /\ v \in Nat /\ v \in 1..Len(policy[u]) /\ v >= oldest[u]
        BY <1>1, KeysHave, ReadableTyped
      <3>2. call[p].since[u] <= oldest[u] /\ call[p].since[u] \in Nat /\ oldest[u] \in Nat
        BY <1>1, <3>1 DEF CallSound, GrantsTypeOK
      <3> QED
        BY <3>1, <3>2
    <2>5. \A c \in Controllers :
            scopes[c] \subseteq consent.left[c] \cap call[p].asks /\ version(v)[c] = v
      OBVIOUS
    <2>6. \A c \in Controllers :
            /\ PermitIn(policy, u, c, scopes[c], v, consent.validity)
            /\ v >= call[p].since[KeyFor(u, c)]
      BY <1>1, <2>1, <2>4 DEF PermitIn, KeyFor, Allows, Active
    <2>7. /\ call[p].how = "lookup" => u = consent.useCase
          /\ consent.useCase \in {u, NoUseCase}
          /\ \A k \in Keys : call[p].since[k] <= oldest[k]
      BY <1>1 DEF CallSound
    <2> HIDE DEF scopes, version, u
    <2> QED
      BY <1>1, <2>3, <2>5, <2>6, <2>7 DEF CallSound
  <1> QED
    BY <1>2, <1>3

LEMMA AnswerSound ==
    ASSUME GrantsIInv, NEW p \in Calls, Answer(p) PROVE CallSound(p)'
  <1> GrantsTypeOK /\ CallSound(p)
    BY DEF GrantsIInv
  <1>1. call[p].phase = "reading" /\ policy' = policy /\ oldest' = oldest /\ consent' = consent
    BY DEF Answer, served
  <1>2. CASE call' = [call EXCEPT ![p] = Refused]
    BY <1>2, RefusedSound
  <1>3. CASE call' # [call EXCEPT ![p] = Refused]
    <2>1. call'[p] = Permit(p, call[p].version)
      BY <1>3 DEF Answer, GrantsTypeOK
    <2>2. /\ call'[p].how = call[p].how /\ call'[p].useCase = call[p].useCase
          /\ call'[p].asks = call[p].asks /\ call'[p].scopes = call[p].scopes
          /\ call'[p].version = call[p].version /\ call'[p].since = call[p].since
      BY <2>1 DEF Permit
    <2> QED
      BY <1>1, <2>2 DEF CallSound
  <1> QED
    BY <1>2, <1>3

LEMMA CallStepSound ==
    ASSUME GrantsIInv, NEW p \in Calls, CallStep(p) PROVE GrantsIInv'
  <1>0. GrantsTypeOK /\ GrantsTypeOK'
    BY CallStepTyped DEF GrantsIInv
  <1>1. ASSUME NEW how \in {"id", "lookup"}, NEW u \in MaybeUseCase, NEW at,
               NEW asks \in Asks, Present(p, how, u, at, asks)
        PROVE  GrantsIInv'
    <2>1. PICK s : call' = [call EXCEPT ![p] = s]
      BY <1>1 DEF Present
    <2> QED
      BY <1>0, <1>1, <2>1, PresentSound, OneCallMoves DEF Present
  <1>2. ASSUME NEW c \in Controllers, ReadScopePolicy(p, c) PROVE GrantsIInv'
    <2>1. PICK s : call' = [call EXCEPT ![p] = s]
      BY <1>2 DEF ReadScopePolicy
    <2> QED
      BY <1>0, <1>2, <2>1, ReadScopeSound, OneCallMoves DEF ReadScopePolicy
  <1>3. CASE ReadUseCasePolicy(p)
    <2>1. PICK s : call' = [call EXCEPT ![p] = s]
      BY <1>3 DEF ReadUseCasePolicy
    <2> QED
      BY <1>0, <1>3, <2>1, ReadUseCaseSound, OneCallMoves DEF ReadUseCasePolicy
  <1>4. CASE Answer(p)
    <2>1. PICK s : call' = [call EXCEPT ![p] = s]
      BY <1>4 DEF Answer
    <2> QED
      BY <1>0, <1>4, <2>1, AnswerSound, OneCallMoves DEF Answer
  <1> QED
    BY <1>1, <1>2, <1>3, <1>4 DEF CallStep

LEMMA RestartSound ==
    ASSUME GrantsIInv, NEW role \in BOOLEAN, Restart(role) PROVE GrantsIInv'
  <1>1. /\ GrantsTypeOK /\ GrantsTypeOK' /\ ConsentSound /\ policy' = policy
        /\ oldest' = oldest /\ consent' = consent
    BY RestartTyped DEF GrantsIInv, Restart
  <1>2. request'.phase \notin {"narrowing", "capping"}
    BY DEF Restart, Pending
  <1>3. ConsentSound'
    <2>1. consent # NoConsent => request' = request
      BY <1>1 DEF ConsentSound, Restart
    <2> QED
      BY <1>1, <2>1, NothingPublished, ConsentStays
  <1>4. ASSUME NEW p \in Calls PROVE CallSound(p)'
    BY DEF Restart, CallSound
  <1> QED
    BY <1>1, <1>2, <1>3, <1>4, OtherPhaseSound DEF GrantsIInv

-----------------------------------------------------------------------------
(* The theorems *)

LEMMA InitSound == GrantsInit => GrantsIInv
  BY InitTyped DEF GrantsInit, GrantsIInv, RequestSound, ConsentSound, CallSound

LEMMA StepSound == GrantsIInv /\ [GrantsNext]_grantVars => GrantsIInv'
  <1> SUFFICES ASSUME GrantsIInv, [GrantsNext]_grantVars PROVE GrantsIInv'
    OBVIOUS
  <1>1. CASE UNCHANGED grantVars
    <2>1. GrantsTypeOK /\ GrantsTypeOK' /\ PolicyGrows
      BY <1>1, StepTyped, NothingPublished DEF GrantsIInv, grantVars
    <2> QED
      BY <1>1, <2>1, AllStays DEF grantVars
  <1> QED
    BY <1>1, ExternalSound, RequestStepSound, CallStepSound, RestartSound DEF GrantsNext

LEMMA AlwaysSound == GrantsSpec => []GrantsIInv
  BY InitSound, StepSound, PTL DEF GrantsSpec

\* Scopes are only lost on the way from the request to the answer.
THEOREM NeverBeyondAgreedCorrect == GrantsSpec => []NeverBeyondAgreed
  <1>1. GrantsIInv => NeverBeyondAgreed
    BY DEF GrantsIInv, ConsentSound, CallSound, NeverBeyondAgreed, Permitted
  <1> QED
    BY <1>1, AlwaysSound, PTL

\* Each grant of a consent was allowed by the version recorded with it.
THEOREM GrantsWithinRecordedPolicyCorrect == GrantsSpec => []GrantsWithinRecordedPolicy
  <1>1. GrantsIInv => GrantsWithinRecordedPolicy
    BY DEF GrantsIInv, ConsentSound, GrantIn, GrantsWithinRecordedPolicy, Asking, Active, Current,
           KeyFor
  <1> QED
    BY <1>1, AlwaysSound, PTL

\* Each row of the decision log has a version that allowed what was permitted.
THEOREM PermitsWithinLoggedPolicyCorrect == GrantsSpec => []PermitsWithinLoggedPolicy
  <1>1. ASSUME GrantsIInv, NEW p \in Calls, Permitted(p), NEW c \in Asking(call[p].scopes)
        PROVE  PermitIn(policy, call[p].useCase, c, call[p].scopes[c], call[p].version[c],
                        consent.validity)
    BY <1>1 DEF GrantsIInv, CallSound, Permitted, Asking
  <1>2. GrantsIInv => PermitsWithinLoggedPolicy
    BY <1>1 DEF PermitsWithinLoggedPolicy, PermitIn, KeyFor, Active, Allows, Current
  <1> QED
    BY <1>2, AlwaysSound, PTL

\* A call that begins once the caches have read a change is bound by it.
THEOREM PermitByCurrentPolicyCorrect == GrantsSpec => []PermitByCurrentPolicy
  <1>1. GrantsIInv => PermitByCurrentPolicy
    BY DEF GrantsIInv, CallSound, PermitByCurrentPolicy, Permitted, Asking
  <1> QED
    BY <1>1, AlwaysSound, PTL

\* A lookup finds a consent for the use case it was made for, and no other.
THEOREM UseCaseFoundForItselfCorrect == GrantsSpec => []UseCaseFoundForItself
  <1>1. GrantsIInv => UseCaseFoundForItself
    BY DEF GrantsIInv, CallSound, UseCaseFoundForItself, Permitted
  <1> QED
    BY <1>1, AlwaysSound, PTL

-----------------------------------------------------------------------------
(* Implementation of PolicedScopes. It needs two facts more: a request is      *)
(* approved only with a consent, and what has not been read yet leaves, and    *)
(* permits, nothing.                                                           *)

ApprovedWithConsent == request.phase = "approved" => consent # NoConsent

RequestUnread ==
    request.phase = "narrowing" => \A c \in request.todo : request.left[c] = {}

\* In use-case mode nothing is read before all of it is.
CallUnread(p) ==
    call[p].phase = "reading" => \A c \in Controllers :
        c \in call[p].todo \/ (call[p].useCase # NoUseCase /\ call[p].todo # {})
        => call[p].scopes[c] = {}

UnreadIsNothing ==
    ApprovedWithConsent /\ RequestUnread /\ \A p \in Calls : CallUnread(p)

LEMMA InitUnread == GrantsInit => UnreadIsNothing
  BY DEF GrantsInit, UnreadIsNothing, ApprovedWithConsent, RequestUnread, CallUnread

LEMMA RequestStepUnread ==
    ASSUME GrantsTypeOK, UnreadIsNothing, RequestStep PROVE UnreadIsNothing'
  <1>1. call' = call
    BY DEF RequestStep, AskScopes, CheckGrant, NarrowGrant, AskUseCase, Created,
           CreatedForUseCase, Cap, GiveUp, Approve, ApproveForUseCase, Approved
  <1>2. \A p \in Calls : CallUnread(p)'
    BY <1>1 DEF UnreadIsNothing, CallUnread
  <1>3. ASSUME request'.phase \notin {"approved", "narrowing"} PROVE UnreadIsNothing'
    BY <1>2, <1>3 DEF UnreadIsNothing, ApprovedWithConsent, RequestUnread
  <1>4. ASSUME request'.phase = "narrowing",
               \A c \in request'.todo : request'.left[c] = {}
        PROVE  UnreadIsNothing'
    BY <1>2, <1>4 DEF UnreadIsNothing, ApprovedWithConsent, RequestUnread
  <1>5. ASSUME NEW want \in Requests, AskScopes(want) PROVE UnreadIsNothing'
    BY <1>3, <1>5 DEF AskScopes
  <1>6. ASSUME NEW c \in Controllers, CheckGrant(c) PROVE UnreadIsNothing'
    BY <1>3, <1>6 DEF CheckGrant
  <1>7. ASSUME NEW c \in Controllers, NarrowGrant(c) PROVE UnreadIsNothing'
    <2>1. PICK mine, version :
            request' = Narrowing(request.granted, [request.left EXCEPT ![c] = mine],
                                 version, request.todo \ {c})
      BY <1>7 DEF NarrowGrant
    <2>2. /\ request'.phase = "narrowing" /\ request'.todo = request.todo \ {c}
          /\ request'.left = [request.left EXCEPT ![c] = mine]
      BY <2>1 DEF Narrowing
    <2>3. request.phase = "narrowing" /\ request.left \in ByController
          /\ request.todo \in SUBSET Controllers
      BY <1>7, RequestFields DEF NarrowGrant, GrantsTypeOK
    <2>4. \A d \in request'.todo : request'.left[d] = {}
      BY <2>2, <2>3 DEF UnreadIsNothing, RequestUnread, ByController
    <2> QED
      BY <1>4, <2>2, <2>4
  <1>8. ASSUME NEW u \in UseCases, AskUseCase(u) PROVE UnreadIsNothing'
    BY <1>3, <1>8 DEF AskUseCase
  <1>9. CASE Created \/ CreatedForUseCase
    BY <1>3, <1>9 DEF Created, CreatedForUseCase, Pending
  <1>10. CASE Cap
    <2>1. request'.phase = "narrowing" /\ request'.todo = {}
      BY <1>10 DEF Cap, Narrowing
    <2> QED
      BY <1>4, <2>1
  <1>11. CASE GiveUp
    BY <1>3, <1>11 DEF GiveUp, Pending
  <1>12. ASSUME NEW granted \in ByController, Approve(granted) PROVE UnreadIsNothing'
    <2>1. /\ request'.phase = "narrowing" /\ request'.todo = Asking(granted)
          /\ request'.left = Nothing
      BY <1>12 DEF Approve, Narrowing
    <2> QED
      BY <1>4, <2>1 DEF Asking, Nothing
  <1>13. ASSUME NEW granted \in ByController, ApproveForUseCase(granted) PROVE UnreadIsNothing'
    BY <1>3, <1>13 DEF ApproveForUseCase
  <1>14. ASSUME NEW validity \in Validities, Approved(validity) PROVE UnreadIsNothing'
    <2>1. GrantsTypeOK'
      BY <1>14, RequestStepTyped DEF RequestStep
    <2>2. consent' \in Consent \cup {NoConsent}
      BY <2>1 DEF GrantsTypeOK
    <2>3. request.phase = "narrowing" /\ request \in RequestState
      BY <1>14 DEF Approved, GrantsTypeOK
    <2>4. consent' \in Consent
      BY <1>14, <2>3, RequestFields DEF Approved, Consent
    <2>5. request'.phase = "approved"
      BY <1>14 DEF Approved
    <2> QED
      BY <1>2, <2>4, <2>5, NoConsentAssumption
        DEF UnreadIsNothing, ApprovedWithConsent, RequestUnread
  <1> QED
    BY <1>5, <1>6, <1>7, <1>8, <1>9, <1>10, <1>11, <1>12, <1>13, <1>14 DEF RequestStep

\* A call that is answered, or has read everything, has nothing unread.
LEMMA CallStepUnread ==
    ASSUME GrantsTypeOK, UnreadIsNothing, NEW p \in Calls, CallStep(p) PROVE UnreadIsNothing'
  <1>1. ASSUME UNCHANGED <<request, consent>>, \A q \in Calls : q # p => call'[q] = call[q],
               CallUnread(p)'
        PROVE  UnreadIsNothing'
    <2>1. \A q \in Calls : CallUnread(q)'
      BY <1>1 DEF UnreadIsNothing, CallUnread
    <2> QED
      BY <1>1, <2>1 DEF UnreadIsNothing, ApprovedWithConsent, RequestUnread
  <1>2. ASSUME NEW how \in {"id", "lookup"}, NEW u \in MaybeUseCase, NEW at,
               NEW asks \in Asks, Present(p, how, u, at, asks)
        PROVE  UnreadIsNothing'
    <2>1. /\ UNCHANGED <<request, consent>> /\ \A q \in Calls : q # p => call'[q] = call[q]
          /\ call'[p].phase = "refused" \/ call'[p].scopes = Nothing
      BY <1>2 DEF Present, Refused, GrantsTypeOK
    <2>2. CallUnread(p)'
      BY <2>1 DEF CallUnread, Nothing
    <2> QED
      BY <1>1, <2>1, <2>2
  <1>3. ASSUME NEW c \in Controllers, ReadScopePolicy(p, c) PROVE UnreadIsNothing'
    <2>1. PICK v \in Readable(c) :
            call' = [call EXCEPT ![p] = Reads(p, {c},
                [call[p].scopes EXCEPT ![c] =
                    IF Active(c, v)
                    THEN consent.left[c] \cap policy[c][v].scopes \cap call[p].asks ELSE {}],
                [call[p].version EXCEPT ![c] = v])]
      BY <1>3 DEF ReadScopePolicy
    <2>2. /\ UNCHANGED <<request, consent>> /\ \A q \in Calls : q # p => call'[q] = call[q]
          /\ call'[p].useCase = call[p].useCase /\ call'[p].todo = call[p].todo \ {c}
          /\ \E mine : call'[p].scopes = [call[p].scopes EXCEPT ![c] = mine]
      BY <1>3, <2>1 DEF ReadScopePolicy, Reads, GrantsTypeOK
    <2>3. /\ call[p].phase = "reading" /\ call[p].useCase = NoUseCase
          /\ call[p].scopes \in ByController
      BY <1>3, CallFields DEF ReadScopePolicy, GrantsTypeOK
    <2>4. CallUnread(p)'
      BY <2>2, <2>3 DEF UnreadIsNothing, CallUnread, ByController
    <2> QED
      BY <1>1, <2>2, <2>4
  <1>4. CASE ReadUseCasePolicy(p)
    <2>1. /\ UNCHANGED <<request, consent>> /\ \A q \in Calls : q # p => call'[q] = call[q]
          /\ call'[p].phase = "refused" \/ call'[p].todo = {}
      BY <1>4 DEF ReadUseCasePolicy, Reads, Refused, GrantsTypeOK
    <2>2. CallUnread(p)'
      BY <2>1 DEF CallUnread
    <2> QED
      BY <1>1, <2>1, <2>2
  <1>5. CASE Answer(p)
    <2>1. /\ UNCHANGED <<request, consent>> /\ \A q \in Calls : q # p => call'[q] = call[q]
          /\ call'[p].phase # "reading"
      BY <1>5 DEF Answer, Permit, Refused, GrantsTypeOK
    <2>2. CallUnread(p)'
      BY <2>1 DEF CallUnread
    <2> QED
      BY <1>1, <2>1, <2>2
  <1> QED
    BY <1>2, <1>3, <1>4, <1>5 DEF CallStep

LEMMA UnreadKept ==
    GrantsTypeOK /\ UnreadIsNothing /\ [GrantsNext]_grantVars => UnreadIsNothing'
  <1> SUFFICES ASSUME GrantsTypeOK, UnreadIsNothing, [GrantsNext]_grantVars
               PROVE  UnreadIsNothing'
    OBVIOUS
  <1>1. CASE UNCHANGED <<request, consent, call>>
    BY <1>1 DEF UnreadIsNothing, ApprovedWithConsent, RequestUnread, CallUnread
  <1>2. CASE ExternalStep \/ UNCHANGED grantVars
    BY <1>1, <1>2 DEF ExternalStep, CachesExpire, Publish, PublishUseCase, grantVars
  <1>3. ASSUME NEW role \in BOOLEAN, Restart(role) PROVE UnreadIsNothing'
    <2>1. consent' = consent /\ request'.phase # "narrowing"
          /\ (request'.phase = "approved" => request.phase = "approved")
      BY <1>3 DEF Restart, Pending
    <2>2. \A p \in Calls : CallUnread(p)'
      BY <1>3 DEF Restart, CallUnread
    <2> QED
      BY <2>1, <2>2 DEF UnreadIsNothing, ApprovedWithConsent, RequestUnread
  <1> QED
    BY <1>2, <1>3, RequestStepUnread, CallStepUnread DEF GrantsNext

LEMMA AlwaysUnread == GrantsSpec => [](GrantsIInv /\ UnreadIsNothing)
  <1>1. GrantsIInv /\ UnreadIsNothing /\ [GrantsNext]_grantVars => UnreadIsNothing'
    BY UnreadKept DEF GrantsIInv
  <1> QED
    BY <1>1, InitSound, InitUnread, StepSound, PTL DEF GrantsSpec

-----------------------------------------------------------------------------
(* The steps of ConsentGrants, as one controller sees them. *)

LEMMA WorldKept ==
    ASSUME NEW c \in Controllers, UNCHANGED served PROVE UNCHANGED Policed(c)!world
  BY DEF served, Policed!world

LEMMA GrantKept ==
    ASSUME NEW c \in Controllers, UNCHANGED <<request, consent>>
    PROVE  GrantFor(c)' = GrantFor(c)
  BY DEF GrantFor

LEMMA CallsKept ==
    ASSUME NEW c \in Controllers, UNCHANGED call
    PROVE  [p \in Calls |-> PermitFor(p, c)]' = [p \in Calls |-> PermitFor(p, c)]
  BY DEF PermitFor

LEMMA PolicedBegins ==
    ASSUME GrantsInit, NEW c \in Controllers PROVE Policed(c)!Init
  <1>1. /\ GrantsTypeOK /\ oldest = [k \in Keys |-> 1]
        /\ policy \in [Keys -> {<<first>> : first \in FirstPolicies}]
    BY InitTyped DEF GrantsInit
  <1>2. ASSUME NEW k \in {c} \cup UseCases PROVE Len(policy[k]) = 1 /\ oldest[k] = 1
    <2>1. k \in Keys
      BY DEF Keys
    <2>2. PICK first \in FirstPolicies : policy[k] = <<first>>
      BY <1>1, <2>1
    <2> QED
      BY <1>1, <2>1, <2>2
  <1>3. GrantFor(c) = [phase |-> "none"]
    BY DEF GrantsInit, GrantFor
  <1>4. [p \in Calls |-> PermitFor(p, c)] = [p \in Calls |-> [phase |-> "idle"]]
    BY DEF GrantsInit, PermitFor
  <1> QED
    BY <1>2, <1>3, <1>4 DEF Policed!Init, Policed!Keys

\* Of the policies that change, a controller sees its own and those for use cases.
LEMMA WorldSteps ==
    ASSUME GrantsTypeOK, ExternalStep, NEW c \in Controllers
    PROVE  UNCHANGED Policed(c)!vars \/ Policed(c)!Next
  <1> DEFINE mine == {c} \cup UseCases
  <1>1. /\ UNCHANGED <<request, consent, call>>
        /\ policy \in [Keys -> Seq(Policies \cup {NoPolicy})] /\ mine \subseteq Keys
        /\ oldest \in [Keys -> Nat] /\ offer \in [UseCases -> Offers]
    BY DEF ExternalStep, CachesExpire, Publish, PublishUseCase, GrantsTypeOK, Keys
  <1>2. /\ GrantFor(c)' = GrantFor(c)
        /\ [p \in Calls |-> PermitFor(p, c)]' = [p \in Calls |-> PermitFor(p, c)]
    BY <1>1, GrantKept, CallsKept
  <1>3. ASSUME Policed(c)!WorldStep PROVE Policed(c)!Next
    BY <1>2, <1>3 DEF Policed!Next
  <1>4. ASSUME UNCHANGED Policed(c)!world PROVE UNCHANGED Policed(c)!vars
    BY <1>2, <1>4 DEF Policed!vars
  <1>5. ASSUME NEW k \in Keys, NEW new \in Policies \cup {NoPolicy}, Publish(k, new)
        PROVE  UNCHANGED Policed(c)!vars \/ Policed(c)!Next
    <2>1. UNCHANGED <<oldest, offer>> /\ policy' = [policy EXCEPT ![k] = Append(policy[k], new)]
      BY <1>5 DEF Publish
    <2>2. CASE k \in mine
      <3>1. [j \in mine |-> policy'[j]]
              = [[j \in mine |-> policy[j]] EXCEPT ![k] = Append(policy[k], new)]
        BY <1>1, <2>1, <2>2
      <3>2. Policed(c)!Publish(k)
        BY <2>1, <2>2, <3>1 DEF Policed!Publish
      <3> QED
        BY <1>3, <2>2, <3>2 DEF Policed!WorldStep, Policed!Keys
    <2>3. CASE k \notin mine
      <3>1. [j \in mine |-> policy'[j]] = [j \in mine |-> policy[j]]
        BY <1>1, <2>1, <2>3
      <3> QED
        BY <1>4, <2>1, <3>1 DEF Policed!world
    <2> QED
      BY <2>2, <2>3
  <1>6. ASSUME NEW k \in Keys, CachesExpire(k)
        PROVE  UNCHANGED Policed(c)!vars \/ Policed(c)!Next
    <2>1. PICK v \in Readable(k) : oldest' = [oldest EXCEPT ![k] = v]
      BY <1>6 DEF CachesExpire
    <2>2. UNCHANGED <<policy, offer>>
      BY <1>6 DEF CachesExpire
    <2>3. CASE k \in mine
      <3>1. [j \in mine |-> oldest'[j]] = [[j \in mine |-> oldest[j]] EXCEPT ![k] = v]
        BY <1>1, <2>1, <2>3
      <3>2. v \in Policed(c)!Readable(k)
        BY <2>3 DEF Readable, Current, Policed!Readable
      <3>3. Policed(c)!Forget(k)
        BY <2>2, <3>1, <3>2 DEF Policed!Forget
      <3> QED
        BY <1>3, <2>3, <3>3 DEF Policed!WorldStep, Policed!Keys
    <2>4. CASE k \notin mine
      <3>1. [j \in mine |-> oldest'[j]] = [j \in mine |-> oldest[j]]
        BY <1>1, <2>1, <2>4
      <3> QED
        BY <1>4, <2>2, <3>1 DEF Policed!world
    <2> QED
      BY <2>3, <2>4
  <1>7. ASSUME NEW u \in UseCases, NEW new \in Offers, PublishUseCase(u, new)
        PROVE  Policed(c)!Next
    <2>1. UNCHANGED <<policy, oldest>> /\ offer' = [offer EXCEPT ![u] = new]
      BY <1>7 DEF PublishUseCase
    <2>2. [w \in UseCases |-> offer'[w][c]] = [[w \in UseCases |-> offer[w][c]] EXCEPT ![u] = new[c]]
      BY <1>1, <2>1
    <2>3. new[c] \in SUBSET Scopes
      BY GrantsAssumption DEF ByController
    <2>4. Policed(c)!Redefine(u)
      BY <2>1, <2>2, <2>3 DEF Policed!Redefine
    <2> QED
      BY <1>3, <2>4 DEF Policed!WorldStep
  <1> QED
    BY <1>5, <1>6, <1>7 DEF ExternalStep

\* What a controller sees of a request in each of its phases.
LEMMA GrantShown ==
    ASSUME NEW c \in Controllers
    PROVE  /\ request.phase \in {"none", "checking", "naming"} =>
                GrantFor(c) = [phase |-> "none"]
           /\ request.phase = "pending" \/ (request.phase = "narrowing" /\ request.left[c] = {})
                => GrantFor(c) = [phase |-> "asked", want |-> request.want[c],
                                  useCase |-> request.useCase]
           /\ request.phase = "narrowing" /\ request.left[c] # {} =>
                GrantFor(c) = [phase |-> "decided", want |-> request.want[c],
                               useCase |-> request.useCase, granted |-> request.granted[c],
                               left |-> request.left[c], version |-> request.version[c]]
           /\ request.phase = "capping" =>
                GrantFor(c) = [phase |-> "allowed", want |-> request.want[c],
                               useCase |-> request.useCase, granted |-> request.granted[c],
                               version |-> request.read]
  BY DEF GrantFor

\* The policy for the controller is read, and decides if it leaves anything.
LEMMA NarrowSteps ==
    ASSUME GrantsIInv, UnreadIsNothing, NEW c \in Controllers, NarrowGrant(c)
    PROVE  GrantFor(c)' = GrantFor(c) \/ Policed(c)!Decide
  <1>1. PICK v \in Readable(c) :
          request' = Narrowing(request.granted,
            [request.left EXCEPT ![c] =
               IF Active(c, v) THEN request.granted[c] \cap policy[c][v].scopes ELSE {}],
            [request.version EXCEPT ![c] = v], request.todo \ {c})
    BY DEF NarrowGrant
  <1> DEFINE mine == IF Active(c, v) THEN request.granted[c] \cap policy[c][v].scopes ELSE {}
  <1>2. /\ request.phase = "narrowing" /\ c \in request.todo
        /\ request.left \in ByController /\ request.version \in [Controllers -> Nat]
    BY RequestFields DEF NarrowGrant, GrantsIInv, GrantsTypeOK
  <1>3. /\ request'.phase = "narrowing" /\ request'.want = request.want
        /\ request'.useCase = request.useCase /\ request'.granted = request.granted
        /\ request'.left[c] = mine /\ request'.version[c] = v
    BY <1>1, <1>2 DEF Narrowing, ByController
  <1>4. request.useCase = NoUseCase /\ request.granted[c] \subseteq request.want[c]
        /\ request.left[c] = {}
    BY <1>2 DEF GrantsIInv, RequestSound, UnreadIsNothing, RequestUnread
  <1>5. GrantFor(c) = [phase |-> "asked", want |-> request.want[c], useCase |-> NoUseCase]
    BY <1>2, <1>4, GrantShown
  <1>6. CASE mine = {}
    <2>1. GrantFor(c)' = [phase |-> "asked", want |-> request.want[c], useCase |-> NoUseCase]
      BY <1>3, <1>4, <1>6 DEF GrantFor
    <2> QED
      BY <1>5, <2>1
  <1>7. CASE mine # {}
    <2>1. policy[c][v] # NoPolicy /\ mine = request.granted[c] \cap policy[c][v].scopes
      BY <1>7 DEF Active
    <2> HIDE DEF mine
    <2>2. GrantFor(c)' = [phase |-> "decided", want |-> request.want[c], useCase |-> NoUseCase,
                          granted |-> request.granted[c], left |-> mine, version |-> v]
      BY <1>3, <1>4, <1>7 DEF GrantFor
    <2>3. v \in Policed(c)!Readable(c)
      BY DEF Readable, Current, Policed!Readable
    <2>4. /\ GrantFor(c).phase = "asked" /\ GrantFor(c).want = request.want[c]
          /\ GrantFor(c).useCase = NoUseCase
      BY <1>5
    <2>5. [k \in {c} \cup UseCases |-> policy[k]][c] = policy[c]
      OBVIOUS
    <2>6. request.granted[c] \in SUBSET GrantFor(c).want
      BY <1>4, <2>4
    <2> QED
      BY <2>1, <2>2, <2>3, <2>4, <2>5, <2>6 DEF Policed!Decide, Policed!Decided
  <1> QED
    BY <1>6, <1>7

\* What the policy for another controller decides is not seen.
LEMMA NarrowsAnother ==
    ASSUME GrantsIInv, NEW c \in Controllers, NEW d \in Controllers, c # d, NarrowGrant(d)
    PROVE  GrantFor(c)' = GrantFor(c)
  <1>1. PICK v \in Readable(d) :
          request' = Narrowing(request.granted,
            [request.left EXCEPT ![d] =
               IF Active(d, v) THEN request.granted[d] \cap policy[d][v].scopes ELSE {}],
            [request.version EXCEPT ![d] = v], request.todo \ {d})
    BY DEF NarrowGrant
  <1>2. request.phase = "narrowing" /\ request.left \in ByController
        /\ request.version \in [Controllers -> Nat]
    BY RequestFields DEF NarrowGrant, GrantsIInv, GrantsTypeOK
  <1>3. /\ request'.phase = "narrowing" /\ request'.want = request.want
        /\ request'.useCase = request.useCase /\ request'.granted = request.granted
        /\ request'.left[c] = request.left[c] /\ request'.version[c] = request.version[c]
    BY <1>1, <1>2 DEF Narrowing, ByController
  <1> QED
    BY <1>2, <1>3 DEF GrantFor

LEMMA AllowSteps ==
    ASSUME GrantsIInv, NEW c \in Controllers, NEW granted \in ByController,
           request.phase = "pending", granted \in Grantable(request.want),
           ApproveForUseCase(granted)
    PROVE  Policed(c)!Allow
  <1>1. request.useCase # NoUseCase /\ request.useCase \in UseCases
        /\ request.want \in ByController
    BY RequestFields DEF ApproveForUseCase, GrantsIInv, GrantsTypeOK, MaybeUseCase
  <1>2. granted[c] \subseteq request.want[c]
    BY <1>1, GrantableRequested
  <1>3. GrantFor(c) = [phase |-> "asked", want |-> request.want[c], useCase |-> request.useCase]
    BY GrantShown
  <1>4. PICK v \in Readable(request.useCase) :
          /\ Active(request.useCase, v)
          /\ request' = [phase |-> "capping", want |-> request.want,
                         useCase |-> request.useCase, granted |-> granted, read |-> v]
    BY DEF ApproveForUseCase
  <1>5. GrantFor(c)' = [phase |-> "allowed", want |-> request.want[c],
                        useCase |-> request.useCase, granted |-> granted[c], version |-> v]
    BY <1>4 DEF GrantFor
  <1>6. v \in Policed(c)!Readable(request.useCase)
    BY <1>1 DEF Readable, Current, Policed!Readable
  <1>7. /\ GrantFor(c).phase = "asked" /\ GrantFor(c).want = request.want[c]
        /\ GrantFor(c).useCase = request.useCase
    BY <1>3
  <1>8. [k \in {c} \cup UseCases |-> policy[k]][request.useCase][v] # NoPolicy
    BY <1>1, <1>4 DEF Active
  <1>9. granted[c] \in SUBSET GrantFor(c).want
    BY <1>2, <1>7
  <1> QED
    BY <1>1, <1>5, <1>6, <1>7, <1>8, <1>9 DEF Policed!Allow

\* A controller of which nothing is left has its scopes asked for again.
LEMMA CapSteps ==
    ASSUME GrantsIInv, NEW c \in Controllers, Cap
    PROVE  Policed(c)!Cut \/ Policed(c)!Reopen
  <1> DEFINE left == [d \in Controllers |-> request.granted[d] \cap offer[request.useCase][d]]
             version == [d \in Controllers |-> request.read]
  <1>1. /\ request.phase = "capping" /\ request.useCase \in UseCases
        /\ request' = Narrowing(request.granted, left, version, {})
    BY RequestFields DEF Cap, GrantsIInv, GrantsTypeOK
  <1>2. left[c] = request.granted[c] \cap offer[request.useCase][c]
        /\ version[c] = request.read
    OBVIOUS
  <1> HIDE DEF left, version
  <1>3. /\ request'.phase = "narrowing" /\ request'.want = request.want
        /\ request'.useCase = request.useCase /\ request'.granted = request.granted
        /\ request'.left = left /\ request'.version = version
    BY <1>1 DEF Narrowing
  <1>4. GrantFor(c) = [phase |-> "allowed", want |-> request.want[c],
                       useCase |-> request.useCase, granted |-> request.granted[c],
                       version |-> request.read]
    BY <1>1, GrantShown
  <1>5. CASE left[c] = {}
    <2>1. GrantFor(c)' = [phase |-> "asked", want |-> request.want[c],
                          useCase |-> request.useCase]
      BY <1>3, <1>5 DEF GrantFor
    <2> QED
      BY <1>4, <2>1 DEF Policed!Reopen, Policed!Asked
  <1>6. CASE left[c] # {}
    <2>1. GrantFor(c)' = [phase |-> "decided", want |-> request.want[c],
                          useCase |-> request.useCase, granted |-> request.granted[c],
                          left |-> left[c], version |-> version[c]]
      BY <1>3, <1>6 DEF GrantFor
    <2>2. /\ GrantFor(c).phase = "allowed" /\ GrantFor(c).want = request.want[c]
          /\ GrantFor(c).useCase = request.useCase
          /\ GrantFor(c).granted = request.granted[c] /\ GrantFor(c).version = version[c]
      BY <1>2, <1>4
    <2>3. left[c] = GrantFor(c).granted
                      \cap [u \in UseCases |-> offer[u][c]][GrantFor(c).useCase]
      BY <1>1, <1>2, <2>2
    <2> QED
      BY <2>1, <2>2, <2>3 DEF Policed!Cut, Policed!Decided
  <1> QED
    BY <1>5, <1>6

LEMMA GiveSteps ==
    ASSUME GrantsIInv, NEW c \in Controllers, NEW validity \in Validities, Approved(validity)
    PROVE  Policed(c)!Give \/ Policed(c)!GiveNothing
  <1>1. /\ request.phase = "narrowing" /\ request'.phase = "approved"
        /\ request'.want = request.want
        /\ consent'.useCase = request.useCase /\ consent'.granted = request.granted
        /\ consent'.left = request.left /\ consent'.version = request.version
        /\ consent'.validity = validity
    BY DEF Approved
  <1>2. CASE request.left[c] = {}
    <2>1. GrantFor(c) = [phase |-> "asked", want |-> request.want[c],
                         useCase |-> request.useCase]
      BY <1>1, <1>2, GrantShown
    <2>2. GrantFor(c)' = [phase |-> "refused"]
      BY <1>1, <1>2 DEF GrantFor
    <2> QED
      BY <2>1, <2>2 DEF Policed!GiveNothing
  <1>3. CASE request.left[c] # {}
    <2>1. GrantFor(c) = [phase |-> "decided", want |-> request.want[c],
                         useCase |-> request.useCase, granted |-> request.granted[c],
                         left |-> request.left[c], version |-> request.version[c]]
      BY <1>1, <1>3, GrantShown
    <2>2. GrantFor(c)' = [phase |-> "given", want |-> request.want[c],
                          useCase |-> request.useCase, granted |-> request.granted[c],
                          left |-> request.left[c], version |-> request.version[c],
                          validity |-> validity]
      BY <1>1, <1>3 DEF GrantFor
    <2> QED
      BY <1>3, <2>1, <2>2 DEF Policed!Give
  <1> QED
    BY <1>2, <1>3

\* What is not approved yet may be dropped.
LEMMA ReopenSteps ==
    ASSUME GrantsIInv, NEW c \in Controllers, UNCHANGED consent,
           \/ GiveUp
           \/ \E role \in BOOLEAN : Restart(role)
    PROVE  Policed(c)!Reopen
  <1>0. request \in RequestState
    BY DEF GrantsIInv, GrantsTypeOK
  <1>1. CASE request.phase \in {"none", "checking", "naming"}
    <2>1. request'.phase = "none"
      BY <1>1 DEF GiveUp, Restart
    <2>2. GrantFor(c) = [phase |-> "none"] /\ GrantFor(c)' = [phase |-> "none"]
      BY <1>1, <2>1, GrantShown DEF GrantFor
    <2> QED
      BY <2>2 DEF Policed!Reopen
  <1>2. CASE request.phase \in {"narrowing", "capping"}
    <2>1. request' = Pending(request.want, request.useCase)
      BY <1>2 DEF GiveUp, Restart
    <2>2. GrantFor(c)' = [phase |-> "asked", want |-> request.want[c],
                          useCase |-> request.useCase]
      BY <2>1 DEF GrantFor, Pending
    <2>3. GrantFor(c).want = request.want[c] /\ GrantFor(c).useCase = request.useCase
      BY <1>2, GrantShown
    <2>4. GrantFor(c) = [phase |-> "asked", want |-> request.want[c],
                         useCase |-> request.useCase]
          \/ GrantFor(c).phase \in {"allowed", "decided"}
      BY <1>2, GrantShown
    <2> QED
      BY <2>2, <2>3, <2>4 DEF Policed!Reopen, Policed!Asked
  <1>3. CASE request.phase \in {"pending", "approved"}
    <2>1. request' = request
      BY <1>3 DEF GiveUp, Restart
    <2>2. GrantFor(c)' = GrantFor(c)
      BY <2>1, GrantKept
    <2>3. GrantFor(c).phase \notin {"allowed", "decided"}
      BY <1>3 DEF GrantFor
    <2> QED
      BY <2>2, <2>3 DEF Policed!Reopen
  <1> QED
    BY <1>0, <1>1, <1>2, <1>3 DEF RequestState

LEMMA RequestSteps ==
    ASSUME GrantsIInv, UnreadIsNothing, RequestStep, NEW c \in Controllers
    PROVE  UNCHANGED Policed(c)!vars \/ Policed(c)!Next
  <1>0. UNCHANGED served /\ UNCHANGED call /\ request \in RequestState
    BY DEF RequestStep, AskScopes, CheckGrant, NarrowGrant, AskUseCase, Created,
           CreatedForUseCase, Cap, GiveUp, Approve, ApproveForUseCase, Approved,
           GrantsIInv, GrantsTypeOK
  <1>1. /\ UNCHANGED Policed(c)!world
        /\ [p \in Calls |-> PermitFor(p, c)]' = [p \in Calls |-> PermitFor(p, c)]
    BY <1>0, WorldKept, CallsKept
  <1>2. ASSUME Policed(c)!GrantStep PROVE Policed(c)!Next
    BY <1>1, <1>2 DEF Policed!Next
  <1>3. ASSUME GrantFor(c)' = GrantFor(c) PROVE UNCHANGED Policed(c)!vars
    BY <1>1, <1>3 DEF Policed!vars
  <1>4. ASSUME request.phase \in {"none", "checking", "naming"},
               request'.phase \in {"none", "checking", "naming"}
        PROVE  UNCHANGED Policed(c)!vars
    <2>1. GrantFor(c) = [phase |-> "none"] /\ GrantFor(c)' = [phase |-> "none"]
      BY <1>4, GrantShown DEF GrantFor
    <2> QED
      BY <1>3, <2>1
  <1>5. ASSUME NEW want \in Requests, AskScopes(want) PROVE UNCHANGED Policed(c)!vars
    BY <1>4, <1>5 DEF AskScopes
  <1>6. ASSUME NEW d \in Controllers, CheckGrant(d) PROVE UNCHANGED Policed(c)!vars
    BY <1>4, <1>6 DEF CheckGrant
  <1>7. ASSUME NEW d \in Controllers, NarrowGrant(d)
        PROVE  UNCHANGED Policed(c)!vars \/ Policed(c)!Next
    BY <1>2, <1>3, <1>7, NarrowSteps, NarrowsAnother DEF Policed!GrantStep
  <1>8. ASSUME NEW u \in UseCases, AskUseCase(u) PROVE UNCHANGED Policed(c)!vars
    BY <1>4, <1>8 DEF AskUseCase
  <1>9. CASE Created
    <2>1. request.phase = "checking" /\ request.want \in ByController
          /\ request' = Pending(request.want, NoUseCase)
      BY <1>0, <1>9, RequestFields DEF Created
    <2>2. GrantFor(c).phase = "none"
      BY <2>1, GrantShown
    <2>3. GrantFor(c)' = [phase |-> "asked", want |-> request.want[c], useCase |-> NoUseCase]
      BY <2>1 DEF GrantFor, Pending
    <2>4. request.want[c] \in SUBSET Scopes
      BY <2>1 DEF ByController
    <2>5. \E want \in SUBSET Scopes :
            GrantFor(c)' = [phase |-> "asked", want |-> want, useCase |-> NoUseCase]
      BY <2>3, <2>4
    <2>6. Policed(c)!Ask
      BY <2>2, <2>5, Zenon DEF Policed!Ask, Policed!Asked
    <2> QED
      BY <1>2, <2>6 DEF Policed!GrantStep
  <1>10. CASE CreatedForUseCase
    <2>1. /\ request.phase = "naming" /\ request.useCase \in UseCases
          /\ request' = Pending(offer[request.useCase], request.useCase)
      BY <1>0, <1>10, RequestFields DEF CreatedForUseCase
    <2>2. GrantFor(c) = [phase |-> "none"]
      BY <2>1, GrantShown
    <2>3. GrantFor(c)' = [phase |-> "asked", want |-> offer[request.useCase][c],
                          useCase |-> request.useCase]
      BY <2>1 DEF GrantFor, Pending
    <2> DEFINE needs == [w \in UseCases |-> offer[w][c]]
    <2>4. \E u \in UseCases :
            GrantFor(c)' = [phase |-> "asked", want |-> needs[u], useCase |-> u]
      <3>1. needs[request.useCase] = offer[request.useCase][c]
        BY <2>1
      <3> HIDE DEF needs
      <3> QED
        BY <2>1, <2>3, <3>1
    <2>5. Policed(c)!Ask
      BY <2>2, <2>4 DEF Policed!Ask, Policed!Asked
    <2> QED
      BY <1>2, <2>5 DEF Policed!GrantStep
  <1>11. CASE Cap
    BY <1>2, <1>11, CapSteps DEF Policed!GrantStep
  <1>12. CASE GiveUp
    BY <1>2, <1>12, ReopenSteps DEF Policed!GrantStep, GiveUp
  <1>13. ASSUME NEW granted \in ByController, Approve(granted)
         PROVE  UNCHANGED Policed(c)!vars
    <2>1. /\ request.phase = "pending" /\ request'.phase = "narrowing"
          /\ request'.left[c] = {} /\ request'.want = request.want
          /\ request'.useCase = request.useCase
      BY <1>13 DEF Approve, Narrowing, Nothing
    <2>2. GrantFor(c) = [phase |-> "asked", want |-> request.want[c],
                         useCase |-> request.useCase]
      BY <2>1, GrantShown
    <2>3. GrantFor(c)' = [phase |-> "asked", want |-> request.want[c],
                          useCase |-> request.useCase]
      BY <2>1 DEF GrantFor
    <2> QED
      BY <1>3, <2>2, <2>3
  <1>14. ASSUME NEW granted \in ByController, request.phase = "pending",
                granted \in Grantable(request.want), ApproveForUseCase(granted)
         PROVE  Policed(c)!Next
    BY <1>2, <1>14, AllowSteps DEF Policed!GrantStep
  <1>15. ASSUME NEW validity \in Validities, Approved(validity) PROVE Policed(c)!Next
    BY <1>2, <1>15, GiveSteps DEF Policed!GrantStep
  <1> QED
    BY <1>5, <1>6, <1>7, <1>8, <1>9, <1>10, <1>11, <1>12, <1>13, <1>14, <1>15 DEF RequestStep

\* What a controller sees of a call.
LEMMA PermitShown ==
    ASSUME NEW p \in Calls, NEW c \in Controllers
    PROVE  /\ call[p].phase \in {"idle", "refused"} =>
                PermitFor(p, c) = [phase |-> call[p].phase]
           /\ call[p].phase = "reading" /\ call[p].scopes[c] = {} =>
                PermitFor(p, c) = [phase |-> "asked", useCase |-> call[p].useCase,
                                   asks |-> call[p].asks]
           /\ call[p].phase = "reading" /\ call[p].scopes[c] # {} =>
                PermitFor(p, c) = [phase |-> "decided", useCase |-> call[p].useCase,
                                   asks |-> call[p].asks, scopes |-> call[p].scopes[c],
                                   version |-> call[p].version[c]]
  BY DEF PermitFor

\* A consent that leaves the controller scopes was given.
LEMMA GivenShown ==
    ASSUME GrantsIInv, NEW c \in Controllers, consent # NoConsent, consent.left[c] # {}
    PROVE  /\ GrantFor(c).phase = "given" /\ GrantFor(c).left = consent.left[c]
           /\ GrantFor(c).useCase = consent.useCase
           /\ GrantFor(c).validity = consent.validity
  BY DEF GrantsIInv, ConsentSound, GrantFor

\* The other calls are not seen to move.
LEMMA OneCallSteps ==
    ASSUME GrantsTypeOK, UNCHANGED <<served, request, consent>>, NEW c \in Controllers,
           NEW p \in Calls, \A q \in Calls : q # p => call'[q] = call[q]
    PROVE  /\ [q \in Calls |-> PermitFor(q, c)]'
                = [[q \in Calls |-> PermitFor(q, c)] EXCEPT ![p] = PermitFor(p, c)']
           /\ UNCHANGED Policed(c)!world /\ GrantFor(c)' = GrantFor(c)
           /\ PermitFor(p, c)' = PermitFor(p, c) => UNCHANGED Policed(c)!vars
           /\ Policed(c)!CallStep(p) => Policed(c)!Next
  <1>1. \A q \in Calls : q # p => PermitFor(q, c)' = PermitFor(q, c)
    BY DEF PermitFor
  <1>2. [q \in Calls |-> PermitFor(q, c)]'
          = [[q \in Calls |-> PermitFor(q, c)] EXCEPT ![p] = PermitFor(p, c)']
    BY <1>1
  <1>3. UNCHANGED Policed(c)!world /\ GrantFor(c)' = GrantFor(c)
    BY WorldKept, GrantKept
  <1>4. ASSUME PermitFor(p, c)' = PermitFor(p, c) PROVE UNCHANGED Policed(c)!vars
    <2>1. [q \in Calls |-> PermitFor(q, c)]' = [q \in Calls |-> PermitFor(q, c)]
      BY <1>1, <1>4
    <2> QED
      BY <1>3, <2>1 DEF Policed!vars
  <1>5. ASSUME Policed(c)!CallStep(p) PROVE Policed(c)!Next
    BY <1>3, <1>5 DEF Policed!Next
  <1> QED
    BY <1>2, <1>3, <1>4, <1>5

LEMMA PresentSteps ==
    ASSUME GrantsTypeOK, NEW c \in Controllers, NEW p \in Calls, NEW how, NEW at,
           NEW u \in MaybeUseCase, NEW asks \in Asks, Present(p, how, u, at, asks)
    PROVE  Policed(c)!CallStep(p)
  <1>1. /\ UNCHANGED <<served, request, consent>> /\ call[p].phase = "idle"
        /\ \A q \in Calls : q # p => call'[q] = call[q]
    BY DEF Present, GrantsTypeOK
  <1>2. [q \in Calls |-> PermitFor(q, c)]'
          = [[q \in Calls |-> PermitFor(q, c)] EXCEPT ![p] = PermitFor(p, c)']
    BY <1>1, OneCallSteps
  <1>3. PermitFor(p, c).phase = "idle"
    BY <1>1, PermitShown
  <1>4. CASE call'[p] = Refused
    <2>1. PermitFor(p, c)' = [phase |-> "refused"]
      BY <1>4 DEF PermitFor, Refused
    <2> QED
      BY <1>2, <1>3, <2>1 DEF Policed!CallStep, Policed!Refuse, Policed!Moves
  <1>5. CASE call'[p] # Refused
    <2>1. /\ call'[p].phase = "reading" /\ call'[p].useCase = u /\ call'[p].asks = asks
          /\ call'[p].scopes[c] = {}
      BY <1>5 DEF Present, Nothing, GrantsTypeOK
    <2>2. PermitFor(p, c)' = [phase |-> "asked", useCase |-> u, asks |-> asks]
      BY <2>1 DEF PermitFor
    <2>3. u \in UseCases \cup {NoUseCase} /\ asks \in SUBSET Scopes
      BY GrantsAssumption DEF MaybeUseCase
    <2>4. Policed(c)!Present(p)
      BY <1>2, <1>3, <2>2, <2>3 DEF Policed!Present, Policed!Moves
    <2> QED
      BY <2>4 DEF Policed!CallStep
  <1> QED
    BY <1>4, <1>5

\* The controller's policy is read, and decides if it permits anything.
LEMMA ReadScopeSteps ==
    ASSUME GrantsIInv, UnreadIsNothing, NEW c \in Controllers, NEW p \in Calls,
           ReadScopePolicy(p, c)
    PROVE  PermitFor(p, c)' = PermitFor(p, c) \/ Policed(c)!Judge(p)
  <1> GrantsTypeOK /\ CallSound(p)
    BY DEF GrantsIInv
  <1>1. PICK v \in Readable(c), scopes \in ByController, version \in [Controllers -> Nat] :
          ReadMove(p, c, v, scopes, version)
    BY ReadScopeMoves
  <1>2. /\ UNCHANGED <<served, request, consent>> /\ call[p].phase = "reading"
        /\ call[p].useCase = NoUseCase /\ c \in call[p].todo /\ consent # NoConsent
        /\ call[p].scopes \in ByController /\ call[p].version \in [Controllers -> Nat]
    BY CallFields DEF ReadScopePolicy, GrantsTypeOK, CallSound
  <1> DEFINE mine == IF Active(c, v)
                     THEN consent.left[c] \cap policy[c][v].scopes \cap call[p].asks ELSE {}
  <1>3. /\ call'[p].phase = "reading" /\ call'[p].useCase = NoUseCase
        /\ call'[p].asks = call[p].asks
        /\ call'[p].scopes[c] = mine /\ call'[p].version[c] = v
        /\ \A q \in Calls : q # p => call'[q] = call[q]
    BY <1>1, <1>2 DEF ReadMove, Reads, ByController, GrantsTypeOK
  <1>4. [q \in Calls |-> PermitFor(q, c)]'
          = [[q \in Calls |-> PermitFor(q, c)] EXCEPT ![p] = PermitFor(p, c)']
    BY <1>2, <1>3, OneCallSteps
  <1>5. PermitFor(p, c) = [phase |-> "asked", useCase |-> NoUseCase, asks |-> call[p].asks]
    BY <1>2, PermitShown DEF UnreadIsNothing, CallUnread
  <1>6. CASE mine = {}
    <2>1. PermitFor(p, c)' = [phase |-> "asked", useCase |-> NoUseCase, asks |-> call[p].asks]
      BY <1>3, <1>6 DEF PermitFor
    <2> QED
      BY <1>5, <2>1
  <1>7. CASE mine # {}
    <2>1. /\ policy[c][v] # NoPolicy /\ consent.left[c] # {}
          /\ mine = consent.left[c] \cap policy[c][v].scopes \cap call[p].asks
      BY <1>7 DEF Active
    <2> HIDE DEF mine
    <2>2. PermitFor(p, c)' = [phase |-> "decided", useCase |-> NoUseCase,
                              asks |-> call[p].asks, scopes |-> mine, version |-> v]
      BY <1>3, <1>7 DEF PermitFor
    <2>3. v \in Policed(c)!Readable(c) /\ [k \in {c} \cup UseCases |-> policy[k]][c] = policy[c]
      BY DEF Readable, Current, Policed!Readable
    <2>4. GrantFor(c).phase = "given" /\ GrantFor(c).left = consent.left[c]
      BY <1>2, <2>1, GivenShown
    <2>5. /\ PermitFor(p, c).phase = "asked" /\ PermitFor(p, c).useCase = NoUseCase
          /\ PermitFor(p, c).asks = call[p].asks
      BY <1>5
    <2>6. [q \in Calls |-> PermitFor(q, c)][p] = PermitFor(p, c)
      OBVIOUS
    <2>7. Policed(c)!Judged(p, "decided", mine, v)
            = [phase |-> "decided", useCase |-> NoUseCase, asks |-> call[p].asks,
               scopes |-> mine, version |-> v]
      BY <2>5, <2>6 DEF Policed!Judged
    <2>8. Policed(c)!Moves(p, Policed(c)!Judged(p, "decided", mine, v))
      BY <1>4, <2>2, <2>7 DEF Policed!Moves
    <2>9. mine = GrantFor(c).left \cap [k \in {c} \cup UseCases |-> policy[k]][c][v].scopes
                   \cap [q \in Calls |-> PermitFor(q, c)][p].asks
      BY <2>1, <2>3, <2>4, <2>5, <2>6
    <2> QED
      BY <2>1, <2>3, <2>4, <2>5, <2>6, <2>8, <2>9 DEF Policed!Judge
  <1> QED
    BY <1>6, <1>7

\* What is read of another controller's policy is not seen.
LEMMA ReadsAnother ==
    ASSUME GrantsTypeOK, NEW c \in Controllers, NEW d \in Controllers, c # d,
           NEW p \in Calls, ReadScopePolicy(p, d)
    PROVE  PermitFor(p, c)' = PermitFor(p, c)
  <1>1. PICK v \in Readable(d), scopes \in ByController, version \in [Controllers -> Nat] :
          ReadMove(p, d, v, scopes, version)
    BY ReadScopeMoves
  <1>2. /\ call[p].phase = "reading" /\ call[p].scopes \in ByController
        /\ call[p].version \in [Controllers -> Nat]
    BY CallFields DEF ReadScopePolicy, GrantsTypeOK
  <1>3. scopes[c] = call[p].scopes[c] /\ version[c] = call[p].version[c]
    BY <1>1, <1>2 DEF ReadMove, ByController
  <1>4. /\ call'[p].phase = "reading" /\ call'[p].useCase = call[p].useCase
        /\ call'[p].asks = call[p].asks
        /\ call'[p].scopes[c] = call[p].scopes[c] /\ call'[p].version[c] = call[p].version[c]
    BY <1>1, <1>3 DEF ReadMove, Reads, GrantsTypeOK
  <1> QED
    BY <1>2, <1>4 DEF PermitFor

\* The policy for the use case decides of every controller at once.
LEMMA ReadUseCaseSteps ==
    ASSUME GrantsIInv, UnreadIsNothing, NEW c \in Controllers, NEW p \in Calls,
           ReadUseCasePolicy(p)
    PROVE  \/ PermitFor(p, c)' = PermitFor(p, c)
           \/ Policed(c)!JudgeUseCase(p)
           \/ Policed(c)!Refuse(p)
  <1> GrantsTypeOK /\ CallSound(p)
    BY DEF GrantsIInv
  <1> DEFINE u == call[p].useCase
  <1>1. /\ UNCHANGED <<served, request, consent>> /\ call[p].phase = "reading"
        /\ u \in UseCases /\ u # NoUseCase /\ call[p].todo # {} /\ consent # NoConsent
        /\ consent.useCase \in {u, NoUseCase}
        /\ \A q \in Calls : q # p => call'[q] = call[q]
    BY CallFields DEF ReadUseCasePolicy, GrantsTypeOK, CallSound, MaybeUseCase
  <1>2. [q \in Calls |-> PermitFor(q, c)]'
          = [[q \in Calls |-> PermitFor(q, c)] EXCEPT ![p] = PermitFor(p, c)']
    BY <1>1, OneCallSteps
  <1>3. PermitFor(p, c) = [phase |-> "asked", useCase |-> u, asks |-> call[p].asks]
    BY <1>1, PermitShown DEF UnreadIsNothing, CallUnread
  <1>4. /\ PermitFor(p, c).phase = "asked" /\ PermitFor(p, c).useCase = u
        /\ PermitFor(p, c).asks = call[p].asks
        /\ [q \in Calls |-> PermitFor(q, c)][p] = PermitFor(p, c)
    BY <1>3
  <1>5. CASE call'[p] = Refused
    <2>1. PermitFor(p, c)' = [phase |-> "refused"]
      BY <1>5 DEF PermitFor, Refused
    <2> QED
      BY <1>2, <1>4, <2>1 DEF Policed!Refuse, Policed!Moves
  <1>6. CASE call'[p] # Refused
    <2> DEFINE mine == IF c \in call[p].todo THEN consent.left[c] \cap call[p].asks ELSE {}
    <2>1. PICK v \in Readable(u) :
            /\ Allows(u, v)
            /\ call'[p] = Reads(p, call[p].todo,
                [d \in Controllers |->
                    IF d \in call[p].todo THEN consent.left[d] \cap call[p].asks ELSE {}],
                [d \in Controllers |-> v])
      BY <1>6 DEF ReadUseCasePolicy, GrantsTypeOK
    <2>2. /\ call'[p].phase = "reading" /\ call'[p].useCase = u
          /\ call'[p].asks = call[p].asks
          /\ call'[p].scopes[c] = mine /\ call'[p].version[c] = v
      BY <2>1 DEF Reads
    <2>3. CASE mine = {}
      <3>1. PermitFor(p, c)' = [phase |-> "asked", useCase |-> u, asks |-> call[p].asks]
        BY <2>2, <2>3 DEF PermitFor
      <3> QED
        BY <1>3, <3>1
    <2>4. CASE mine # {}
      <3>1. consent.left[c] # {} /\ mine = consent.left[c] \cap call[p].asks
        BY <2>4
      <3> HIDE DEF mine
      <3>2. PermitFor(p, c)' = [phase |-> "decided", useCase |-> u, asks |-> call[p].asks,
                                scopes |-> mine, version |-> v]
        BY <2>2, <2>4 DEF PermitFor
      <3>3. /\ GrantFor(c).phase = "given" /\ GrantFor(c).left = consent.left[c]
            /\ GrantFor(c).useCase = consent.useCase
            /\ GrantFor(c).validity = consent.validity
        BY <1>1, <3>1, GivenShown
      <3>4. v \in Policed(c)!Readable(u) /\ [k \in {c} \cup UseCases |-> policy[k]][u] = policy[u]
        BY <1>1 DEF Readable, Current, Policed!Readable
      <3>5. policy[u][v] # NoPolicy
            /\ (policy[u][v].limit # 0 => GrantFor(c).validity <= policy[u][v].limit)
        BY <2>1, <3>3 DEF Allows, Active
      <3>6. Policed(c)!Judged(p, "decided", mine, v)
              = [phase |-> "decided", useCase |-> u, asks |-> call[p].asks,
                 scopes |-> mine, version |-> v]
        BY <1>4 DEF Policed!Judged
      <3>7. Policed(c)!Moves(p, Policed(c)!Judged(p, "decided", mine, v))
        BY <1>2, <3>2, <3>6 DEF Policed!Moves
      <3>8. mine = GrantFor(c).left \cap [q \in Calls |-> PermitFor(q, c)][p].asks
        BY <1>4, <3>1, <3>3
      <3> HIDE DEF u
      <3> QED
        BY <1>1, <1>4, <3>3, <3>4, <3>5, <3>7, <3>8 DEF Policed!JudgeUseCase
    <2> QED
      BY <2>3, <2>4
  <1> QED
    BY <1>5, <1>6

\* Answered, a call is permitted what was decided of the controller, or nothing.
LEMMA AnswerSteps ==
    ASSUME GrantsTypeOK, NEW c \in Controllers, NEW p \in Calls, Answer(p)
    PROVE  Policed(c)!Permit(p) \/ Policed(c)!Refuse(p)
  <1>1. /\ UNCHANGED <<served, request, consent>> /\ call[p].phase = "reading"
        /\ \A q \in Calls : q # p => call'[q] = call[q]
        /\ call'[p] = IF Asking(call[p].scopes) = {} THEN Refused
                      ELSE Permit(p, call[p].version)
    BY DEF Answer, GrantsTypeOK
  <1>2. [q \in Calls |-> PermitFor(q, c)]'
          = [[q \in Calls |-> PermitFor(q, c)] EXCEPT ![p] = PermitFor(p, c)']
    BY <1>1, OneCallSteps
  <1>3. [q \in Calls |-> PermitFor(q, c)][p] = PermitFor(p, c)
    OBVIOUS
  <1>4. CASE call[p].scopes[c] = {}
    <2>1. PermitFor(p, c).phase = "asked"
      BY <1>1, <1>4, PermitShown
    <2>2. PermitFor(p, c)' = [phase |-> "refused"]
      BY <1>1, <1>4 DEF PermitFor, Refused, Permit
    <2> QED
      BY <1>2, <1>3, <2>1, <2>2 DEF Policed!Refuse, Policed!Moves
  <1>5. CASE call[p].scopes[c] # {}
    <2>1. PermitFor(p, c) = [phase |-> "decided", useCase |-> call[p].useCase,
                             asks |-> call[p].asks, scopes |-> call[p].scopes[c],
                             version |-> call[p].version[c]]
      BY <1>1, <1>5, PermitShown
    <2>2. call'[p] = Permit(p, call[p].version)
      BY <1>1, <1>5 DEF Asking
    <2>3. PermitFor(p, c)' = [phase |-> "permitted", useCase |-> call[p].useCase,
                              asks |-> call[p].asks, scopes |-> call[p].scopes[c],
                              version |-> call[p].version[c]]
      BY <1>5, <2>2 DEF PermitFor, Permit
    <2>4. /\ PermitFor(p, c).phase = "decided" /\ PermitFor(p, c).useCase = call[p].useCase
          /\ PermitFor(p, c).asks = call[p].asks
          /\ PermitFor(p, c).scopes = call[p].scopes[c]
          /\ PermitFor(p, c).version = call[p].version[c]
      BY <2>1
    <2> QED
      BY <1>2, <1>3, <1>5, <2>3, <2>4 DEF Policed!Permit, Policed!Judged, Policed!Moves
  <1> QED
    BY <1>4, <1>5

LEMMA CallSteps ==
    ASSUME GrantsIInv, UnreadIsNothing, NEW p \in Calls, CallStep(p), NEW c \in Controllers
    PROVE  UNCHANGED Policed(c)!vars \/ Policed(c)!Next
  <1>1. GrantsTypeOK /\ UNCHANGED <<served, request, consent>>
        /\ \A q \in Calls : q # p => call'[q] = call[q]
    BY DEF CallStep, Present, ReadScopePolicy, ReadUseCasePolicy, Answer, GrantsIInv, GrantsTypeOK
  <1>2. /\ PermitFor(p, c)' = PermitFor(p, c) => UNCHANGED Policed(c)!vars
        /\ Policed(c)!CallStep(p) => Policed(c)!Next
    BY <1>1, OneCallSteps
  <1>3. ASSUME NEW how \in {"id", "lookup"}, NEW u \in MaybeUseCase, NEW at,
               NEW asks \in Asks, Present(p, how, u, at, asks)
        PROVE  Policed(c)!Next
    BY <1>1, <1>2, <1>3, PresentSteps
  <1>4. ASSUME NEW d \in Controllers, ReadScopePolicy(p, d)
        PROVE  UNCHANGED Policed(c)!vars \/ Policed(c)!Next
    BY <1>1, <1>2, <1>4, ReadScopeSteps, ReadsAnother DEF Policed!CallStep
  <1>5. CASE ReadUseCasePolicy(p)
    BY <1>2, <1>5, ReadUseCaseSteps DEF Policed!CallStep
  <1>6. CASE Answer(p)
    BY <1>1, <1>2, <1>6, AnswerSteps DEF Policed!CallStep
  <1> QED
    BY <1>3, <1>4, <1>5, <1>6 DEF CallStep

\* A restart loses what every controller sees of approvals and calls in progress.
LEMMA RestartSteps ==
    ASSUME GrantsIInv, NEW role \in BOOLEAN, Restart(role), NEW c \in Controllers
    PROVE  Policed(c)!Next
  <1>1. Policed(c)!Reopen
    BY ReopenSteps DEF Restart
  <1>2. UNCHANGED Policed(c)!world
    BY DEF Restart, Policed!world
  <1>3. [p \in Calls |-> PermitFor(p, c)]' = [p \in Calls |-> [phase |-> "idle"]]
    BY DEF Restart, PermitFor
  <1> QED
    BY <1>1, <1>2, <1>3 DEF Policed!Next, Policed!Restart

LEMMA PolicedSteps ==
    ASSUME GrantsIInv, UnreadIsNothing, [GrantsNext]_grantVars, NEW c \in Controllers
    PROVE  UNCHANGED Policed(c)!vars \/ Policed(c)!Next
  <1>1. CASE UNCHANGED grantVars
    BY <1>1, WorldKept, GrantKept, CallsKept DEF grantVars, served, Policed!vars
  <1> QED
    BY <1>1, WorldSteps, RequestSteps, CallSteps, RestartSteps DEF GrantsNext, GrantsIInv

\* Each controller of a consent has its scopes decided by a policy that could be read
\* at that moment, at approval and in every call, whatever happens to the others.
THEOREM ImplementsPolicedScopes == GrantsSpec => DecidedPerController
  <1>1. GrantsInit => \A c \in Controllers : Policed(c)!Init
    BY PolicedBegins
  <1>2. GrantsIInv /\ UnreadIsNothing /\ [GrantsNext]_grantVars
          => \A c \in Controllers : UNCHANGED Policed(c)!vars \/ Policed(c)!Next
    BY PolicedSteps
  <1> QED
    BY <1>1, <1>2, AlwaysUnread, PTL DEF GrantsSpec, DecidedPerController

\* The same of one controller, as an implementation of the specification itself.
THEOREM ImplementsPolicedScopesFor ==
    ASSUME NEW c \in Controllers
    PROVE  GrantsSpec => Policed(c)!Spec
  <1>1. GrantsInit => Policed(c)!Init
    BY PolicedBegins
  <1>2. GrantsIInv /\ UnreadIsNothing /\ [GrantsNext]_grantVars
          => [Policed(c)!Next]_(Policed(c)!vars)
    BY PolicedSteps
  <1> QED
    BY <1>1, <1>2, AlwaysUnread, PTL DEF GrantsSpec, Policed!Spec
=============================================================================
