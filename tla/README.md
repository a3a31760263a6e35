# Formal models of the OpenG2P Consent Manager

TLA+ modules, TLC configurations and TLAPS proofs for the Consent Manager in
this repository. The models are translated from the Python backend
(`backend/src/openg2p_consent_manager`); paths below are relative to it.

## 1. The system

A FastAPI service, run as several pods over one PostgreSQL database, that
records consents ("artefacts"), answers `/validate` ("may this partner have this
data of this person?") and, in the exchange role, signs short-lived consent
tokens which another Consent Manager (department role) accepts. Every handler
opens its own database session (READ COMMITTED), and the pods share nothing but
the database, the object store and, each for itself, in-memory caches.

| component | state | operations | what makes it hard | what makes it correct |
|---|---|---|---|---|
| **Consent standing** `services/consent_service.py`, `expire.py` and its CronJob | `consent_artefacts.status`, `revocation_records` | `revoke`, `get_status` (lazy expiry), `expire_stale` | each reads, decides and commits without a lock; the last commit wins | a withdrawn consent is never usable; a consent ends only for a reason that holds; a lapsed one does end |
| **Stored consent and token issuing** `services/verification_service.py` (`_validate_lookup`, `_validate_stored`), `services/exchange_service.py` (`issue`) | `decision_logs`, `issued_receipts`, signed tokens in the presenter's hands | validate by id or by lookup, log the permits, sign one token per controller | the artefact is read once, then Partner Management and several commits are awaited; revocations arrive meanwhile; pods die between commits | a revocation reaches tokens within their lifetime; no permit to a call made after it; tokens are accounted for and stay within the consent |
| **Consent requests** `services/lifecycle_service.py`, `services/assisted_service.py` | `consent_requests`, the artefacts and receipts made from them, `auth_contexts` | create, authenticate, approve, deny; submit, cancel, staff approve, reject | the lifecycle handlers take no lock, the assisted ones hold the row lock over HTTP calls | only decided requests produce a consent; staff approve once, what is on file |
| **Evidence** `services/evidence_service.py`, `assisted_service.add_evidence`, `delete_evidence` | `consent_evidence` rows, objects in S3 | upload, download, delete | two stores with no common transaction | a file on file can be read; evidence is frozen at submission; the limit holds |
| **Subject login (OIDC)** `services/subject_auth_service.py` | `subject_auth_sessions`, `auth_contexts` | `start`, `complete`, status | a redirect may come twice, late, or never; the request may close meanwhile | a login link is used once; submission needs a success |
| **Token acceptance (department role)** `verification_service._validate_receipt`, `exchange_service` (`issuer_key`, `remote_status`) | `consent_artefacts` of source `receipt`, decision log, JWKS and status caches | verify a token, ask its issuer for its status, record the permit | duplicates and races on the token's `jti`; cached statuses; answers out of order | a permit is within the token's life; a status is never older than its cache time |
| **Embedded consent** `verification_service.validate`, `_validate_and_issue`, `_permit`, `_stored_grants` | artefacts unique per (jti, controller), receipts, decision log | verify a partner-signed consent, decide, record; gather its artefacts again for a lookup | two calls with one jti; a crash between grants; artefacts revoked one by one | one artefact per jti and controller; the same answer to a replay; tokens for all controllers or for none; a revocation ends its own tokens |
| **Grants** (inside requests and `/validate`) `lifecycle_service.resolve_grants`, `use_case_ceiling`, `_approve_grants`, `assisted_service.approve`, `verification_service._validate_stored` | `grants` of requests and artefacts, policy references in the log | ask, grant, narrow to policy at approval, narrow again when presented | policies and use cases change between any two reads; several controllers | scopes are only lost; what is recorded or permitted was allowed by the policy version noted with it |
| **Partner policy cache** `services/pm_policy_client.py` | per-key entries with ages, in-flight fetches | get, invalidate, fetch | single-flight, soft and hard age, negative entries, an upstream that fails | a policy served is never older than the hard limit; waiters are answered |
| **Policy evaluation** `services/policy_service.py`, `partner_service.py` | none (pure) | `evaluate`, `check_use_case` | many conditions in an order that decides the reason | a permit never exceeds policy and consent |
| **Composite and master-data clients** `services/composite_client.py`, `master_data_client.py` | TTL caches | `get_use_case`, `code_list` | concurrent fetches without a lock, stale and negative answers | bounded staleness, answers that do not go back |
| **Receipts and consent records** `services/receipt_service.py`, `consent_record_service.py` | `consent_receipts` (written with the artefact) | build, sign | wording and layout | — |
| **Crypto, canonical JSON, JWKS** `services/crypto_service.py`, `utils/` | keys | sign, verify | cryptography, out of scope of a state model | — |
| **HTTP controllers, authentication** `controllers/`, `auth.py` | none | map requests to the services | no shared state | — |
| **Start-up and migration** `app.py`, `config.py`, `db.py` | schema | create tables, add columns | run by every pod at start | — |
| **Portals, chart, images, sanity tests** `ui/`, `partner-portal/`, `deployment/`, `docker/`, `test/` | browser state | call the API | — | — |

How they interact: the artefact row is the meeting point. A request's approval or
an embedded consent creates it; `revoke` and the expiry handlers change its
status; `/validate` reads it; tokens carry what was read away, out of reach of
the database. Requests to other services (Partner Management, the Composite,
master data, the identity provider, the token issuer) are awaited in the middle
of a handler, and that is where the interleavings come from.

## 2. The plan

Ordered by how much goes wrong if the part is wrong. "Proved" means that every
safety property the runs check on the module is also a theorem, for every value
of the constants, except where section 6 says otherwise.

| order | module | models | state |
|---|---|---|---|
| 1 | `ConsentStatus`, abstract `ConsentStanding` | the status column and its three writers | checked, proved, refinement proved |
| 2 | `TokenIssuance` (extends 1), abstract `ConsentAnswers` | `/validate` on stored consents, token issuing | checked, proved, refinement proved |
| 3 | `ConsentRequests`, abstract `RequestDecision` | requests, evidence, logins | checked, proved, refinement proved |
| 4 | `PresentedConsents` (extends 1), abstract `ConsentDecision` | partner-signed consents and consent tokens, one `jti` at one controller | checked, proved, refinement proved |
| 5 | `PmPolicyCache`, abstract `PolicySource` | the policy cache of one pod | checked, proved, refinement proved |
| 6 | `RemoteReads` | the caches filled without a lock: `remote_status`, `issuer_key`, `get_use_case`, `code_list` | checked, proved |
| 7 | `ConsentGrants`, abstract `PolicedScopes` for each controller | scopes and use cases from request to permit, policies that change | checked, proved, refinement proved |
| 8 | `SignedConsents`, abstract `ConsentDecision` for each controller | one presented consent, several controllers: `_validate_and_issue`, `_stored_grants`, tokens | checked, proved, refinement proved |

Which module composes which: `TokenIssuance` and `PresentedConsents` extend
`ConsentStatus`, whose handlers interleave with theirs. The other modules meet at
abstract specifications, so that what one shows is what the other assumes:

- `ConsentGrants` reads, of each policy, any version from the oldest one on that a
  cache may still serve. That this is what a pod's cache gives is
  `ServesLatestVersions`, by way of `PolicySource`, which `PmPolicyCache` implements.
- `PresentedConsents` (one `jti` at one controller, with the reads and commits of each
  call) and `SignedConsents` (several controllers, coarser calls) both implement
  `ConsentDecision`, the latter for each of its controllers.
- What `PolicedScopes` says of one controller, that what it may read of a policy is a
  window of versions, is what `PolicySource` gives.

Worth doing next: an abstract specification of a read-through cache for `RemoteReads`;
`evaluate` with its reasons as an operator against a reference definition.

## 3. The modules and the code

A handler is cut into actions where other calls can run: at a commit and at an
`await` of the database or another service. What a handler does between two such
points is one action, with the code's conditions as its guards. A call that ends
in an error answer and leaves nothing behind ends by a `...Dies`, `Ends` or
`Deny` action. Every action carries its lines in `PROJECT.json`, under "map".
Definitions whose comment begins with "Slip" are no part of a specification: they
are wrong variants of an action, of the kind a later change could introduce, and
are used to confirm that each property would notice.

### ConsentStatus and ConsentStanding

`status`, `validUntil` and `revocations` are the columns `status`, `valid_until`
and the `revocation_records` rows; `call[p]` is what an API call has read,
`sweep[w]` the progress of a run of `expire.py`; `clock` is the database's clock.

| action | code (`services/consent_service.py`) |
|---|---|
| `RevokeRead`, `RevokeCommit` | `revoke`: a plain read that must find `active`, later one commit of the status and the record |
| `StatusRead`, `StatusCommit` | the lazy expiry in `get_status` |
| `SweepStart`, `SweepSelect`, `SweepCommit` | `expire_stale`: the time, the select, one update by id of what was selected |
| `CallDies`, `SweepDies` | the pod dies before its commit |

`ConsentStanding` is what this promises: a consent is *given*, then *withdrawn*
or, once its validity is over, *lapsed*; a withdrawal is final. The status column
alone does not implement it (an expiry in flight overwrites `revoked`); status
and revocation records together do, which is the refinement mapping `Standing`.

### TokenIssuance

Extends `ConsentStatus`, so that every step of it interleaves. `validation[v]` is
the progress of one `/validate` call, `decisionLog` and `tokens` the rows of
`decision_logs` and `issued_receipts` (a token carries what its JWT says).

| action | code (`services/verification_service.py`, `exchange_service.py`) |
|---|---|
| `BeginById`, `ReadById` | `_validate_stored`: takes the time, then reads and checks the artefact |
| `BeginLookup`, `LookupSelect`, `LookupCheck` | `_validate_lookup`: takes the time, selects the latest match, then `_validate_stored` takes *its* time and checks the object in hand |
| `Deny` | every refusal, with its log row |
| `LogPermits` | the policy has answered; all permits in one commit |
| `IssueToken` | `ExchangeService.issue`, one commit per controller |
| `Answer`, `ValidationDies` | the answer; the pod dies, leaving what it committed |

Which controllers the policy still allows is any non-empty subset: Partner
Management may say anything. `withdrawnBefore` is a history variable.

`ConsentAnswers` is what the partner sees of all this: its call is *asked*, at one
moment at which the consent stands it *is permitted* for some controllers at once,
tokens follow for these, one each, and end with the consent; or it is refused or
never answered. That the read which permits comes earlier than the log, and that
statuses have been read, overwritten and expired meanwhile, is invisible in it.

### ConsentRequests

One request with everything recorded on it. `request` is its status, `lock` the
row lock, `submitted` whether `submitted_at` is set, `artefacts` the consents made
from it, `files` the evidence rows, `objects` the bytes in the object store,
`uploaded` (history) the files whose uploader was answered, `login` the rows of
`subject_auth_sessions`, `overdue` those past `expires_at`, `identified` whether
`authenticate` wrote an `auth_contexts` row, `call[p]` what a call has in hand.

| actions | code |
|---|---|
| `PlainRead`, `AuthenticateCommit`, `SubjectApproveCommit`, `DenyCommit` | `services/lifecycle_service.py`: read without a lock, written after the awaits; the `UPDATE` waits for a lock and then overwrites |
| `LockedRead`, `Submit`, `Close`, `StaffApprove` | `services/assisted_service.py`: `submit`, `cancel`, `reject`, `approve` under `SELECT ... FOR UPDATE` |
| `UploadRead`, `UploadPut`, `UploadLock`, `UploadCommit`, `UploadAnswer`, `UploadFails` | `add_evidence`: bytes first, then a second look under the lock, then the row, then the read-back; the `except` that deletes the bytes |
| `DeleteLock`, `DeleteCommit`, `Discard` | `delete_evidence`: the row first, then the bytes, best effort |
| `StartRead`, `StartCommit`, `Claim`, `OpenRead`, `LoginSucceeds`, `LoginFails`, `LoginExpires` | `services/subject_auth_service.py`: `start`, the claiming `UPDATE ... WHERE status = 'pending'`, `_authenticate`, `_finish` |
| `Ends` | a refusal, an unreachable service, a pod's death: the transaction rolls back |

`RequestDecision` is the course of the request as its partner, the staff and the
subject see it: it is prepared, with its evidence changing one file at a time,
submitted with what is needed on file, decided. The staff decide once, by a consent
that says what is on file; the subject's consent may come on top of any decision,
because the approval without the lock may have been under way.

### PresentedConsents

Extends `ConsentStatus`. All consents here carry one `jti` and are for one data
controller, because the unique constraint is on that pair and different pairs
share no row. `artefact` is the row of the pair, `presentation[q]` the progress of
one call, `decisions` the log. A consent that is not yet an artefact has the
status `unrecorded`, so that the handlers of `ConsentStatus` leave it alone.

| action | code (`services/verification_service.py`) |
|---|---|
| `Present`, `ReadPolicy` | `validate` and `_validate_receipt` up to the lookup of the artefact: the time, signature, end of a token (`now >= exp`), the policy's await |
| `AnswerStored` | `_decision_from_artefact`, after comparing partner and subject id (`MatchesToken`) and, of a partner-signed consent, also the type of the id and the scopes (`MatchesSigned`) |
| `Evaluate` | no artefact: `PolicyService.evaluate` permits some scopes |
| `Insert`, `InsertFails`, `AnswerWinner`, `AnswerRecorded` | `_permit`: artefact and log row in one commit, or the unique constraint's error and the winner's answer |
| `Deny`, `PresentationDies` | `_deny`, at any check; failure without an answer |

`ConsentDecision` is the promise: of a `jti` at a controller there is *one* decision,
taken once; who asks later is told that decision as long as the consent stands, and
nobody is told "permitted" who asked after it ceased to. A call asks, is answered and
is done, one step each, without losers of a race or statuses behind the times.

### PmPolicyCache

One cache key of one pod. `entry` is the `_Entry`, `flight` the key's
`asyncio.Lock`, `call[p]` a call of `_get`, `pm` and `replaced` the answer Partner
Management would give now and when it ceased to give earlier ones, `maxAge` the
max-age it sends with each (any, those above the soft TTL standing for none too);
some answers are a 404 (`NotFound`), which `Ttl` keeps for the negative TTL; `served` and
`quiet` are history: the last answer given, and until when Partner Management
must not be asked again. `GetCached`, `GetWaits` and `EnterCached` are `_get`
before and after it has the lock, `EnterFetches`, `PmAnswers`, `FetchSucceeds` and
`FetchFails` are `_fetch` with `_on_error` (Partner Management reads its data some time
before the response is in), `Cancelled` a cancelled request, `Invalidate` is
`invalidate`, an operation of the client that only tests call today. The clock is `time.monotonic`; between two awaits nothing runs.

`PolicySource` is what callers may rely on: versions are published one after the
other, an answer is one of the latest (of fewer, except in an outage), and answers do
not go back. Locks, fetches, ages and cancellations are hidden; time appears only as
the oldest versions being forgotten.

### RemoteReads

One key of one cache that is filled without a lock; `kind` says of which client,
because the four differ only in what they do when a read fails and in what makes
an entry usable. `source` is what the service says, a new version whenever it
changes (a JWKS with its kids, a code list with its codes, none if it is absent or
empty); `entry` the cached version with the time it is dated with; `call[p]` a
call with the time it took and the entry it saw then; `failed` (history) when a
read last failed. For a code list, no version and one without codes both mean
"free text" (`FreeText`), but only the former has the failure TTL (`Lifetime`).

| action | code |
|---|---|
| `Ask` | the time is taken, the entry looked at: `ExchangeService.remote_status`, `issuer_key` (which also asks when a kid is unknown and the cooldown over), `CompositeClient.get_use_case`, `MasterDataClient.code_list` |
| `Serve`, `Arrive` | the service answers; later the response is stored, dated with the time the call began, over whatever is there |
| `Fail` | nothing is stored and the caller is refused (status, use case), the old keys are used (JWKS), or "free text" is stored for a shorter time (code list) |
| `Clear`, `Restart` | `clear_caches`, `invalidate`; a pod starts with nothing |

### ConsentGrants

One partner, one request, its consent and the calls that present it, as sets of
scopes per controller. `policy[k]` is the sequence of versions Partner Management
has had for a key (a controller, or a use case), `oldest[k]` the oldest version a
cache may still serve, so that a read returns any version in between (`Readable`);
`offer[u]` is what the Composite says that a use case needs. `exchange` is the
deployment's role, which a `Restart` may change.

| action | code |
|---|---|
| `AskScopes`, `CheckGrant`, `Created` | `create_request` (lifecycle and assisted) with `resolve_grants`, one policy read per controller |
| `AskUseCase`, `CreatedForUseCase` | `granted_use_case`, `read_use_case`, `resolve_use_case` |
| `Approve`, `NarrowGrant`, `Approved` | `_approve_grants` and staff `approve`: what is granted of each controller, or one list for all; narrowed controller by controller to the policy read then |
| `ApproveForUseCase`, `Cap` | `use_case_ceiling`: the use case still granted, and what it needs now |
| `GiveUp` | any refusal in between: purposes, subject id types, validity, nothing left, a service that cannot be read |
| `Present`, `ReadScopePolicy`, `ReadUseCasePolicy`, `Answer` | `_validate_stored` by id or after `_validate_lookup`: which consent is found, what is asked, the policy per controller or the policy for the use case, the log rows |

`PolicedScopes` is the promise to one data controller: its scopes are asked for,
decided by one version of one policy that can be read at that moment (in use-case
mode the policy for the use case, then what it needs), given with that version, and
judged again in the same way by every call that is permitted any of them. `Policed(c)`
is that specification as controller `c` sees the request (`GrantFor`) and the calls
(`PermitFor`): it sees its own policy and those for use cases, and nothing of what is
decided of the other controllers meanwhile. A controller of which a policy leaves
nothing has not been decided: it is still asked, and refused when the others are
given. `DecidedPerController` says so of all controllers at once.

### SignedConsents

One partner-signed consent with several controllers. `artefact[c]` is the row of
its `jti` for controller `c`, with the use case of the call that recorded it,
`withdrawn` (history) the controllers whose artefact was revoked, `tokens` the rows
of `issued_receipts`. Time is before or after the end of the consent.

| action | code (`services/verification_service.py`) |
|---|---|
| `Present`, `Validate` | `_validate_and_issue` calls `validate` for one controller after the other; a registry presents the consent for itself |
| `AnswerStored`, `Evaluate`, `Record`, `RecordedByOther` | `validate` for one controller: the artefact that is there, or a new one, or the winner's |
| `Refuse`, `SignAll` | the first refusal is the answer; otherwise tokens are signed |
| `LookUp`, `GatherGrants` | `_validate_lookup`, then `_stored_grants`: the active artefacts of the `jti` with the same use case |
| `Issue`, `Answer`, `Die` | `ExchangeService.issue`, a commit per token; the answer; a death in between |
| `Revoke`, `Expire`, `Lapse` | the commits of `revoke` and `expire_stale`, in any order; the end of validity |

`Promise(c)` is `ConsentDecision` as controller `c` sees it: the decision is its
artefact, a call is asking it from the moment it is being validated there until it
moves on, and a call found by lookup asks nothing. `DecisionPerController` says so of
all controllers at once: a step of the model is, to each of them, a step of its
decision or none.

## 4. What the runs check

| run | question | instance | states |
|---|---|---|---|
| `consent_status` | whatever interleaves: is a withdrawn consent ever active again, does a consent end without a reason, is the abstract standing implemented, does a lapsed consent leave `active`? | 2 consents, 2 calls, 1 expiry run, clock to 3 | 206,090 |
| `token_issuance` | does a revocation reach tokens in time, may a later call still get one, is every token logged and within its consent, is `ConsentAnswers` implemented? | 2 consents, 2 controllers, 1 `/validate`, 1 other call, 1 run, clock to 2, lifetime 1 | 2,651,205 |
| `consent_requests` | does every submission and staff decision rest on what is on file, is evidence frozen, are files readable, logins used once, is `RequestDecision` implemented? | 2 calls, 3 files (2 forms), limit 2, 1 login | 1,036,274 |
| `presented_consents` | one logged permit per `jti`; is a replay after revocation or end refused, a reuse for another subject or other scopes; is `ConsentDecision` implemented? | 2 calls over 3 partner-signed consents and 1 token, which differ in the subject's id, its type or the scopes, 1 revoking or reading call, 1 run, clock to 1 | 990,504 |
| `pm_policy_cache` | how old may a policy be that is acted upon, do answers go back, is Partner Management left alone, is `PolicySource` implemented, does anybody wait for ever? | 2 callers, TTLs 3/4/2, max-ages 0 and above soft, fetch up to 2, 404 → policy → 404, clock to 7 | 880,214 |
| `remote_reads` | how old may an answer be, is a rotated key found, for which reasons may free text stand in for a code list? | each of the four caches, 2 calls, 2 kids, a list with a code or none, TTLs 2/1, cooldown 1, 1 change, clock to 3 | 1,201,630 |
| `consent_grants` | can a scope be gained between request and permit, is a permit covered by the policy version logged with it, does a changed policy bind, is `PolicedScopes` implemented for each controller? | 2 controllers, 2 use cases, 2 scopes, 1 call, 1 change of a policy, any changes of use cases, both roles | 395,502 |
| `signed_consents` | which tokens does a revocation end, may a later call get one, are there tokens for some controllers only, are use cases mixed up, is `ConsentDecision` implemented for each controller? | 2 controllers, presented with or without a use case, 2 calls, any artefacts recorded before | 792,254 |

Symmetry is used by `consent_grants` (use cases), `remote_reads` (calls, kids),
`signed_consents` (calls, controllers), `presented_consents` (its `/validate` calls)
and three of the runs of section 7, with safety properties that do not tell the members
apart (in `consent_grants`, `presented_consents` and `signed_consents` also with the
refinement, which is one for all calls, controllers and use cases together), and never with a liveness
property.

Type invariants are theorems (section 6) and in no run, and so are `FilesWithinLimit`
and `PermitsAgree`, which `RequestRefined` and `DecisionRefined` contain.

Four further runs end in a counterexample; see section 7.

### Why the bounds are enough

- *Two calls.* Every hazard here is a pair: one reads, the other commits in
  between. A third call could only repeat either part, and in `TokenIssuance` the
  pairs are one `/validate` and one writer of the status, so one of each does.
- *Two to four consents.* Consents interact in three places only: the lookup
  chooses one of two, a sweep takes a set, and a `jti` is shared by four, so that
  each thing that is compared is once the only one that differs.
- *The clock.* The code compares times with `<`, `<=` and `>=`; before, at and
  after the end of validity are three cases, which two instants and an end at
  either give already; runs that count a lifetime have more instants. In the cache run the clock reaches past a fetch, the
  hard TTL and a further fetch, so that every bound could be exceeded: the
  weakened variants are found to exceed it.
- *Files.* Three, two of them forms, with a limit of two: the limit can be hit
  and the last form can be deleted while another is being uploaded.
- *Changes of a policy, a use case, a remote answer.* Before and after one change are
  the two cases a stale read can mix up, and the two controllers of `consent_grants`
  can be read on either side of it. With two changes the reads could also come from
  two different stale versions, which the proofs cover. What a use case needs changes
  so that one controller is left a part and the other nothing, and back.
- *One use case in `signed_consents`.* Presented with it and without are two cases that
  can be mixed up already; `found_by_its_use_case` has two.
- *One call in `consent_grants`.* Calls share nothing there but what they read; the
  request and the call interleave. The properties of each call are proved for any
  number of them.
- *Everything beyond.* The safety properties are proved for all values.

Two runs on `ConsentRequests` and two on `SignedConsents` switch the deadlock check
off: a request that is decided, with its ids used up, and a consent that is over,
with every call made, really have nothing left to do.

## 5. Fairness

- `SweepFairness` (`ConsentStatus`): the CronJob is scheduled again and again
  (`deployment/`), hence weak fairness of `SweepStart`. A run may die at any
  point, but not every run at the same one, hence strong fairness of its select
  and commit. Calls get none: nobody is obliged to call the API.
- `CacheFairness` (`PmPolicyCache`): time passes; a fetch ends at its `httpx`
  timeout at the latest; `asyncio.Lock` wakes its waiters in the order they came,
  so that a call which is again and again able to take the lock does so (strong
  fairness). A call may still be cancelled at any moment.

The other modules state no liveness: their handlers end when their caller's
requests end, which the code does not promise.

## 6. The proofs

All theorems are checked by TLAPS for every value of the constants, from these
named assumptions only: `ConstantsAssumption` and `TokenTTLAssumption` (bounds and
the lifetime are naturals), `RequestAssumption` (nobody is not a call, forms are
files, the limit is positive), `CacheAssumption` (TTLs are naturals, soft and
negative not above hard — `config.py` ships it so and `pm_policy_client.py` relies on it),
`PresentedAssumption` and `NoArtefactAssumption` (tokens are consents, their scopes
are scopes, "no artefact" is none), `ReadsAssumption` and `NoEntryAssumption`
(times are naturals), `GrantsAssumption`, `NoConsentAssumption` and
`SignedAssumption` (policies are policies, use cases need something, "none" is none). TLC evaluates each on every run.

| module | inductive invariant | why the properties alone are not inductive |
|---|---|---|
| `ConsentStatusProofs` | `IInv`: types, `WithdrawnIsUnusable`, `EndedForAReason`, `ExpiryInFlightJustified` | a consent could be expired early by a sweep that holds the wrong rows: what is in flight must be justified already |
| `TokenIssuanceProofs` | `TokenIInv`: `IInv`, types, `IssuanceSound`, the four properties | a token is dated from what the call took long before: its time precedes every revocation it did not see |
| `ConsentRequestsProofs` | `LoginsInHand` with `OneCallbackPerLogin`; `StatusInv` (the lock, the status, the number of files); `FilesInv`; `BackedInv` — one after the other | what a handler read must still hold when it commits, and that it does is what the row lock is for |
| `PmPolicyCacheProofs` | `CacheInv`: `CacheSound` and the two age bounds (`WithdrawnWithinTtl` has one for each kind of answer) | the entry a fetch will bring back must not be older than it says, nor than what callers were given |
| `PresentedConsentsProofs` | `PresentedIInv`: types, `PresentationSound`, `ReuseIsRefused`, `PermitLoggedOnce` | the loser of an insert answers unchecked: that it arrived before the artefact was recorded is what saves `ReuseIsRefused` |
| `RemoteReadsProofs` | `ReadsIInv`: types, and of the entry and of every call in flight: the version they hold was current at the time they are dated with, or later | a response that arrives late overwrites a newer one: it must still not be older than its date |
| `ConsentGrantsProofs` | `GrantsIInv`: types, and one invariant each for the request, the consent and the calls in progress: what is left so far is within what was granted and within the version noted | scopes are narrowed one controller at a time, and a version noted must go on being what it was when it was read |
| `SignedConsentsProofs` | `SignedIInv`: types; tokens carry the artefact of their own controller; what a call has permitted so far was active after it began; what is left to issue is of the grants | tokens are issued one by one, long after the artefacts were read |

`TokenIssuanceProofs` reuses `ConsentStatusProofs`: `StatusView` says that a step of
`TokenIssuance` is, seen from the status, a step or a stutter of `ConsentStatus`, so
that `IInvStep` is cited and not proved again, and `StatusRunsBeneath` and
`StandingKeptBeneath` carry its theorems over. `PresentedConsents` starts with
unrecorded consents, so that it proves its own `RecordedSound`. The central lemma of
both, `OldTimeStaysOld`, says that a time which precedes all revocations of a
consent keeps doing so.

Refinements. Each maps the initial states to initial states, and every step, under
the inductive invariant, to one step of the abstract specification or to none:

| theorem | implements | where the difficulty is |
|---|---|---|
| `Refinement` (`ConsentStatusProofs`) | `ConsentStanding` | the status column does not tell a withdrawal that an expiry overwrote; column and records do |
| `ImplementsAnswers` (`TokenIssuanceProofs`) | `ConsentAnswers` | a call is permitted when its artefact is *read*, steps before it is logged: what was read must make the consent *given* at that moment, also in the abstract standing, and a lookup is dated again after it |
| `ImplementsDecision` (`ConsentRequestsProofs`) | `RequestDecision` | a commit is judged by the state now, its handler judged what it read: the invariants of the row lock say that the two agree |
| `ImplementsDecision` (`PresentedConsentsProofs`) | `ConsentDecision` | the call that records is permitted at its commit, the loser of its race when it reads the winner's artefact, and both only if they came before its end |
| `ImplementsDecisions`, `ImplementsDecisionFor` (`SignedConsentsProofs`) | `ConsentDecision`, per controller | one step ends a call for several controllers at once, and is to each a step of its own or none |
| `ImplementsPolicedScopes`, `ImplementsPolicedScopesFor` (`ConsentGrantsProofs`) | `PolicedScopes`, per controller | an approval or a call is one object, and decided at as many moments as it has controllers; that nothing is decided before its policy is read is an invariant of its own, `UnreadIsNothing` |
| `ImplementsSource` (`PmPolicyCacheProofs`) | `PolicySource` | versions of an age cease in order (`ReplacedInOrder`), so that time drops the oldest ones only |

`ServesLatestVersions` goes on from the last: the sets of versions `PolicySource` speaks
of are always windows that end at the version in force. `UpwardIsWindow` gets the first
version of the window from the number of its members, as induction over the naturals
is out of the provers' reach.

`PmIsLeftAlone` needs `QuietSound`: the entry alone tells until when Partner Management
is left alone, because whoever waits for the lock looks at the entry again.

Action properties (`EvidenceIsFrozen`, `AnswersMoveForward`, `DecisionIsFinal`)
follow from the same invariants.

Checked by TLC only: `LapsedLeavesActive` and `WaitingEnds` (liveness under
fairness is out of the prover's reach here). Every safety property of a passing run
is a theorem. Some theorems state what no run checks on its own, because a run checks
more (`GrantsWithinRecordedPolicy` beside `DecidedPerController`). The four runs of
section 7 state what the code does not do.

## 7. Where the code and its texts disagree

Each is a run that ends in a counterexample; the quotations are in `PROJECT.json`.

- `transitions_once`: `expire_stale` promises that "each row transitions once"; a run
  of the job that selected a row before it was revoked turns `revoked` into `expired`
  when it commits. (The consent stays unusable and its record stays: `StandingRefined`.)
- `one_artefact_per_request`: two approvals by the subject both read `pending` and
  both commit. The staff's approve cannot (`StaffApproveOnce`, proved).
- `stored_consent_is_this_one`: the loser of a race to insert answers from the
  winner's artefact without the comparison the other path makes.

- `found_by_its_use_case`: the consent of a call for a use case "records the use case,
  so a later request without a consent finds it"; a consent that a registry, or the
  exchange for another use case, had presented before is answered from that
  artefact, which keeps its use case, so that the lookup does not find it.

Observations of the same models, without a run of their own:

- The lazy expiry in `get_status` overwrites a revocation just as `expire_stale` does,
  and `revoke` an expiry that was committed after its read.
- A token of a consent found by lookup is dated after the consent was read, so that
  a revocation in between is outlived by more than the token's lifetime, which
  `config.py` says bounds it. By `consent_id` this cannot happen
  (`RevocationReachesTokens`, proved).
- When the read-back after an upload's commit fails, the `except` in `add_evidence`
  deletes the bytes of the row that was committed.
- A consent made for a use case and presented by `consent_id` by a caller that names
  no use case is checked against the scope policies of its controllers.
- A consent for several controllers is narrowed to policies read one after the
  other, which need never have been in force together; each is recorded with its own
  grant (`GrantsWithinRecordedPolicy`, proved). So a consent is one decision for each
  of its controllers (`DecidedPerController`), and not one decision.
- Staff approval does not look at a policy's purposes and subject id types again,
  and its maximum validity only where the request names no end; `create_request` of
  the lifecycle API looks at none of the three for a scope policy. They are checked
  again when a consent is presented for a use case.
- A response that was asked for earlier may replace a newer one in the caches that
  have no lock; a caller may then be told "active" after "revoked", within the TTL
  (`AnswersWithinTtl`).
- A call of `_validate_and_issue` that is refused for one controller leaves the
  artefacts and logged permits of the controllers before it (and, as
  `TokensForAllOrNone` shows, no token).
- Two revoke calls that both read `active` leave two `revocation_records`.
- A denial that read the request before its approval was committed overwrites the
  status: an active artefact on a request that says `denied`.
- A consent presented again is answered without a row in the decision log, whose
  docstring says "every validation decision".
- A token with the `jti`, the partner and the subject id of a recorded consent is
  answered from that artefact although it names the id under another type or other
  scopes: `_validate_receipt` compares neither, `validate` both (`ReuseIsRefused`).
- A token presented again before its end is permitted again, although the comment
  on `receipt_status_check` calls tokens "single-use".
- Partner policies are documented to be served up to the hard TTL "after it was
  fetched"; `now` is taken before the request, and callers that wait for a failing
  fetch are answered after it, so the bound is the hard TTL plus one fetch
  (`WithdrawnWithinHardTtl` states that).

## 8. What is left out

- *Policy and scopes.* Which controllers and scopes a policy allows is a free
  choice in every action that asks it, except in `ConsentGrants`, which is about that.
  Of a policy it has scopes and maximum validity; purposes and subject id types
  refuse whole requests and are in `GiveUp`. The stored decision of a presented
  consent is not narrowed again to the policy or to the request's scopes, as
  `verification_controller.py` documents.
- *Which reason a refusal names*, where several checks fail.
- *What a page shows of a login* (`session_status`), computed when it is read: a login
  shown as failed may still be ended as a success by its late callback.
- *Bounds of caches in number*: `remote_status` drops old entries above ten thousand,
  which it may ask for again.
- *The access token* of the Master Data client, and its one retry after a 401, are
  part of one read.
- *Cryptography.* A signature that does not verify is a `Deny`; a token in a model
  is one that verifies.
- *Token times.* JWT times are whole seconds; the models' clock has one
  granularity, so that the truncation of `iat` and `exp` is not seen.
- *Transactions.* PostgreSQL runs them READ COMMITTED; each statement sees what is
  committed when it starts, which is how reads and commits are cut into steps. No
  foreign keys or triggers add to it.
- *Fetches.* `httpx` limits each phase of a request; `MaxFetch` stands for the
  whole.
- *Several pods' caches* are independent; one stands for all.
- *Components with status `not_modelled`* in `PROJECT.json`, each with its reason:
  pure I/O, presentation, cryptography, code that nothing uses.
