---------------------------- MODULE PmPolicyCache ----------------------------
(***************************************************************************)
(* The policies of partners, read from Partner Management (PM) and cached  *)
(* in one pod: services/pm_policy_client.py. Cache keys (a partner with a  *)
(* data controller, with a use case, or alone) share nothing, so one key   *)
(* stands for all. What a policy says is left out: PM's answers, each with *)
(* its max-age, are numbered in the order it would give them, NotFound     *)
(* being those that are a 404. A call runs without interruption between    *)
(* two awaits, as asyncio has it: only waiting for the key's lock and for  *)
(* PM lets others run.                                                     *)
(***************************************************************************)
EXTENDS Integers

CONSTANTS
    Calls,        \* calls of _get in flight at once
    Nobody,       \* the holder of a free flight lock
    NotFound,     \* the answers of PM that are a 404
    MaxAges,      \* max-ages of PM's other answers; above SoftTtl is like none
    SoftTtl,      \* partner_policy_cache_ttl_seconds
    HardTtl,      \* partner_policy_hard_ttl_seconds
    NegativeTtl,  \* partner_policy_negative_ttl_seconds
    MaxFetch,     \* the longest a fetch takes before it fails
    MaxChanges,   \* bound: how often PM's answer changes
    MaxTime       \* bound: of the clock

ASSUME CacheAssumption ==
    /\ Nobody \notin Calls
    /\ MaxAges \subseteq Nat
    /\ {SoftTtl, NegativeTtl, MaxChanges, MaxTime} \subseteq Nat
    /\ {HardTtl, MaxFetch} \subseteq Nat \ {0}
    /\ SoftTtl <= HardTtl
    /\ NegativeTtl <= HardTtl

VARIABLES
    clock,     \* the pod's monotonic clock
    pm,        \* the answer PM would give now
    maxAge,    \* maxAge[v]: the max-age PM sends with answer v
    replaced,  \* replaced[v]: when PM's answer ceased to be v
    entry,     \* the cached entry
    flight,    \* the call that holds the key's flight lock
    call,      \* call[p]: what call p is doing
    served,    \* the last answer a call was given, when, and on what ground
    quiet      \* the time until which PM must be left alone

pmVars == <<pm, maxAge, replaced>>
callVars == <<flight, call>>
cacheVars == <<clock, pmVars, entry, callVars, served, quiet>>

Versions == 0..MaxChanges
Time == 0..MaxTime

NoValue == -1   \* _Entry.value is None
Never == -1     \* _Entry.fetched_at without an answer

\* The longest an answer is fresh.
MaxTtl == IF SoftTtl < NegativeTtl THEN NegativeTtl ELSE SoftTtl

Entry == [value : Versions \cup {NoValue}, fetched : Time \cup {Never},
          attempt : Time \cup {Never}, ttl : 0..MaxTtl]

\* A missing entry: it always needs a fetch, and there is nothing to serve.
NoEntry == [value |-> NoValue, fetched |-> Never, attempt |-> Never, ttl |-> 0]

Idle == [op |-> "idle"]

CallState == {Idle, [op |-> "waiting"]}
    \cup [op : {"asking"}, now : Time, prev : Entry]
    \cup [op : {"answered"}, now : Time, prev : Entry, value : Versions]

CacheInit ==
    /\ clock = 0
    /\ pm = 0
    /\ maxAge \in [Versions \ NotFound -> MaxAges]
    /\ replaced = [v \in Versions |-> 0]
    /\ entry = NoEntry
    /\ flight = Nobody
    /\ call = [p \in Calls |-> Idle]
    /\ served = [version |-> 0, at |-> 0, ground |-> "none"]
    /\ quiet = 0

-----------------------------------------------------------------------------
(* The entry *)

\* The last attempt failed: the entry may have an answer, of an earlier one.
Failed(e) == e.attempt > e.fetched

NeedsFetch(e) ==
    \/ e = NoEntry
    \/ Failed(e) /\ clock - e.attempt >= NegativeTtl
    \/ ~Failed(e) /\ clock - e.fetched >= e.ttl

\* _serve, of an entry that needs no fetch.
Servable(e) ==
    /\ e.value # NoValue
    /\ Failed(e) => clock - e.fetched < HardTtl

\* Slip: every answer is kept for the soft TTL.
TtlSoft(value) == SoftTtl

\* _ttl, and the negative TTL of a 404.
Ttl(value) ==
    IF value \in NotFound THEN NegativeTtl
    ELSE IF maxAge[value] < SoftTtl THEN maxAge[value] ELSE SoftTtl

\* Slip: the entry is dated when the answer arrives.
AnsweredEntryLate(value, now, ttl) ==
    [value |-> value, fetched |-> clock, attempt |-> clock, ttl |-> ttl]

AnsweredEntry(value, now, ttl) ==
    [value |-> value, fetched |-> now, attempt |-> now, ttl |-> ttl]

\* _on_error: whether the previous answer may still be served.
KeepsServing(prev, now) ==
    prev.value # NoValue /\ now - prev.fetched < HardTtl

\* Slip: a failed refresh makes the answer young again.
FailedEntryRenewed(prev, now) ==
    IF KeepsServing(prev, now)
    THEN [value |-> prev.value, fetched |-> now, attempt |-> now, ttl |-> prev.ttl]
    ELSE [value |-> NoValue, fetched |-> Never, attempt |-> now, ttl |-> 0]

\* Slip: a failed attempt leaves no mark on an entry that can be served.
FailedEntryUnmarked(prev, now) ==
    IF KeepsServing(prev, now) THEN prev
    ELSE [value |-> NoValue, fetched |-> Never, attempt |-> now, ttl |-> 0]

FailedEntry(prev, now) ==
    IF KeepsServing(prev, now)
    THEN [value |-> prev.value, fetched |-> prev.fetched, attempt |-> now, ttl |-> prev.ttl]
    ELSE [value |-> NoValue, fetched |-> Never, attempt |-> now, ttl |-> 0]

-----------------------------------------------------------------------------
(* _get and _fetch *)

Becomes(p, state) == call' = [call EXCEPT ![p] = state]

Fetching(p) == call[p].op \in {"asking", "answered"}

Gives(version, ground) ==
    served' = [version |-> version, at |-> clock, ground |-> ground]

\* The answer of an entry that needs no fetch, or PolicyUnavailable.
Serves(e) ==
    IF Servable(e)
    THEN Gives(e.value, IF Failed(e) THEN "outage" ELSE "cached")
    ELSE UNCHANGED served

GetCached(p) ==
    /\ call[p] = Idle
    /\ ~NeedsFetch(entry)
    /\ Serves(entry)
    /\ UNCHANGED <<clock, pmVars, entry, callVars, quiet>>

GetWaits(p) ==
    /\ call[p] = Idle
    /\ NeedsFetch(entry)
    /\ Becomes(p, [op |-> "waiting"])
    /\ UNCHANGED <<clock, pmVars, entry, flight, served, quiet>>

\* With the lock, the entry is read again: another call may have fetched it.
EnterCached(p) ==
    /\ call[p].op = "waiting"
    /\ flight = Nobody
    /\ ~NeedsFetch(entry)
    /\ Serves(entry)
    /\ Becomes(p, Idle)
    /\ UNCHANGED <<clock, pmVars, entry, flight, quiet>>

\* Slip: the fetch is not made under the lock.
EnterFetchesUnlocked(p) ==
    /\ call[p].op = "waiting"
    /\ NeedsFetch(entry)
    /\ clock < MaxTime
    /\ Becomes(p, [op |-> "asking", now |-> clock, prev |-> entry])
    /\ UNCHANGED <<clock, pmVars, entry, flight, served, quiet>>

\* MaxTime: no fetch begins that the bound would not let end.
EnterFetches(p) ==
    /\ call[p].op = "waiting"
    /\ flight = Nobody
    /\ NeedsFetch(entry)
    /\ clock < MaxTime
    /\ flight' = p
    /\ Becomes(p, [op |-> "asking", now |-> clock, prev |-> entry])
    /\ UNCHANGED <<clock, pmVars, entry, served, quiet>>

\* PM reads its policies; its response is under way.
PmAnswers(p) ==
    /\ call[p].op = "asking"
    /\ Becomes(p, [op |-> "answered", now |-> call[p].now, prev |-> call[p].prev, value |-> pm])
    /\ UNCHANGED <<clock, pmVars, entry, flight, served, quiet>>

\* The response is in. The clock is finer than any fetch.
FetchSucceeds(p) ==
    /\ call[p].op = "answered"
    /\ clock > call[p].now
    /\ entry' = AnsweredEntry(call[p].value, call[p].now, Ttl(call[p].value))
    /\ quiet' = call[p].now + Ttl(call[p].value)
    /\ Gives(call[p].value, "fetched")
    /\ flight' = Nobody
    /\ Becomes(p, Idle)
    /\ UNCHANGED <<clock, pmVars>>

\* No connection, a timeout, another status than 200 or 404, a bad body.
FetchFails(p) ==
    /\ Fetching(p)
    /\ clock > call[p].now
    /\ entry' = FailedEntry(call[p].prev, call[p].now)
    /\ quiet' = call[p].now + NegativeTtl
    /\ IF KeepsServing(call[p].prev, call[p].now)
       THEN Gives(call[p].prev.value, "outage")
       ELSE UNCHANGED served
    /\ flight' = Nobody
    /\ Becomes(p, Idle)
    /\ UNCHANGED <<clock, pmVars>>

\* Slip: the lock is not released on every way out.
CancelledHolding(p) ==
    /\ call[p] # Idle
    /\ Becomes(p, Idle)
    /\ UNCHANGED <<clock, pmVars, entry, flight, served, quiet>>

\* The request is cancelled while it waits: nothing is stored.
Cancelled(p) ==
    /\ call[p] # Idle
    /\ flight' = IF flight = p THEN Nobody ELSE flight
    /\ Becomes(p, Idle)
    /\ UNCHANGED <<clock, pmVars, entry, served, quiet>>

\* invalidate drops the entry, also under the feet of a fetch in flight.
Invalidate ==
    /\ entry # NoEntry
    /\ entry' = NoEntry
    /\ quiet' = 0
    /\ UNCHANGED <<clock, pmVars, callVars, served>>

-----------------------------------------------------------------------------
(* Partner Management and time *)

\* A policy is published, replaced or withdrawn.
PmChanges ==
    /\ pm < MaxChanges
    /\ pm' = pm + 1
    /\ replaced' = [replaced EXCEPT ![pm] = clock]
    /\ UNCHANGED <<clock, maxAge, entry, callVars, served, quiet>>

\* Time passes; a fetch in flight takes MaxFetch at most.
Tick ==
    /\ clock < MaxTime
    /\ \A p \in Calls : Fetching(p) => clock < call[p].now + MaxFetch
    /\ clock' = clock + 1
    /\ UNCHANGED <<pmVars, entry, callVars, served, quiet>>

CallStep(p) ==
    \/ GetCached(p)
    \/ GetWaits(p)
    \/ EnterCached(p)
    \/ EnterFetches(p)
    \/ PmAnswers(p)
    \/ FetchSucceeds(p)
    \/ FetchFails(p)
    \/ Cancelled(p)

CacheNext ==
    \/ \E p \in Calls : CallStep(p)
    \/ Invalidate
    \/ PmChanges
    \/ Tick

CacheSpec == CacheInit /\ [][CacheNext]_cacheVars

\* Time passes, a fetch ends by its timeout at the latest, and asyncio hands
\* the flight lock to those who wait for it in the order they came.
CacheFairness ==
    /\ WF_cacheVars(Tick)
    /\ \A p \in Calls :
        /\ WF_cacheVars(FetchSucceeds(p) \/ FetchFails(p))
        /\ SF_cacheVars(EnterCached(p) \/ EnterFetches(p))

CacheFairSpec == CacheSpec /\ CacheFairness

-----------------------------------------------------------------------------
(* Properties *)

CacheTypeOK ==
    /\ clock \in Time
    /\ pm \in Versions
    /\ maxAge \in [Versions \ NotFound -> MaxAges]
    /\ replaced \in [Versions -> Time]
    /\ entry \in Entry
    /\ flight \in Calls \cup {Nobody}
    /\ call \in [Calls -> CallState]
    /\ served \in [version : Versions, at : Time,
                   ground : {"none", "cached", "fetched", "outage"}]
    /\ quiet \in Nat

\* v was given at time t although PM's answer had ceased to be v for longer
\* than bound.
Outdated(v, t, bound) == v # pm /\ replaced[v] + bound < t

\* A withdrawn policy is not acted upon for longer than the hard TTL and the
\* fetch that found PM unreachable: an outage, however long and whatever calls,
\* cancellations and invalidations it meets, never renews an answer.
WithdrawnWithinHardTtl ==
    ~Outdated(served.version, served.at, HardTtl + MaxFetch)

\* How old an answer may be: one PM just gave, as old as its request; one from
\* the cache, as long as the soft TTL and PM's max-age both allow, and a 404,
\* which somebody is waiting to see replaced, the negative TTL.
OldestAge(v, ground) ==
    IF ground = "fetched" THEN MaxFetch
    ELSE IF v \in NotFound THEN NegativeTtl
    ELSE IF maxAge[v] < SoftTtl THEN maxAge[v] ELSE SoftTtl

\* Without an outage a policy that PM withdrew, replaced or published is known
\* to callers as soon as the answer before it is older than its own kind may
\* be, however calls wait for each other's fetches and late those answer.
WithdrawnWithinTtl ==
    served.ground \in {"cached", "fetched"} =>
        ~Outdated(served.version, served.at, OldestAge(served.version, served.ground))

\* Calls that wait while PM is asked do not ask again: no call asks PM before
\* the soft TTL of its last answer, or the negative TTL after its last failure,
\* is over, unless the entry was invalidated.
PmLeftAlone ==
    [][\A p \in Calls : ~Fetching(p) /\ Fetching(p)' => clock >= quiet]_cacheVars

\* A caller never gets an older answer of PM than a caller before it, although
\* responses are stored after the awaits and failures bring back old entries.
AnswersMoveForward == [][served'.version >= served.version]_cacheVars

\* PM's answer was v at time t or later.
HeldAt(v, t) == v = pm \/ (v < pm /\ replaced[v] >= t)

\* An entry's answer was PM's when it says, may be used as long as it says, and
\* no caller got a later one.
EntrySound(e) ==
    /\ e.attempt <= clock
    /\ e.fetched <= e.attempt
    /\ e.value # NoValue =>
        /\ HeldAt(e.value, e.fetched) /\ served.version <= e.value
        /\ e.ttl = Ttl(e.value)

\* Only the holder of the flight lock fetches; the entry it found is still
\* there, unless invalidated; and what PM told it is not older.
FetchSound(p) ==
    /\ flight = p
    /\ call[p].now <= clock
    /\ clock <= call[p].now + MaxFetch
    /\ entry \in {call[p].prev, NoEntry}
    /\ EntrySound(call[p].prev)
    /\ call[p].prev.attempt <= call[p].now
    /\ call[p].op = "answered" =>
        /\ HeldAt(call[p].value, call[p].now)
        /\ served.version <= call[p].value
        /\ call[p].prev.value <= call[p].value

\* What makes the properties above inductive.
CacheSound ==
    /\ EntrySound(entry)
    /\ \A p \in Calls : Fetching(p) => FetchSound(p)
    /\ served.version <= pm
    /\ served.at <= clock

\* What makes PmLeftAlone inductive: the entry alone tells until when PM is left
\* alone, because every fetch ends later than it began; one that failed is then
\* later than the answer it keeps.
FreshUntil(e) ==
    IF e = NoEntry THEN 0
    ELSE IF Failed(e) THEN e.attempt + NegativeTtl
    ELSE e.fetched + e.ttl

QuietSound ==
    /\ quiet = FreshUntil(entry)
    /\ entry.attempt < clock
    /\ \A p \in Calls : Fetching(p) => call[p].prev.attempt < call[p].now

\* Later versions ceased later.
ReplacedInOrder ==
    \A v \in Versions : v < pm =>
        /\ replaced[v] <= clock
        /\ \A w \in Versions : v < w /\ w < pm => replaced[v] <= replaced[w]

\* The versions an answer may still have that is at most so old.
NotOlderThan(bound) == {v \in 0..pm : ~Outdated(v, clock, bound)}

Source == INSTANCE PolicySource WITH
    current  <- pm,
    readable <- NotOlderThan(HardTtl + MaxFetch),
    fresh    <- NotOlderThan(IF MaxFetch > MaxTtl THEN MaxFetch ELSE MaxTtl),
    answer   <- [version |-> served.version, outage |-> served.ground = "outage"]

\* To its callers, the cache with its lock, its fetches in flight, failures,
\* cancellations and invalidations is a source that answers at once with a
\* version that is not too old, in order.
SourceRefined == Source!Spec

\* Nobody waits for the flight lock for ever, whoever is cancelled or refused
\* (at MaxTime the bound lets no further fetch begin, though the lock is free).
WaitingEnds ==
    \A p \in Calls : call[p].op = "waiting" ~>
        call[p].op # "waiting" \/ (clock = MaxTime /\ flight = Nobody)
=============================================================================
