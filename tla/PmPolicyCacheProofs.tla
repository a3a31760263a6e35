------------------------- MODULE PmPolicyCacheProofs -------------------------
(* Theorems of PmPolicyCache, for every value of the constants. *)
EXTENDS PmPolicyCache, FiniteSetTheorems, TLAPS

-----------------------------------------------------------------------------
(* Type correctness *)

LEMMA Numbers ==
    /\ SoftTtl \in Nat /\ NegativeTtl \in Nat /\ HardTtl \in Nat /\ MaxFetch \in Nat
    /\ MaxChanges \in Nat /\ MaxTime \in Nat /\ MaxTtl \in Nat
    /\ HardTtl > 0 /\ MaxFetch > 0 /\ MaxTtl <= HardTtl
    /\ Versions \subseteq Nat /\ Time \subseteq Nat
    /\ 0 \in Versions /\ 0 \in Time
  BY CacheAssumption DEF MaxTtl, Versions, Time

LEMMA TtlTyped ==
    ASSUME CacheTypeOK, NEW v \in Versions
    PROVE  Ttl(v) \in 0..MaxTtl /\ Ttl(v) \in Nat
  <1>1. v \notin NotFound => maxAge[v] \in Nat
    BY CacheAssumption DEF CacheTypeOK
  <1> QED
    BY <1>1, Numbers DEF Ttl, MaxTtl

\* No kind of answer may be older than the bound the source knows.
LEMMA OldestAgeTyped ==
    ASSUME CacheTypeOK, NEW v \in Versions, NEW ground
    PROVE  /\ OldestAge(v, ground) \in Nat
           /\ OldestAge(v, ground) <= IF MaxFetch > MaxTtl THEN MaxFetch ELSE MaxTtl
           /\ ground # "fetched" => OldestAge(v, ground) = Ttl(v)
  <1>1. ground # "fetched" => OldestAge(v, ground) = Ttl(v)
    BY DEF OldestAge, Ttl
  <1>2. ground = "fetched" => OldestAge(v, ground) = MaxFetch
    BY DEF OldestAge
  <1>3. Ttl(v) \in Nat /\ Ttl(v) <= MaxTtl
    BY TtlTyped, Numbers
  <1> QED
    BY <1>1, <1>2, <1>3, Numbers

LEMMA EntriesTyped ==
    /\ NoEntry \in Entry
    /\ \A v \in Versions, now \in Time, ttl \in 0..MaxTtl :
           AnsweredEntry(v, now, ttl) \in Entry
    /\ \A e \in Entry, now \in Time : FailedEntry(e, now) \in Entry
  <1>1. NoEntry \in Entry
    BY Numbers DEF NoEntry, Entry, NoValue, Never
  <1>2. ASSUME NEW v \in Versions, NEW now \in Time, NEW ttl \in 0..MaxTtl
        PROVE  AnsweredEntry(v, now, ttl) \in Entry
    BY DEF AnsweredEntry, Entry
  <1>3. ASSUME NEW e \in Entry, NEW now \in Time
        PROVE  FailedEntry(e, now) \in Entry
    BY <1>3, Numbers DEF FailedEntry, Entry, NoValue, Never
  <1> QED
    BY <1>1, <1>2, <1>3

\* The fields that a call's stage says it has.
LEMMA CallFields ==
    ASSUME NEW c \in CallState
    PROVE  /\ c.op \in {"asking", "answered"} => c.now \in Time /\ c.prev \in Entry
           /\ c.op = "answered" => c.value \in Versions
  BY DEF CallState, Idle

\* A call moves without disturbing the others.
LEMMA Moves ==
    ASSUME CacheTypeOK, NEW p \in Calls, NEW next, Becomes(p, next)
    PROVE  \A q \in Calls : call'[q] = IF q = p THEN next ELSE call[q]
  <1>1. call \in [Calls -> CallState] /\ call' = [call EXCEPT ![p] = next]
    BY DEF CacheTypeOK, Becomes
  <1> QED
    BY <1>1

LEMMA CallTyped ==
    ASSUME CacheTypeOK, NEW p \in Calls, NEW next \in CallState, Becomes(p, next)
    PROVE  call' \in [Calls -> CallState]
  BY DEF CacheTypeOK, Becomes

\* What a caller can be given is an answer PM has given.
LEMMA ServesTyped ==
    ASSUME CacheTypeOK, Serves(entry)
    PROVE  /\ served' \in [version : Versions, at : Time,
                           ground : {"none", "cached", "fetched", "outage"}]
           /\ \/ served' = served
              \/ /\ served'.version = entry.value
                 /\ served'.at = clock
                 /\ served'.ground = IF Failed(entry) THEN "outage" ELSE "cached"
                 /\ Servable(entry)
  <1>1. entry.value # NoValue => entry.value \in Versions
    BY DEF CacheTypeOK, Entry
  <1> QED
    BY <1>1 DEF CacheTypeOK, Serves, Servable, Gives

LEMMA TypeInit == CacheInit => CacheTypeOK
  <1> SUFFICES ASSUME CacheInit PROVE CacheTypeOK
    OBVIOUS
  <1>1. entry \in Entry
    BY EntriesTyped, Numbers DEF CacheInit
  <1>2. call \in [Calls -> CallState]
    BY DEF CacheInit, CallState
  <1> QED
    BY <1>1, <1>2, Numbers DEF CacheInit, CacheTypeOK

LEMMA TypeStep == CacheTypeOK /\ [CacheNext]_cacheVars => CacheTypeOK'
  <1> SUFFICES ASSUME CacheTypeOK, [CacheNext]_cacheVars PROVE CacheTypeOK'
    OBVIOUS
  <1> USE DEF CacheTypeOK
  <1>1. CASE UNCHANGED cacheVars
    BY <1>1 DEF cacheVars, pmVars, callVars
  <1>2. CASE Invalidate
    BY <1>2, EntriesTyped, Numbers DEF Invalidate, pmVars, callVars
  <1>3. CASE PmChanges
    <2>1. pm + 1 \in Versions /\ replaced' \in [Versions -> Time]
      BY <1>3, Numbers DEF PmChanges, Versions
    <2> QED
      BY <1>3, <2>1 DEF PmChanges, callVars
  <1>4. CASE Tick
    <2>1. clock + 1 \in Time
      BY <1>4, Numbers DEF Tick, Time
    <2> QED
      BY <1>4, <2>1 DEF Tick, pmVars, callVars
  <1>5. ASSUME NEW p \in Calls, CallStep(p)
        PROVE  CacheTypeOK'
    <2>0. call[p] \in CallState /\ Idle \in CallState
      BY DEF CallState
    <2>1. CASE GetCached(p)
      BY <2>1, ServesTyped DEF GetCached, pmVars, callVars
    <2>2. CASE GetWaits(p)
      <3>1. [op |-> "waiting"] \in CallState
        BY DEF CallState
      <3> QED
        BY <2>2, <3>1, CallTyped DEF GetWaits, pmVars
    <2>3. CASE EnterCached(p)
      BY <2>0, <2>3, ServesTyped, CallTyped DEF EnterCached, pmVars
    <2>4. CASE EnterFetches(p)
      <3>1. [op |-> "asking", now |-> clock, prev |-> entry] \in CallState
        BY DEF CallState
      <3> QED
        BY <2>4, <3>1, CallTyped DEF EnterFetches, pmVars
    <2>5. CASE PmAnswers(p)
      <3>1. [op |-> "answered", now |-> call[p].now, prev |-> call[p].prev, value |-> pm]
                \in CallState
        BY <2>0, <2>5, CallFields DEF PmAnswers, CallState
      <3> QED
        BY <2>5, <3>1, CallTyped DEF PmAnswers, pmVars
    <2>6. CASE FetchSucceeds(p)
      <3>1. call[p].now \in Time /\ call[p].value \in Versions
        BY <2>0, <2>6, CallFields DEF FetchSucceeds
      <3>2. Ttl(call[p].value) \in 0..MaxTtl /\ Ttl(call[p].value) \in Nat
        BY <3>1, TtlTyped
      <3>3. entry' \in Entry /\ quiet' \in Nat
        <4>1. /\ entry' = AnsweredEntry(call[p].value, call[p].now, Ttl(call[p].value))
              /\ quiet' = call[p].now + Ttl(call[p].value)
          BY <2>6 DEF FetchSucceeds
        <4>2. call[p].now \in Nat
          BY <3>1, Numbers
        <4> QED
          BY <3>1, <3>2, <4>1, <4>2, EntriesTyped
      <3>4. served' \in [version : Versions, at : Time,
                         ground : {"none", "cached", "fetched", "outage"}]
        BY <2>6, <3>1 DEF FetchSucceeds, Gives
      <3> QED
        BY <2>0, <2>6, <3>3, <3>4, CallTyped DEF FetchSucceeds, pmVars
    <2>7. CASE FetchFails(p)
      <3>1. call[p].now \in Time /\ call[p].prev \in Entry
        BY <2>0, <2>7, CallFields DEF FetchFails, Fetching
      <3>2. entry' \in Entry
        BY <2>7, <3>1, EntriesTyped DEF FetchFails
      <3>3. quiet' \in Nat
        <4>1. quiet' = call[p].now + NegativeTtl
          BY <2>7 DEF FetchFails
        <4>2. call[p].now \in Nat /\ NegativeTtl \in Nat
          BY <3>1, Numbers
        <4> QED
          BY <4>1, <4>2
      <3>4. served' \in [version : Versions, at : Time,
                         ground : {"none", "cached", "fetched", "outage"}]
        <4>1. call[p].prev.value # NoValue => call[p].prev.value \in Versions
          BY <3>1 DEF Entry
        <4> QED
          BY <2>7, <4>1 DEF FetchFails, KeepsServing, Gives
      <3> QED
        BY <2>0, <2>7, <3>2, <3>3, <3>4, CallTyped DEF FetchFails, pmVars
    <2>8. CASE Cancelled(p)
      BY <2>0, <2>8, CallTyped DEF Cancelled, pmVars
    <2> QED
      BY <1>5, <2>1, <2>2, <2>3, <2>4, <2>5, <2>6, <2>7, <2>8 DEF CallStep
  <1> QED
    BY <1>1, <1>2, <1>3, <1>4, <1>5 DEF CacheNext

\* Every reachable state of the cache is well typed.
THEOREM CacheTypeCorrect == CacheSpec => []CacheTypeOK
  BY TypeInit, TypeStep, PTL DEF CacheSpec

-----------------------------------------------------------------------------
(* What is served *)

CacheInv ==
    /\ CacheSound
    /\ WithdrawnWithinHardTtl
    /\ WithdrawnWithinTtl

\* The types the arithmetic below needs.
LEMMA CacheNumbers ==
    ASSUME CacheTypeOK
    PROVE  /\ clock \in Nat /\ pm \in Nat /\ replaced \in [Versions -> Nat]
           /\ served.version \in Nat /\ served.version \in Versions /\ served.at \in Nat
           /\ NoValue = -1 /\ Never = -1
           /\ \A e \in Entry : /\ e.fetched \in Int /\ e.attempt \in Int /\ e.ttl \in Nat
                               /\ e.value \in Int
                               /\ e.value # NoValue => e.value \in Versions
                               /\ e.ttl <= MaxTtl
           /\ entry \in Entry
           /\ \A p \in Calls : Fetching(p) => call[p].now \in Nat /\ call[p].prev \in Entry
           /\ \A p \in Calls : call[p].op = "answered" => call[p].value \in Versions
  <1>1. \A e \in Entry : /\ e.fetched \in Int /\ e.attempt \in Int /\ e.ttl \in Nat
                         /\ e.value \in Int
                         /\ e.value # NoValue => e.value \in Versions
                         /\ e.ttl <= MaxTtl
    <2>1. ASSUME NEW e \in Entry
          PROVE  /\ e.value \in Versions \cup {NoValue}
                 /\ e.fetched \in Time \cup {Never} /\ e.attempt \in Time \cup {Never}
                 /\ e.ttl \in 0..MaxTtl
      BY DEF Entry
    <2>2. /\ Versions \cup {NoValue} \subseteq Int /\ Time \cup {Never} \subseteq Int
          /\ \A t \in 0..MaxTtl : t \in Nat /\ t <= MaxTtl
      BY Numbers DEF NoValue, Never
    <2> QED
      BY <2>1, <2>2
  <1>2. \A p \in Calls : call[p] \in CallState
    BY DEF CacheTypeOK
  <1> QED
    BY <1>1, <1>2, CallFields, Numbers DEF CacheTypeOK, NoValue, Never, Fetching

LEMMA SoundInit == CacheInit => CacheInv
  <1> SUFFICES ASSUME CacheInit PROVE CacheInv
    OBVIOUS
  <1>1. EntrySound(entry)
    BY DEF CacheInit, EntrySound, NoEntry, NoValue, Never
  <1>2. \A p \in Calls : ~Fetching(p)
    BY DEF CacheInit, Fetching, Idle
  <1>3. served.version = pm /\ served.at <= clock
    BY DEF CacheInit
  <1> QED
    BY <1>1, <1>2, <1>3
    DEF CacheInit, CacheInv, CacheSound, WithdrawnWithinHardTtl,
        WithdrawnWithinTtl, OldestAge, Outdated

\* Where nobody holds the flight lock, or p does, no other call fetches.
LEMMA OneFetch ==
    ASSUME CacheSound, NEW p \in Calls, flight \in {p, Nobody}
    PROVE  \A q \in Calls : q # p => ~Fetching(q)
  BY CacheAssumption DEF CacheSound, FetchSound

\* Steps of the calls alone.
LEMMA SoundFrame ==
    ASSUME CacheInv, UNCHANGED <<clock, pm, maxAge, replaced, entry, served>>,
           \A q \in Calls : Fetching(q)' => FetchSound(q)'
    PROVE  CacheInv'
  BY DEF CacheInv, CacheSound, EntrySound, HeldAt, Ttl, WithdrawnWithinHardTtl,
         WithdrawnWithinTtl, OldestAge, Outdated

\* An answer PM held at time t may be given within the bound after t.
LEMMA GivenInTime ==
    ASSUME CacheTypeOK, NEW v \in Versions, NEW t \in Int, HeldAt(v, t),
           NEW bound \in Nat, clock - t <= bound
    PROVE  ~Outdated(v, clock, bound)
  <1>1. /\ clock \in Nat /\ replaced[v] \in Nat
    BY CacheNumbers
  <1> QED
    BY <1>1 DEF HeldAt, Outdated

\* Giving a caller the answer of an entry that needs no fetch.
LEMMA ServedFromCache ==
    ASSUME CacheTypeOK, CacheInv, ~NeedsFetch(entry), Serves(entry),
           UNCHANGED <<clock, pm, maxAge, replaced, entry>>
    PROVE  /\ WithdrawnWithinHardTtl' /\ WithdrawnWithinTtl'
           /\ EntrySound(entry)'
           /\ served.version <= served'.version
           /\ served'.version <= pm /\ served'.at <= clock
           /\ served' = served \/ served'.version = entry.value
  <1>1. CASE served' = served
    BY <1>1, CacheNumbers DEF CacheInv, CacheSound, EntrySound, HeldAt, Ttl,
            WithdrawnWithinHardTtl, WithdrawnWithinTtl, OldestAge, Outdated
  <1>2. CASE served' # served
    <2>1. /\ served'.version = entry.value
          /\ served'.at = clock
          /\ served'.ground = IF Failed(entry) THEN "outage" ELSE "cached"
          /\ Servable(entry)
      BY <1>2, ServesTyped
    <2>2. /\ entry.value # NoValue /\ entry.value \in Versions /\ entry.value \in Nat
          /\ entry.fetched \in Int /\ clock \in Nat /\ entry.ttl \in Nat
          /\ entry.ttl <= MaxTtl /\ pm \in Nat /\ served.version \in Nat
      BY <2>1, CacheNumbers, Numbers DEF Servable
    <2>3. /\ HeldAt(entry.value, entry.fetched) /\ served.version <= entry.value
          /\ entry.ttl = Ttl(entry.value)
      BY <2>2 DEF CacheInv, CacheSound, EntrySound
    <2>4. entry.value <= pm
      BY <2>2, <2>3, Numbers DEF HeldAt
    <2>5. ~Failed(entry) => clock - entry.fetched < entry.ttl
      BY <2>2 DEF NeedsFetch
    <2>6. Failed(entry) => clock - entry.fetched < HardTtl
      BY <2>1 DEF Servable
    <2>7. ~Outdated(entry.value, clock, HardTtl + MaxFetch)
      <3>1. clock - entry.fetched <= HardTtl + MaxFetch /\ HardTtl + MaxFetch \in Nat
        BY <2>2, <2>5, <2>6, Numbers
      <3> QED
        BY <2>2, <2>3, <3>1, GivenInTime
    <2>8. ~Failed(entry) => ~Outdated(entry.value, clock, entry.ttl)
      <3>1. ~Failed(entry) => clock - entry.fetched <= entry.ttl
        BY <2>2, <2>5
      <3> QED
        BY <2>2, <2>3, <3>1, GivenInTime
    <2>9. WithdrawnWithinHardTtl' /\ WithdrawnWithinTtl'
      <3>1. WithdrawnWithinHardTtl'
        BY <2>1, <2>7 DEF WithdrawnWithinHardTtl, Outdated
      <3>2. ~Failed(entry) => OldestAge(entry.value, "cached")' = entry.ttl
        BY <2>3 DEF OldestAge, Ttl
      <3>3. ~Outdated(entry.value, clock, entry.ttl)' \/ Failed(entry)
        BY <2>8 DEF Outdated
      <3> QED
        BY <2>1, <3>1, <3>2, <3>3 DEF WithdrawnWithinTtl
    <2>10. EntrySound(entry)'
      <3>1. entry.attempt <= clock /\ entry.fetched <= entry.attempt
        BY DEF CacheInv, CacheSound, EntrySound
      <3>2. served'.version <= entry.value
        BY <2>1, <2>2
      <3> QED
        BY <2>3, <3>1, <3>2 DEF EntrySound, HeldAt, Ttl
    <2> QED
      BY <2>1, <2>2, <2>3, <2>4, <2>9, <2>10
  <1> QED
    BY <1>1, <1>2

\* The end of a fetch that gives a caller version v, PM's answer at time t.
LEMMA ServedFromFetch ==
    ASSUME CacheTypeOK, CacheInv, UNCHANGED <<clock, pm, maxAge, replaced>>,
           NEW v \in Versions, NEW t \in Nat, HeldAt(v, t),
           clock - t <= MaxFetch, Gives(v, "fetched")
    PROVE  /\ WithdrawnWithinHardTtl' /\ WithdrawnWithinTtl'
           /\ served'.version = v
           /\ served'.version <= pm /\ served'.at <= clock
  <1>1. /\ served'.version = v /\ served'.at = clock /\ served'.ground = "fetched"
    BY DEF Gives
  <1>2. clock \in Nat /\ pm \in Nat /\ v \in Nat /\ v <= pm
    BY CacheNumbers, Numbers DEF HeldAt
  <1>3. ~Outdated(v, clock, HardTtl + MaxFetch)
    <2>1. clock - t <= HardTtl + MaxFetch /\ HardTtl + MaxFetch \in Nat
      BY <1>2, Numbers
    <2> QED
      BY <2>1, GivenInTime
  <1>4. ~Outdated(v, clock, MaxFetch)
    BY Numbers, GivenInTime
  <1> QED
    BY <1>1, <1>2, <1>3, <1>4
    DEF WithdrawnWithinHardTtl, WithdrawnWithinTtl, OldestAge, Outdated

\* A fetch that succeeds: its answer is as old as its request.
LEMMA SoundSuccess ==
    ASSUME CacheTypeOK, CacheInv, NEW p \in Calls, FetchSucceeds(p)
    PROVE  CacheInv' /\ served'.version >= served.version
  <1>1. /\ call[p].value \in Versions /\ call[p].value \in Nat /\ call[p].now \in Nat
        /\ clock \in Nat /\ served.version \in Nat
    BY CacheNumbers, Numbers DEF FetchSucceeds, Fetching
  <1>2. /\ flight = p /\ call[p].now <= clock /\ clock <= call[p].now + MaxFetch
        /\ HeldAt(call[p].value, call[p].now) /\ served.version <= call[p].value
    BY DEF FetchSucceeds, Fetching, CacheInv, CacheSound, FetchSound
  <1>3. UNCHANGED <<clock, pm, maxAge, replaced>> /\ Gives(call[p].value, "fetched")
    BY DEF FetchSucceeds, pmVars
  <1>4. /\ WithdrawnWithinHardTtl' /\ WithdrawnWithinTtl'
        /\ served'.version = call[p].value
        /\ served'.version <= pm /\ served'.at <= clock
    <2>1. clock - call[p].now <= MaxFetch
      BY <1>1, <1>2, Numbers
    <2> QED
      BY <1>1, <1>2, <1>3, <2>1, ServedFromFetch
  <1>5. /\ entry'.value = call[p].value
        /\ entry'.fetched = call[p].now /\ entry'.attempt = call[p].now
        /\ entry'.ttl = Ttl(call[p].value)
    BY DEF FetchSucceeds, AnsweredEntry
  <1>6. EntrySound(entry)'
    BY <1>1, <1>2, <1>3, <1>4, <1>5 DEF EntrySound, HeldAt, Ttl
  <1>7. \A q \in Calls : ~Fetching(q)'
    <2>1. \A q \in Calls : q # p => ~Fetching(q)
      BY <1>2, OneFetch DEF CacheInv
    <2> QED
      BY <2>1, Moves DEF FetchSucceeds, Fetching, Idle
  <1> QED
    BY <1>1, <1>2, <1>3, <1>4, <1>6, <1>7 DEF CacheInv, CacheSound

\* A fetch that fails: the previous answer keeps its age.
LEMMA SoundFailure ==
    ASSUME CacheTypeOK, CacheInv, NEW p \in Calls, FetchFails(p)
    PROVE  CacheInv' /\ served'.version >= served.version
  <1> DEFINE prev == call[p].prev
             now == call[p].now
  <1>1. /\ now \in Nat /\ prev \in Entry /\ clock \in Nat /\ served.version \in Nat
    BY CacheNumbers DEF FetchFails
  <1>2. /\ flight = p /\ now <= clock /\ clock <= now + MaxFetch
        /\ EntrySound(prev) /\ prev.attempt <= now
    BY DEF FetchFails, CacheInv, CacheSound, FetchSound
  <1>3. /\ prev.fetched \in Int /\ prev.attempt \in Int /\ prev.value \in Int
        /\ prev.value # NoValue => prev.value \in Versions
    BY <1>1, CacheNumbers
  <1>4. UNCHANGED <<clock, pm, maxAge, replaced>> /\ entry' = FailedEntry(prev, now)
    BY DEF FetchFails, pmVars
  <1>5. \A q \in Calls : ~Fetching(q)'
    <2>1. \A q \in Calls : q # p => ~Fetching(q)
      BY <1>2, OneFetch DEF CacheInv
    <2> QED
      BY <2>1, Moves DEF FetchFails, Fetching, Idle
  <1>6. CASE KeepsServing(prev, now)
    <2>1. /\ prev.value # NoValue /\ now - prev.fetched < HardTtl
          /\ Gives(prev.value, "outage")
      BY <1>6 DEF FetchFails, KeepsServing
    <2>2. /\ HeldAt(prev.value, prev.fetched) /\ served.version <= prev.value
          /\ prev.fetched <= prev.attempt /\ prev.ttl = Ttl(prev.value)
      BY <1>2, <2>1 DEF EntrySound
    <2>3. /\ entry'.value = prev.value /\ entry'.fetched = prev.fetched
          /\ entry'.attempt = now /\ entry'.ttl = prev.ttl
      BY <1>4, <1>6 DEF FailedEntry
    <2>4. ~Outdated(prev.value, clock, HardTtl + MaxFetch)
      <3>1. clock - prev.fetched <= HardTtl + MaxFetch /\ HardTtl + MaxFetch \in Nat
        BY <1>1, <1>2, <1>3, <2>1, Numbers
      <3> QED
        BY <1>3, <2>1, <2>2, <3>1, GivenInTime
    <2>5. /\ served'.version = prev.value /\ served'.at = clock
          /\ served'.ground = "outage"
      BY <2>1 DEF Gives
    <2>6. WithdrawnWithinHardTtl' /\ WithdrawnWithinTtl'
      BY <1>4, <2>4, <2>5 DEF WithdrawnWithinHardTtl, WithdrawnWithinTtl, OldestAge, Outdated
    <2>7. EntrySound(entry)'
      <3>1. now <= clock /\ prev.fetched <= now
        BY <1>1, <1>2, <1>3, <2>2
      <3>2. served'.version <= prev.value
        BY <1>3, <2>5
      <3> QED
        BY <1>4, <2>2, <2>3, <3>1, <3>2 DEF EntrySound, HeldAt, Ttl
    <2>8. served'.version <= pm
      BY <1>3, <2>1, <2>2, <2>5, CacheNumbers, Numbers DEF HeldAt
    <2> QED
      BY <1>1, <1>3, <1>4, <1>5, <2>2, <2>5, <2>6, <2>7, <2>8 DEF CacheInv, CacheSound
  <1>7. CASE ~KeepsServing(prev, now)
    <2>1. /\ entry'.value = NoValue /\ entry'.fetched = Never /\ entry'.attempt = now
      BY <1>4, <1>7 DEF FailedEntry
    <2>2. UNCHANGED served
      BY <1>7 DEF FetchFails
    <2>3. EntrySound(entry)'
      BY <1>1, <1>2, <1>4, <2>1 DEF EntrySound, Never
    <2>4. WithdrawnWithinHardTtl' /\ WithdrawnWithinTtl'
      BY <1>4, <2>2 DEF CacheInv, WithdrawnWithinHardTtl, WithdrawnWithinTtl, OldestAge, Outdated
    <2> QED
      BY <1>1, <1>4, <1>5, <2>2, <2>3, <2>4 DEF CacheInv, CacheSound
  <1> QED
    BY <1>6, <1>7

\* A fetch in flight is not disturbed by a caller that is served meanwhile.
LEMMA ServedBesideFetch ==
    ASSUME CacheTypeOK, CacheInv, NEW q \in Calls, Fetching(q),
           UNCHANGED <<clock, pm, maxAge, replaced, entry, flight, call>>,
           ~NeedsFetch(entry),
           served' = served \/ served'.version = entry.value
    PROVE  FetchSound(q)'
  <1>1. FetchSound(q) /\ entry # NoEntry
    BY DEF CacheInv, CacheSound, NeedsFetch
  <1>2. entry = call[q].prev
    BY <1>1 DEF FetchSound
  <1>3. /\ call[q].prev.value \in Int
        /\ call[q].op = "answered" => call[q].value \in Nat
    BY CacheNumbers, Numbers
  <1>4. /\ call[q].prev.value # NoValue => served'.version <= call[q].prev.value
        /\ call[q].op = "answered" => served'.version <= call[q].value
    BY <1>1, <1>2, <1>3 DEF FetchSound, EntrySound
  <1> QED
    BY <1>1, <1>4 DEF FetchSound, EntrySound, HeldAt, Ttl

\* The steps of a call on its way to an answer.
LEMMA SoundCallStep ==
    ASSUME CacheTypeOK, CacheInv, NEW p \in Calls, CallStep(p)
    PROVE  CacheInv' /\ served'.version >= served.version
  <1>0. /\ served.version \in Nat /\ served'.version \in Nat
        /\ clock \in Nat /\ entry.attempt \in Int /\ pm \in Nat
    <2>1. CacheTypeOK'
      BY TypeStep DEF CacheNext
    <2>2. served'.version \in Versions
      BY <2>1 DEF CacheTypeOK
    <2> QED
      BY <2>2, CacheNumbers, Numbers
  <1>1. CASE GetCached(p)
    <2>1. /\ UNCHANGED <<clock, pm, maxAge, replaced, entry, flight, call>>
          /\ ~NeedsFetch(entry) /\ Serves(entry)
      BY <1>1 DEF GetCached, pmVars, callVars
    <2>2. /\ WithdrawnWithinHardTtl' /\ WithdrawnWithinTtl'
          /\ EntrySound(entry)'
          /\ served.version <= served'.version
          /\ served'.version <= pm /\ served'.at <= clock
          /\ served' = served \/ served'.version = entry.value
      BY <2>1, ServedFromCache
    <2>3. ASSUME NEW q \in Calls, Fetching(q)'
          PROVE  FetchSound(q)'
      <3>1. Fetching(q)
        BY <2>1, <2>3 DEF Fetching
      <3> QED
        BY <2>1, <2>2, <3>1, ServedBesideFetch
    <2> QED
      BY <1>0, <2>1, <2>2, <2>3 DEF CacheInv, CacheSound
  <1>2. CASE EnterCached(p)
    <2>1. /\ UNCHANGED <<clock, pm, maxAge, replaced, entry>> /\ flight = Nobody
          /\ ~NeedsFetch(entry) /\ Serves(entry)
      BY <1>2 DEF EnterCached, pmVars
    <2>2. /\ WithdrawnWithinHardTtl' /\ WithdrawnWithinTtl'
          /\ EntrySound(entry)'
          /\ served.version <= served'.version
          /\ served'.version <= pm /\ served'.at <= clock
      BY <2>1, ServedFromCache
    <2>3. \A q \in Calls : ~Fetching(q)'
      <3>1. \A q \in Calls : q # p => ~Fetching(q)
        BY <2>1, OneFetch DEF CacheInv
      <3> QED
        BY <1>2, <3>1, Moves DEF EnterCached, Fetching, Idle
    <2> QED
      BY <1>0, <2>1, <2>2, <2>3 DEF CacheInv, CacheSound
  <1>3. CASE GetWaits(p)
    <2>1. \A q \in Calls : Fetching(q)' => Fetching(q) /\ call'[q] = call[q]
      BY <1>3, Moves DEF GetWaits, Fetching
    <2>2. \A q \in Calls : Fetching(q)' => FetchSound(q)'
      BY <1>3, <2>1
      DEF GetWaits, pmVars, CacheInv, CacheSound, FetchSound, EntrySound, HeldAt, Ttl
    <2> QED
      BY <1>0, <1>3, <2>2, SoundFrame DEF GetWaits, pmVars
  <1>4. CASE EnterFetches(p)
    <2>1. \A q \in Calls : Fetching(q)' => q = p
      <3>1. \A q \in Calls : q # p => ~Fetching(q)
        BY <1>4, OneFetch DEF EnterFetches, CacheInv
      <3> QED
        BY <1>4, <3>1, Moves DEF EnterFetches, Fetching
    <2>2. /\ call'[p] = [op |-> "asking", now |-> clock, prev |-> entry]
          /\ UNCHANGED <<clock, pm, maxAge, replaced, entry, served>> /\ flight' = p
      BY <1>4, Moves DEF EnterFetches, pmVars
    <2>3. FetchSound(p)'
      <3>1. /\ call'[p].now = clock /\ call'[p].prev = entry /\ call'[p].op = "asking"
        BY <2>2
      <3>2. clock <= clock /\ clock <= clock + MaxFetch
        BY <1>0, Numbers
      <3>3. EntrySound(entry) /\ entry.attempt <= clock
        BY DEF CacheInv, CacheSound, EntrySound
      <3> QED
        BY <2>2, <3>1, <3>2, <3>3 DEF FetchSound, EntrySound, HeldAt, Ttl
    <2> QED
      BY <1>0, <2>1, <2>2, <2>3, SoundFrame
  <1>5. CASE PmAnswers(p)
    <2>1. /\ FetchSound(p) /\ EntrySound(call[p].prev)
          /\ \A q \in Calls : q # p => ~Fetching(q)
      <3>1. FetchSound(p)
        BY <1>5 DEF PmAnswers, Fetching, CacheInv, CacheSound
      <3> QED
        BY <3>1, OneFetch DEF FetchSound, CacheInv
    <2>2. /\ call'[p] = [op |-> "answered", now |-> call[p].now,
                         prev |-> call[p].prev, value |-> pm]
          /\ \A q \in Calls : q # p => call'[q] = call[q]
          /\ UNCHANGED <<clock, pm, maxAge, replaced, entry, served, flight>>
      BY <1>5, Moves DEF PmAnswers, pmVars
    <2>3. /\ call'[p].now = call[p].now /\ call'[p].prev = call[p].prev
          /\ call'[p].value = pm
      BY <2>2
    <2>4. served.version <= pm /\ call[p].prev.value <= pm
      <3>1. call[p].prev.value \in Int
            /\ (call[p].prev.value # NoValue => call[p].prev.value \in Versions)
        BY <1>5, CacheNumbers DEF PmAnswers, Fetching
      <3>2. call[p].prev.value # NoValue => HeldAt(call[p].prev.value, call[p].prev.fetched)
        BY <2>1 DEF EntrySound
      <3> QED
        BY <1>0, <3>1, <3>2, CacheNumbers DEF CacheInv, CacheSound, HeldAt
    <2>5. FetchSound(p)'
      BY <2>1, <2>2, <2>3, <2>4 DEF FetchSound, EntrySound, HeldAt, Ttl
    <2>6. \A q \in Calls : Fetching(q)' => q = p
      BY <2>1, <2>2 DEF Fetching
    <2> QED
      BY <1>0, <2>2, <2>5, <2>6, SoundFrame
  <1>6. CASE Cancelled(p)
    <2>1. \A q \in Calls : Fetching(q)' => Fetching(q) /\ call'[q] = call[q] /\ q # p
      BY <1>6, Moves DEF Cancelled, Fetching, Idle
    <2>2. \A q \in Calls : Fetching(q)' => FetchSound(q) /\ flight' = q
      BY <1>6, <2>1 DEF Cancelled, CacheInv, CacheSound, FetchSound
    <2>3. \A q \in Calls : Fetching(q)' => FetchSound(q)'
      BY <1>6, <2>1, <2>2 DEF Cancelled, pmVars, FetchSound, EntrySound, HeldAt, Ttl
    <2> QED
      BY <1>0, <1>6, <2>3, SoundFrame DEF Cancelled, pmVars
  <1> QED
    BY <1>1, <1>2, <1>3, <1>4, <1>5, <1>6, SoundSuccess, SoundFailure DEF CallStep

LEMMA SoundStep ==
    ASSUME CacheTypeOK, CacheInv, [CacheNext]_cacheVars
    PROVE  CacheInv' /\ served'.version >= served.version
  <1>0. /\ clock \in Nat /\ pm \in Nat /\ served.version \in Nat /\ served.at \in Nat
        /\ entry \in Entry /\ entry.attempt \in Int
    BY CacheNumbers
  <1>1. CASE UNCHANGED cacheVars
    BY <1>0, <1>1, SoundFrame
    DEF cacheVars, pmVars, callVars, CacheInv, CacheSound, Fetching, FetchSound,
        EntrySound, HeldAt, Ttl
  <1>2. CASE Invalidate
    <2>1. /\ UNCHANGED <<clock, pm, maxAge, replaced, flight, call, served>> /\ entry' = NoEntry
      BY <1>2 DEF Invalidate, pmVars, callVars
    <2>2. EntrySound(entry)'
      BY <1>0, <2>1 DEF EntrySound, NoEntry, NoValue, Never
    <2>3. \A q \in Calls : Fetching(q)' => FetchSound(q)'
      BY <2>1 DEF CacheInv, CacheSound, Fetching, FetchSound, EntrySound, HeldAt, Ttl
    <2> QED
      BY <1>0, <2>1, <2>2, <2>3
      DEF CacheInv, CacheSound, WithdrawnWithinHardTtl, WithdrawnWithinTtl, OldestAge, Outdated
  <1>3. CASE PmChanges
    <2>1. /\ UNCHANGED <<clock, maxAge, entry, flight, call, served>>
          /\ pm' = pm + 1 /\ replaced' = [replaced EXCEPT ![pm] = clock]
      BY <1>3 DEF PmChanges, callVars
    <2>2. /\ replaced \in [Versions -> Nat] /\ pm \in Versions
          /\ \A v \in Versions : v \in Nat
      BY CacheNumbers, Numbers DEF CacheTypeOK
    <2>3. /\ replaced'[pm] = clock
          /\ \A v \in Versions : v # pm => replaced'[v] = replaced[v]
      BY <2>1, <2>2
    <2>4. \A v \in Versions, t \in Int : HeldAt(v, t) /\ t <= clock => HeldAt(v, t)'
      BY <1>0, <2>1, <2>2, <2>3 DEF HeldAt
    <2>5. \A e \in Entry : EntrySound(e) => EntrySound(e)'
      <3>1. ASSUME NEW e \in Entry, EntrySound(e)
            PROVE  EntrySound(e)'
        <4>1. e.fetched \in Int /\ e.attempt \in Int
              /\ (e.value # NoValue => e.value \in Versions)
          BY CacheNumbers
        <4>2. e.fetched <= clock
          BY <1>0, <3>1, <4>1 DEF EntrySound
        <4> QED
          BY <2>1, <2>4, <3>1, <4>1, <4>2 DEF EntrySound, Ttl
      <3> QED
        BY <3>1
    <2>6. ASSUME NEW q \in Calls, Fetching(q)'
          PROVE  FetchSound(q)'
      <3>1. Fetching(q) /\ FetchSound(q)
        BY <2>1, <2>6 DEF Fetching, CacheInv, CacheSound
      <3>2. /\ call[q].now \in Int /\ call[q].prev \in Entry
            /\ call[q].op = "answered" => call[q].value \in Versions
        BY <3>1, CacheNumbers
      <3> QED
        BY <2>1, <2>4, <2>5, <3>1, <3>2 DEF FetchSound
    <2>7. \A b \in Nat : ~Outdated(served.version, served.at, b)
                            => ~Outdated(served.version, served.at, b)'
      <3>1. served.version \in Versions /\ served.at <= clock
        BY CacheNumbers DEF CacheInv, CacheSound
      <3> QED
        BY <1>0, <2>1, <2>2, <2>3, <3>1 DEF Outdated
    <2>8. WithdrawnWithinHardTtl'
      <3>1. HardTtl + MaxFetch \in Nat
        BY Numbers
      <3> QED
        BY <2>1, <2>7, <3>1 DEF CacheInv, WithdrawnWithinHardTtl
    <2>9. WithdrawnWithinTtl'
      <3>1. OldestAge(served.version, served.ground) \in Nat
        BY OldestAgeTyped, CacheNumbers
      <3>2. OldestAge(served.version, served.ground)' = OldestAge(served.version, served.ground)
        BY <2>1 DEF OldestAge
      <3> QED
        BY <2>1, <2>7, <3>1, <3>2 DEF CacheInv, WithdrawnWithinTtl
    <2> QED
      BY <1>0, <2>1, <2>5, <2>6, <2>8, <2>9 DEF CacheInv, CacheSound
  <1>4. CASE Tick
    <2>1. /\ UNCHANGED <<pm, maxAge, replaced, entry, flight, call, served>> /\ clock' = clock + 1
          /\ \A q \in Calls : Fetching(q) => clock < call[q].now + MaxFetch
      BY <1>4 DEF Tick, pmVars, callVars
    <2>2. \A e \in Entry : EntrySound(e) => EntrySound(e)'
      BY <1>0, <2>1, CacheNumbers DEF EntrySound, HeldAt, Ttl
    <2>3. ASSUME NEW q \in Calls, Fetching(q)'
          PROVE  FetchSound(q)'
      <3>1. Fetching(q) /\ FetchSound(q)
        BY <2>1, <2>3 DEF Fetching, CacheInv, CacheSound
      <3>2. call[q].now \in Nat /\ call[q].prev \in Entry
        BY <3>1, CacheNumbers
      <3> QED
        BY <1>0, <2>1, <2>2, <3>1, <3>2, Numbers DEF FetchSound, HeldAt
    <2> QED
      BY <1>0, <2>1, <2>2, <2>3
      DEF CacheInv, CacheSound, WithdrawnWithinHardTtl, WithdrawnWithinTtl, OldestAge, Outdated
  <1>5. ASSUME NEW p \in Calls, CallStep(p)
        PROVE  CacheInv' /\ served'.version >= served.version
    BY <1>5, SoundCallStep
  <1>6. CASE UNCHANGED cacheVars \/ Invalidate \/ PmChanges \/ Tick
    BY <1>0, <1>1, <1>2, <1>3, <1>4, <1>6 DEF cacheVars, Invalidate, PmChanges, Tick
  <1> QED
    BY <1>5, <1>6 DEF CacheNext

LEMMA CacheInvariant == CacheSpec => []CacheInv
  <1>1. CacheTypeOK /\ CacheInv /\ [CacheNext]_cacheVars => CacheInv'
    BY SoundStep
  <1> QED
    BY <1>1, SoundInit, CacheTypeCorrect, PTL DEF CacheSpec

\* What fetches and the entry rely on holds in every state.
THEOREM CacheIsSound == CacheSpec => []CacheSound
  BY CacheInvariant, PTL DEF CacheInv

\* An outage never makes a withdrawn policy outlive the hard TTL and one fetch.
THEOREM WithdrawnInOutage == CacheSpec => []WithdrawnWithinHardTtl
  BY CacheInvariant, PTL DEF CacheInv

\* Without an outage, a withdrawn policy ends with its TTL.
THEOREM WithdrawnWithoutOutage == CacheSpec => []WithdrawnWithinTtl
  BY CacheInvariant, PTL DEF CacheInv

\* Callers get PM's answers in the order PM gave them.
THEOREM AnswersInOrder == CacheSpec => AnswersMoveForward
  <1>1. CacheTypeOK /\ CacheInv /\ [CacheNext]_cacheVars
            => [served'.version >= served.version]_cacheVars
    BY SoundStep
  <1> QED
    BY <1>1, CacheInvariant, CacheTypeCorrect, PTL DEF CacheSpec, AnswersMoveForward

-----------------------------------------------------------------------------
(* PM is left alone *)

\* What a fetch of call p, of an entry that is still sound, leaves behind tells
\* until when PM is left alone.
LEMMA StoredUntil ==
    ASSUME CacheTypeOK, CacheInv, QuietSound, NEW p \in Calls, Fetching(p)
    PROVE  /\ \A v, ttl : /\ FreshUntil(AnsweredEntry(v, call[p].now, ttl)) = call[p].now + ttl
                         /\ AnsweredEntry(v, call[p].now, ttl).attempt = call[p].now
           /\ FreshUntil(FailedEntry(call[p].prev, call[p].now)) = call[p].now + NegativeTtl
           /\ FailedEntry(call[p].prev, call[p].now).attempt = call[p].now
  <1> DEFINE now  == call[p].now
             prev == call[p].prev
  <1>1. /\ now \in Nat /\ prev \in Entry
        /\ prev.fetched \in Int /\ prev.attempt \in Int
        /\ NoEntry.attempt = -1 /\ Never = -1
    BY CacheNumbers DEF NoEntry, Never
  <1>2. prev.fetched <= prev.attempt /\ prev.attempt < now
    BY DEF CacheInv, CacheSound, FetchSound, EntrySound, QuietSound
  <1>3. ASSUME NEW v, NEW ttl
        PROVE  /\ FreshUntil(AnsweredEntry(v, now, ttl)) = now + ttl
               /\ AnsweredEntry(v, now, ttl).attempt = now
    <2>1. AnsweredEntry(v, now, ttl) = [value |-> v, fetched |-> now, attempt |-> now, ttl |-> ttl]
      BY DEF AnsweredEntry
    <2>2. AnsweredEntry(v, now, ttl) # NoEntry
      BY <1>1, <2>1
    <2> QED
      BY <1>1, <2>1, <2>2 DEF FreshUntil, Failed
  <1>4. /\ FailedEntry(prev, now).attempt = now
        /\ FailedEntry(prev, now).fetched \in {prev.fetched, Never}
    BY DEF FailedEntry
  <1>5. FailedEntry(prev, now) # NoEntry /\ Failed(FailedEntry(prev, now))
    BY <1>1, <1>2, <1>4 DEF Failed
  <1> QED
    BY <1>3, <1>4, <1>5 DEF FreshUntil

LEMMA QuietInit == CacheInit => QuietSound
  BY DEF CacheInit, QuietSound, FreshUntil, NoEntry, Never, Fetching, Idle

\* When the entry needs a fetch, PM may be asked.
LEMMA NeedsFetchLater ==
    ASSUME CacheTypeOK, QuietSound, NeedsFetch(entry)
    PROVE  clock >= quiet
  <1>1. /\ clock \in Nat /\ entry.attempt \in Int /\ entry.fetched \in Int /\ entry.ttl \in Nat
        /\ NegativeTtl \in Nat
    BY CacheNumbers, Numbers
  <1>2. CASE entry = NoEntry
    BY <1>1, <1>2 DEF QuietSound, FreshUntil
  <1>3. CASE entry # NoEntry
    BY <1>1, <1>3 DEF QuietSound, FreshUntil, NeedsFetch
  <1> QED
    BY <1>2, <1>3

\* A call's step keeps the account, and a call that begins to fetch finds that PM
\* need not be left alone any longer.
LEMMA QuietCallStep ==
    ASSUME CacheTypeOK, CacheInv, QuietSound, NEW p \in Calls, CallStep(p)
    PROVE  /\ QuietSound'
           /\ \A q \in Calls : ~Fetching(q) /\ Fetching(q)' => clock >= quiet
  <1>1. /\ clock \in Nat /\ call \in [Calls -> CallState]
        /\ \A q \in Calls : Fetching(q) => call[q].now \in Nat /\ call[q].prev \in Entry
    BY CacheNumbers DEF CacheTypeOK
  <1>2. ASSUME NEW next, Becomes(p, next), next.op \notin {"asking", "answered"},
               UNCHANGED <<clock, entry, quiet>>
        PROVE  /\ QuietSound'
               /\ \A q \in Calls : ~Fetching(q) /\ Fetching(q)' => clock >= quiet
    <2>1. \A q \in Calls : Fetching(q)' => call'[q] = call[q]
      BY <1>2, Moves DEF Fetching
    <2> QED
      BY <1>2, <2>1 DEF QuietSound, Fetching, FreshUntil, Failed
  <1>3. ASSUME NEW e, entry' = e, e.attempt = call[p].now, quiet' = FreshUntil(e),
               Fetching(p), clock > call[p].now, flight \in {p, Nobody},
               Becomes(p, Idle), clock' = clock
        PROVE  /\ QuietSound'
               /\ \A q \in Calls : ~Fetching(q) /\ Fetching(q)' => clock >= quiet
    <2>1. \A q \in Calls : q # p => ~Fetching(q)
      BY <1>3, OneFetch DEF CacheInv
    <2>2. \A q \in Calls : call'[q] = IF q = p THEN Idle ELSE call[q]
      BY <1>3, Moves
    <2>3. \A q \in Calls : ~Fetching(q)'
      BY <2>1, <2>2 DEF Fetching, Idle
    <2>4. FreshUntil(entry)' = FreshUntil(e)
      BY <1>3 DEF FreshUntil, Failed
    <2> QED
      BY <1>1, <1>3, <2>3, <2>4 DEF QuietSound
  <1>4. CASE GetCached(p)
    BY <1>4 DEF GetCached, callVars, QuietSound, Fetching, FreshUntil, Failed
  <1>5. CASE GetWaits(p)
    BY <1>2, <1>5 DEF GetWaits
  <1>6. CASE EnterCached(p)
    BY <1>2, <1>6 DEF EnterCached, Idle
  <1>7. CASE EnterFetches(p)
    <2>1. \A q \in Calls : call'[q] =
            IF q = p THEN [op |-> "asking", now |-> clock, prev |-> entry] ELSE call[q]
      BY <1>7, Moves DEF EnterFetches
    <2>2. clock >= quiet
      BY <1>7, NeedsFetchLater DEF EnterFetches
    <2>3. UNCHANGED <<clock, entry, quiet>>
      BY <1>7 DEF EnterFetches
    <2>4. ASSUME NEW q \in Calls, Fetching(q)'
          PROVE  call'[q].prev.attempt < call'[q].now
      BY <2>1, <2>4 DEF QuietSound, Fetching
    <2> QED
      BY <2>2, <2>3, <2>4 DEF QuietSound, FreshUntil, Failed
  <1>8. CASE PmAnswers(p)
    <2>1. \A q \in Calls : call'[q] =
            IF q = p THEN [op |-> "answered", now |-> call[p].now, prev |-> call[p].prev,
                           value |-> pm] ELSE call[q]
      BY <1>8, Moves DEF PmAnswers
    <2>2. Fetching(p) /\ UNCHANGED <<clock, entry, quiet>>
      BY <1>8 DEF PmAnswers, Fetching
    <2>3. ASSUME NEW q \in Calls, Fetching(q)'
          PROVE  Fetching(q) /\ call'[q].prev.attempt < call'[q].now
      BY <2>1, <2>2, <2>3 DEF QuietSound, Fetching
    <2> QED
      BY <2>2, <2>3 DEF QuietSound, FreshUntil, Failed
  <1>9. CASE FetchSucceeds(p)
    <2>1. Fetching(p) /\ flight = p
      BY <1>9 DEF FetchSucceeds, Fetching, CacheInv, CacheSound, FetchSound
    <2>2. /\ entry' = AnsweredEntry(call[p].value, call[p].now, Ttl(call[p].value))
          /\ quiet' = call[p].now + Ttl(call[p].value)
      BY <1>9 DEF FetchSucceeds
    <2> QED
      BY <1>3, <1>9, <2>1, <2>2, StoredUntil DEF FetchSucceeds
  <1>10. CASE FetchFails(p)
    <2>1. Fetching(p) /\ flight = p
      BY <1>10 DEF FetchFails, CacheInv, CacheSound, FetchSound
    <2> QED
      BY <1>3, <1>10, <2>1, StoredUntil DEF FetchFails
  <1>11. CASE Cancelled(p)
    BY <1>2, <1>11 DEF Cancelled, Idle
  <1> QED
    BY <1>4, <1>5, <1>6, <1>7, <1>8, <1>9, <1>10, <1>11 DEF CallStep

LEMMA QuietStep ==
    CacheTypeOK /\ CacheInv /\ QuietSound /\ [CacheNext]_cacheVars
        => QuietSound' /\ [\A p \in Calls : ~Fetching(p) /\ Fetching(p)'
                                => clock >= quiet]_cacheVars
  <1> SUFFICES ASSUME CacheTypeOK, CacheInv, QuietSound, [CacheNext]_cacheVars
               PROVE  /\ QuietSound'
                      /\ \A p \in Calls : ~Fetching(p) /\ Fetching(p)' => clock >= quiet
    OBVIOUS
  <1>1. CASE UNCHANGED cacheVars
    BY <1>1 DEF cacheVars, callVars, QuietSound, Fetching, FreshUntil, Failed
  <1>2. CASE Invalidate
    <2>1. entry' = NoEntry /\ quiet' = 0 /\ UNCHANGED <<clock, call>>
      BY <1>2 DEF Invalidate, callVars
    <2>2. NoEntry.attempt = -1 /\ clock \in Nat
      BY CacheNumbers DEF NoEntry, Never
    <2> QED
      BY <2>1, <2>2 DEF QuietSound, Fetching, FreshUntil
  <1>3. CASE PmChanges
    BY <1>3 DEF PmChanges, callVars, QuietSound, Fetching, FreshUntil, Failed
  <1>4. CASE Tick
    <2>1. UNCHANGED <<entry, call, quiet>> /\ clock' = clock + 1
      BY <1>4 DEF Tick, callVars
    <2>2. clock \in Nat /\ entry.attempt \in Int
      BY CacheNumbers
    <2> QED
      BY <2>1, <2>2 DEF QuietSound, Fetching, FreshUntil, Failed
  <1>5. ASSUME NEW p \in Calls, CallStep(p)
        PROVE  /\ QuietSound'
               /\ \A q \in Calls : ~Fetching(q) /\ Fetching(q)' => clock >= quiet
    BY <1>5, QuietCallStep
  <1> QED
    BY <1>1, <1>2, <1>3, <1>4, <1>5 DEF CacheNext

\* However calls, failures, cancellations and invalidations interleave, PM is not
\* asked before its last answer's TTL, or the negative TTL after a failure, is over.
THEOREM PmIsLeftAlone == CacheSpec => PmLeftAlone
  BY QuietInit, QuietStep, CacheInvariant, CacheTypeCorrect, PTL DEF CacheSpec, PmLeftAlone

-----------------------------------------------------------------------------
(* Refinement: the cache implements PolicySource. *)

\* The two bounds.
HardBound == HardTtl + MaxFetch
SoftBound == IF MaxFetch > MaxTtl THEN MaxFetch ELSE MaxTtl

LEMMA BoundsTyped == HardBound \in Nat /\ SoftBound \in Nat
  BY Numbers DEF HardBound, SoftBound

LEMMA OrderInit == CacheInit => ReplacedInOrder
  BY Numbers DEF CacheInit, ReplacedInOrder

LEMMA OrderStep ==
    CacheTypeOK /\ ReplacedInOrder /\ [CacheNext]_cacheVars => ReplacedInOrder'
  <1> SUFFICES ASSUME CacheTypeOK, ReplacedInOrder, [CacheNext]_cacheVars
               PROVE  ReplacedInOrder'
    OBVIOUS
  <1>1. /\ clock \in Nat /\ pm \in Nat /\ replaced \in [Versions -> Nat]
        /\ Versions \subseteq Nat
    BY CacheNumbers, Numbers
  <1>2. CASE PmChanges
    <2>1. /\ pm' = pm + 1 /\ clock' = clock /\ pm \in Versions
          /\ replaced'[pm] = clock
          /\ \A v \in Versions : v # pm => replaced'[v] = replaced[v]
      BY <1>1, <1>2 DEF PmChanges, CacheTypeOK
    <2> QED
      BY <1>1, <2>1 DEF ReplacedInOrder
  <1>3. CASE Tick
    <2>1. clock' = clock + 1 /\ pm' = pm /\ replaced' = replaced
      BY <1>3 DEF Tick, pmVars
    <2>2. \A v \in Versions : replaced[v] \in Nat
      BY <1>1
    <2> QED
      BY <1>1, <2>1, <2>2 DEF ReplacedInOrder
  <1>4. CASE UNCHANGED <<clock, pmVars>>
    BY <1>4 DEF pmVars, ReplacedInOrder
  <1> QED
    BY <1>2, <1>3, <1>4
    DEF CacheNext, cacheVars, CallStep, Invalidate, GetCached, GetWaits, EnterCached,
        EnterFetches, PmAnswers, FetchSucceeds, FetchFails, Cancelled

LEMMA OrderHolds == CacheSpec => []ReplacedInOrder
  BY OrderInit, OrderStep, CacheTypeCorrect, PTL DEF CacheSpec

\* A newly published version may be served, and the one it replaces still may.
LEMMA PublishedIsServable ==
    ASSUME CacheTypeOK, NEW bound \in Nat, PmChanges
    PROVE  NotOlderThan(bound)' = NotOlderThan(bound) \cup {pm'}
  <1>1. /\ clock \in Nat /\ pm \in Nat /\ replaced \in [Versions -> Nat] /\ pm \in Versions
        /\ 0..pm \subseteq Versions /\ Versions \subseteq Nat
    BY CacheNumbers, Numbers DEF CacheTypeOK, Versions
  <1>2. /\ pm' = pm + 1 /\ clock' = clock
        /\ replaced'[pm] = clock
        /\ \A v \in Versions : v # pm => replaced'[v] = replaced[v]
    BY <1>1 DEF PmChanges
  <1>3. 0..pm' = (0..pm) \cup {pm'} /\ pm' \notin 0..pm /\ pm' # pm
    BY <1>1, <1>2
  <1>4. \A v : v = pm' => ~Outdated(v, clock, bound)'
    BY <1>2 DEF Outdated
  <1>5. ASSUME NEW v \in 0..pm
        PROVE  Outdated(v, clock, bound)' <=> Outdated(v, clock, bound)
    <2>1. CASE v = pm
      BY <1>1, <1>2, <1>3, <2>1 DEF Outdated
    <2>2. CASE v # pm
      BY <1>1, <1>2, <1>3, <1>5, <2>2 DEF Outdated
    <2> QED
      BY <2>1, <2>2
  <1>6. NotOlderThan(bound)' = {v \in 0..pm' : ~Outdated(v, clock, bound)'}
    BY DEF NotOlderThan
  <1> QED
    BY <1>3, <1>4, <1>5, <1>6 DEF NotOlderThan

\* As time passes, the oldest answers go first.
LEMMA TimeDropsOldest ==
    ASSUME CacheTypeOK, ReplacedInOrder, NEW bound \in Nat, Tick
    PROVE  Source!DropsOldest(NotOlderThan(bound), NotOlderThan(bound)')
  <1>1. /\ clock \in Nat /\ pm \in Nat /\ replaced \in [Versions -> Nat] /\ pm \in Versions
        /\ 0..pm \subseteq Versions /\ Versions \subseteq Nat
    BY CacheNumbers, Numbers DEF CacheTypeOK, Versions
  <1>2. clock' = clock + 1 /\ UNCHANGED <<pm, replaced>>
    BY DEF Tick, pmVars
  <1>3. pm \in NotOlderThan(bound)'
    BY <1>1, <1>2 DEF NotOlderThan, Outdated
  <1>4. NotOlderThan(bound)' \subseteq NotOlderThan(bound)
    <2> SUFFICES ASSUME NEW v \in 0..pm, ~Outdated(v, clock, bound)'
                 PROVE  ~Outdated(v, clock, bound)
      BY <1>2 DEF NotOlderThan
    <2> QED
      BY <1>1, <1>2 DEF Outdated
  <1>5. ASSUME NEW v \in 0..pm, NEW w \in 0..pm,
               Outdated(v, clock, bound)', ~Outdated(w, clock, bound)'
        PROVE  v < w
    <2>1. v # pm /\ v < pm /\ replaced[v] + bound < clock + 1
      BY <1>1, <1>2, <1>5 DEF Outdated
    <2>2. CASE w = pm
      BY <2>1, <2>2
    <2>3. CASE w # pm
      <3>1. w < pm /\ ~(replaced[w] + bound < clock + 1)
        BY <1>1, <1>2, <1>5, <2>3 DEF Outdated
      <3>2. w <= v => w = v \/ replaced[w] <= replaced[v]
        BY <1>1, <2>1, <3>1 DEF ReplacedInOrder
      <3>3. v \in Nat /\ w \in Nat /\ replaced[v] \in Nat /\ replaced[w] \in Nat
        BY <1>1
      <3> QED
        BY <1>1, <2>1, <3>1, <3>2, <3>3
    <2> QED
      BY <2>2, <2>3
  <1> QED
    BY <1>2, <1>3, <1>4, <1>5 DEF Source!DropsOldest, NotOlderThan

\* A call that is given an answer is given one that the source may give.
LEMMA AnswerRefines ==
    ASSUME CacheTypeOK, CacheTypeOK', CacheInv', UNCHANGED <<clock, pm, maxAge, replaced>>,
           served'.version >= served.version, served'.at = clock,
           served'.ground # "none"
    PROVE  Source!Next
  <1> DEFINE v == served'.version
             outage == served'.ground = "outage"
  <1>1. /\ served'.version \in Nat /\ served'.version <= pm /\ pm \in Nat /\ clock' = clock
        /\ served'.ground \in {"none", "cached", "fetched", "outage"}
    <2>1. /\ served' \in [version : Versions, at : Time,
                          ground : {"none", "cached", "fetched", "outage"}]
          /\ served'.version <= pm'
      BY DEF CacheTypeOK, CacheInv, CacheSound
    <2> QED
      BY <2>1, CacheNumbers, Numbers
  <1>2. \A bound \in Nat : UNCHANGED NotOlderThan(bound)
    BY DEF NotOlderThan, Outdated
  <1>3. outage => v \in NotOlderThan(HardBound)
    BY <1>1 DEF CacheInv, WithdrawnWithinHardTtl, NotOlderThan, HardBound, Outdated
  <1>4. ~outage => v \in NotOlderThan(SoftBound)
    <2> SUFFICES ASSUME ~outage PROVE ~Outdated(v, clock, SoftBound)
      BY <1>1 DEF NotOlderThan
    <2> DEFINE age == OldestAge(v, served'.ground)
    <2>1. ~Outdated(v, clock, age)
      BY <1>1 DEF CacheInv, WithdrawnWithinTtl, OldestAge, Outdated
    <2>2. /\ v \in Versions /\ clock \in Nat /\ replaced[v] \in Nat
          /\ age \in Nat /\ age <= SoftBound
      <3>1. v \in Versions
        BY DEF CacheTypeOK
      <3> QED
        BY <3>1, CacheNumbers, OldestAgeTyped DEF SoftBound
    <2> HIDE DEF age, v
    <2> QED
      BY <2>1, <2>2, BoundsTyped DEF Outdated
  <1>5. Source!Answer(v, outage)
    BY <1>2, <1>3, <1>4, BoundsTyped DEF Source!Answer, HardBound, SoftBound
  <1>6. outage \in BOOLEAN
    OBVIOUS
  <1> QED
    BY <1>3, <1>4, <1>5, <1>6 DEF Source!Next, HardBound, SoftBound

\* A call's step gives an answer, dated now, or none.
LEMMA CallGives ==
    ASSUME NEW p \in Calls, CallStep(p)
    PROVE  /\ UNCHANGED <<clock, pm, maxAge, replaced>>
           /\ \/ UNCHANGED served
              \/ served'.at = clock /\ served'.ground \in {"cached", "fetched", "outage"}
  <1>1. CASE GetCached(p) \/ EnterCached(p)
    BY <1>1 DEF GetCached, EnterCached, Serves, Gives, pmVars
  <1>2. CASE FetchSucceeds(p) \/ FetchFails(p)
    BY <1>2 DEF FetchSucceeds, FetchFails, Gives, pmVars
  <1>3. CASE GetWaits(p) \/ EnterFetches(p) \/ PmAnswers(p) \/ Cancelled(p)
    BY <1>3 DEF GetWaits, EnterFetches, PmAnswers, Cancelled, pmVars
  <1> QED
    BY <1>1, <1>2, <1>3 DEF CallStep

LEMMA SourceInit == CacheInit => Source!Init
  <1> SUFFICES ASSUME CacheInit PROVE Source!Init
    OBVIOUS
  <1>1. pm = 0 /\ served = [version |-> 0, at |-> 0, ground |-> "none"]
    BY DEF CacheInit
  <1>2. \A bound : NotOlderThan(bound) = {0}
    <2>1. 0..pm = {0}
      BY <1>1
    <2> QED
      BY <1>1, <2>1 DEF NotOlderThan, Outdated
  <1> QED
    BY <1>1, <1>2 DEF Source!Init

LEMMA SourceStep ==
    /\ CacheTypeOK /\ CacheTypeOK' /\ CacheInv /\ CacheInv' /\ ReplacedInOrder
    /\ [CacheNext]_cacheVars
    => [Source!Next]_(Source!vars)
  <1> SUFFICES ASSUME CacheTypeOK, CacheTypeOK', CacheInv, CacheInv', ReplacedInOrder,
                      [CacheNext]_cacheVars
               PROVE  Source!Next \/ UNCHANGED Source!vars
    OBVIOUS
  <1>1. CASE UNCHANGED <<clock, pm, maxAge, replaced, served>>
    BY <1>1 DEF Source!vars, NotOlderThan, Outdated
  <1>2. CASE PmChanges
    <2>1. pm' = pm + 1 /\ UNCHANGED served
      BY <1>2 DEF PmChanges
    <2> QED
      BY <1>2, <2>1, PublishedIsServable, BoundsTyped
      DEF Source!Next, Source!Publish, HardBound, SoftBound
  <1>3. CASE Tick
    <2>1. UNCHANGED <<pm, served>>
      BY <1>3 DEF Tick, pmVars
    <2> QED
      BY <1>3, <2>1, TimeDropsOldest, BoundsTyped
      DEF Source!Next, Source!Forget, HardBound, SoftBound
  <1>4. ASSUME NEW p \in Calls, CallStep(p)
        PROVE  Source!Next \/ UNCHANGED Source!vars
    <2>1. served'.version >= served.version
      BY <1>4, SoundCallStep
    <2> QED
      BY <1>1, <1>4, <2>1, CallGives, AnswerRefines
  <1> QED
    BY <1>1, <1>2, <1>3, <1>4
    DEF CacheNext, cacheVars, Invalidate, pmVars

\* The cache implements its abstract source: versions are published one after the
\* other, only the latest can be answered, and answers do not go back.
THEOREM ImplementsSource == CacheSpec => SourceRefined
  BY SourceInit, SourceStep, CacheInvariant, CacheTypeCorrect, OrderHolds, PTL
  DEF CacheSpec, SourceRefined, Source!Spec

-----------------------------------------------------------------------------
(* What the cache may serve is a window of versions, as ConsentGrants has it *)

\* Naturals up to n that include all above any of theirs are those from one on.
LEMMA UpwardIsWindow ==
    ASSUME NEW n \in Nat, NEW S \in SUBSET (0..n), n \in S,
           \A v \in S, w \in 0..n : v < w => w \in S
    PROVE  \E lo \in 0..n : S = lo..n
  <1>1. IsFiniteSet(S)
    <2>1. IsFiniteSet(0..n)
      BY FS_Interval
    <2> QED
      BY <2>1, FS_Subset
  <1> DEFINE size == Cardinality(S)
  <1>2. size \in Nat
    BY <1>1, FS_CardinalityType
  <1>3. ASSUME NEW v \in S PROVE n - v + 1 <= size
    <2>1. v \in Int /\ v <= n /\ v..n \in SUBSET S
      OBVIOUS
    <2>2. Cardinality(v..n) = n - v + 1
      BY <2>1, FS_Interval
    <2> QED
      BY <1>1, <2>1, <2>2, FS_Subset
  <1>4. size > 0 /\ size <= n + 1
    <2>1. Cardinality(0..n) = n + 1 /\ IsFiniteSet(0..n)
      BY FS_Interval
    <2>2. size <= n + 1
      BY <2>1, FS_Subset
    <2> QED
      BY <1>2, <1>3, <2>2
  <1> DEFINE lo == n + 1 - size
  <1>5. lo \in 0..n /\ lo \in Int
    BY <1>2, <1>4
  <1>6. S \in SUBSET (lo..n)
    BY <1>2, <1>3, <1>5
  <1>7. IsFiniteSet(lo..n) /\ Cardinality(lo..n) = size
    <2>1. IsFiniteSet(lo..n) /\ Cardinality(lo..n) = n - lo + 1
      BY <1>5, FS_Interval
    <2> QED
      BY <1>2, <2>1
  <1>8. S = lo..n
    BY <1>6, <1>7, FS_Subset
  <1> QED
    BY <1>5, <1>8

\* Dropping the oldest of a window's versions leaves a window.
LEMMA DroppingKeepsWindow ==
    ASSUME NEW n \in Nat, NEW old, NEW new, \E lo \in 0..n : old = lo..n,
           n \in new, new \subseteq old, \A v \in old \ new, w \in new : v < w
    PROVE  \E lo \in 0..n : new = lo..n
  <1>1. PICK first \in 0..n : old = first..n
    OBVIOUS
  <1>2. new \in SUBSET (0..n)
    BY <1>1
  <1>3. ASSUME NEW v \in new, NEW w \in 0..n, v < w PROVE w \in new
    <2>1. w \in old
      BY <1>1, <1>2, <1>3
    <2> QED
      BY <1>2, <1>3, <2>1
  <1> QED
    BY <1>2, <1>3, UpwardIsWindow

LEMMA WindowsStep ==
    ASSUME pm \in Nat, pm' \in Nat, Source!Windows, [Source!Next]_(Source!vars)
    PROVE  Source!Windows'
  <1> DEFINE Readable == NotOlderThan(HardTtl + MaxFetch)
             Fresh == NotOlderThan(IF MaxFetch > MaxTtl THEN MaxFetch ELSE MaxTtl)
             Window(set, n) == \E lo \in 0..n : set = lo..n
  <1>1. Window(Readable, pm) /\ Window(Fresh, pm)
    BY DEF Source!Windows, Source!IsWindow
  <1>2. SUFFICES Window(Readable', pm') /\ Window(Fresh', pm')
    BY DEF Source!Windows, Source!IsWindow
  <1>3. CASE UNCHANGED Source!vars
    BY <1>1, <1>3 DEF Source!vars
  <1>4. CASE Source!Publish
    <2>1. /\ pm' = pm + 1 /\ Readable' = Readable \cup {pm'} /\ Fresh' = Fresh \cup {pm'}
      BY <1>4 DEF Source!Publish
    <2> HIDE DEF Readable, Fresh
    <2>2. ASSUME NEW set, Window(set, pm) PROVE Window(set \cup {pm + 1}, pm + 1)
      <3>1. PICK lo \in 0..pm : set = lo..pm
        BY <2>2
      <3>2. lo \in 0..(pm + 1) /\ set \cup {pm + 1} = lo..(pm + 1)
        BY <3>1
      <3> QED
        BY <3>2
    <2> HIDE DEF Window
    <2> QED
      BY <1>1, <2>1, <2>2
  <1>5. CASE Source!Forget
    <2>1. /\ pm' = pm
          /\ pm \in Readable' /\ Readable' \subseteq Readable
          /\ \A v \in Readable \ Readable', w \in Readable' : v < w
          /\ pm \in Fresh' /\ Fresh' \subseteq Fresh
          /\ \A v \in Fresh \ Fresh', w \in Fresh' : v < w
      BY <1>5 DEF Source!Forget, Source!DropsOldest
    <2> HIDE DEF Readable, Fresh
    <2>2. ASSUME NEW old, NEW new, Window(old, pm), pm \in new, new \subseteq old,
                 \A v \in old \ new, w \in new : v < w
          PROVE  Window(new, pm)
      BY <2>2, DroppingKeepsWindow
    <2> HIDE DEF Window
    <2>3. Window(Readable', pm)
      BY <1>1, <2>1, <2>2
    <2>4. Window(Fresh', pm)
      BY <1>1, <2>1, <2>2
    <2> QED
      BY <2>1, <2>3, <2>4
  <1>6. ASSUME NEW v, NEW outage, Source!Answer(v, outage)
        PROVE  Window(Readable', pm') /\ Window(Fresh', pm')
    BY <1>1, <1>6 DEF Source!Answer
  <1> QED
    BY <1>3, <1>4, <1>5, <1>6 DEF Source!Next

LEMMA ForwardStep ==
    ASSUME pm \in Nat, [Source!Next]_(Source!vars)
    PROVE  [Source!MovesForward]_(Source!vars)
  <1> DEFINE Readable == NotOlderThan(HardTtl + MaxFetch)
             Fresh == NotOlderThan(IF MaxFetch > MaxTtl THEN MaxFetch ELSE MaxTtl)
  <1>1. CASE Source!Publish
    <2>1. /\ pm' = pm + 1 /\ Readable' = Readable \cup {pm'} /\ Fresh' = Fresh \cup {pm'}
      BY <1>1 DEF Source!Publish
    <2> HIDE DEF Readable, Fresh
    <2>2. \A v \in 0..pm : /\ v \notin Readable => v \notin Readable'
                           /\ v \notin Fresh => v \notin Fresh'
      BY <2>1
    <2> QED
      BY <2>2 DEF Readable, Fresh, Source!MovesForward
  <1>2. CASE Source!Forget
    BY <1>2 DEF Source!Forget, Source!DropsOldest, Source!MovesForward
  <1>3. ASSUME NEW v, NEW outage, Source!Answer(v, outage)
        PROVE  Source!MovesForward
    BY <1>3 DEF Source!Answer, Source!MovesForward
  <1> QED
    BY <1>1, <1>2, <1>3 DEF Source!Next

\* What the cache may serve are always the versions from some version on, and that
\* version is never succeeded by an older one: the policies ConsentGrants reads.
THEOREM ServesLatestVersions == CacheSpec => []Source!Windows /\ Source!WindowsMoveForward
  <1>1. CacheSpec => [](pm \in Nat) /\ [][Source!Next]_(Source!vars)
    <2>1. CacheTypeOK => pm \in Nat
      BY Numbers DEF CacheTypeOK
    <2> QED
      BY <2>1, CacheTypeCorrect, ImplementsSource, PTL DEF SourceRefined, Source!Spec
  <1>2. CacheInit => Source!Windows
    <2> SUFFICES ASSUME CacheInit PROVE Source!Windows
      OBVIOUS
    <2>1. Source!Init /\ 0 \in 0..0 /\ {0} = 0..0
      BY SourceInit
    <2>2. pm = 0
      BY DEF CacheInit
    <2> QED
      BY <2>1, <2>2 DEF Source!Init, Source!Windows, Source!IsWindow
  <1>3. pm \in Nat /\ (pm \in Nat)' /\ Source!Windows /\ [Source!Next]_(Source!vars)
          => Source!Windows'
    BY WindowsStep
  <1>4. CacheSpec => []Source!Windows
    BY <1>1, <1>2, <1>3, PTL DEF CacheSpec
  <1>5. CacheSpec => Source!WindowsMoveForward
    BY <1>1, ForwardStep, PTL DEF Source!WindowsMoveForward
  <1> QED
    BY <1>4, <1>5
=============================================================================
