---------------------------- MODULE RemoteReads ----------------------------
(***************************************************************************)
(* What the Consent Manager reads from services it does not run and keeps  *)
(* for a while in the memory of a pod: the status of a consent token at    *)
(* its issuer and the issuer's keys (ExchangeService), a use case of the   *)
(* Composite (CompositeClient), a code list of Master Data                 *)
(* (MasterDataClient). None of these caches has a lock: calls that find    *)
(* nothing to use ask at the same time, and store in the order in which    *)
(* the responses arrive, which need not be the order of the questions, nor *)
(* that in which the service answered them.                                *)
(*                                                                         *)
(* One key of one cache is modelled; "kind" says whose. What the service   *)
(* would say is a sequence of versions, each with the time it came; of an  *)
(* issuer's JWKS a version is the set of the kids in it, of a code list    *)
(* that of its codes, and a list that is absent has none.                  *)
(***************************************************************************)
EXTENDS Naturals, Sequences

CONSTANTS
    Calls,      \* calls that read
    Kids,       \* key ids
    Codes,      \* values of a code list
    NoKid,      \* what a call asks for that does not look for a key
    NoEntry,    \* nothing is cached
    Ttl,        \* *_cache_ttl_seconds: how long an answer is used
    FailureTtl, \* _FAILURE_TTL: at most this long is a code list unreadable
    Cooldown,   \* receipt_jwks_refresh_cooldown_seconds
    MaxChanges, \* bound: how often the service changes its answer
    MaxClock    \* bound of the clock

ASSUME ReadsAssumption ==
    Ttl \in Nat /\ FailureTtl \in Nat /\ Cooldown \in Nat /\ MaxClock \in Nat

\* "answer" is the status of a token, and a use case: the same code twice.
Kinds == {"answer", "code list", "issuer keys"}

VARIABLES
    kind,   \* which cache this is
    clock,  \* time.monotonic()
    source, \* the versions the service has had, the last one being current
    entry,  \* what is cached
    call,   \* call[p]: the progress of call p
    failed  \* history: when a read last failed

readVars == <<kind, clock, source, entry, call, failed>>

Times == 0..MaxClock

Version == [from : Times, holds : SUBSET (Kids \cup Codes)]

\* Version 0 is no version: nothing could be read.
Unreadable == 0

Answer == [at : Times, version : Nat]

ASSUME NoEntryAssumption == NoEntry \notin Answer

Entry == Answer \cup {NoEntry}

IdleCall == [phase |-> "idle"]

\* "held" is the entry that the call found. A call whose own read failed ends
\* "unread", with what it makes do with.
CallState ==
    {IdleCall}
    \cup [phase : {"asked"}, kid : Kids \cup {NoKid}, now : Times, held : Entry]
    \cup [phase : {"served"}, kid : Kids \cup {NoKid}, now : Times, held : Entry, version : Nat]
    \cup [phase : {"answered", "unread"}, kid : Kids \cup {NoKid}, now : Times, version : Nat]

KeySets == SUBSET Kids

\* Empty also stands for "absent", and for a list with retired values only.
CodeLists == SUBSET Codes

\* Token statuses and use cases are told apart by their versions alone.
Contents ==
    CASE kind = "issuer keys" -> KeySets
      [] kind = "code list"   -> CodeLists
      [] kind = "answer"      -> {{}}

Asked == IF kind = "issuer keys" THEN Kids ELSE {NoKid}

ReadsInit ==
    /\ kind \in Kinds
    /\ clock = 0
    /\ \E holds \in Contents : source = <<[from |-> 0, holds |-> holds]>>
    /\ entry = NoEntry
    /\ call = [p \in Calls |-> IdleCall]
    /\ failed = 0

-----------------------------------------------------------------------------
(* Time passes; the service changes what it says. *)

Tick ==
    /\ clock < MaxClock
    /\ clock' = clock + 1
    /\ UNCHANGED <<kind, source, entry, call, failed>>

Publish(holds) ==
    /\ Len(source) <= MaxChanges
    /\ source' = Append(source, [from |-> clock, holds |-> holds])
    /\ UNCHANGED <<kind, clock, entry, call, failed>>

-----------------------------------------------------------------------------

Knows(version, kid) == version # Unreadable /\ kid \in source[version].holds

\* What a code list's answer stands for when there is nothing to choose from.
FreeText(version) == version = Unreadable \/ source[version].holds = {}

\* Slip: all that means free text is kept as long as a list.
LifetimeAlike(version) == Ttl

\* The failure TTL is for a list that could not be read; one that was read and
\* is absent or empty is kept like any other answer.
Lifetime(version) ==
    IF kind = "code list" /\ version = Unreadable /\ FailureTtl < Ttl
    THEN FailureTtl ELSE Ttl

Fresh(now) == now - entry.at < Lifetime(entry.version)

\* Slip: an unknown kid waits for the TTL like anything else.
UsableUnlessStale(kid, now) == entry # NoEntry /\ Fresh(now)

\* Is the entry used at this time, or asked anew? Keys are asked for earlier
\* when the kid is not among them, but not again within the cooldown.
Usable(kid, now) ==
    /\ entry # NoEntry
    /\ Fresh(now)
    /\ kind = "issuer keys" /\ ~Knows(entry.version, kid) => now - entry.at < Cooldown

Ended(phase, kid, now, version) ==
    [phase |-> phase, kid |-> kid, now |-> now, version |-> version]

\* The call takes the time and looks into the cache.
Ask(p, kid) ==
    /\ call[p].phase \in {"idle", "answered", "unread"}
    /\ call' = [call EXCEPT ![p] =
        IF Usable(kid, clock) THEN Ended("answered", kid, clock, entry.version)
        ELSE [phase |-> "asked", kid |-> kid, now |-> clock, held |-> entry]]
    /\ UNCHANGED <<kind, clock, source, entry, failed>>

\* The service answers; the response is on its way.
Serve(p) ==
    /\ call[p].phase = "asked"
    /\ call' = [call EXCEPT ![p] =
        [phase |-> "served", kid |-> call[p].kid, now |-> call[p].now,
         held |-> call[p].held, version |-> Len(source)]]
    /\ UNCHANGED <<kind, clock, source, entry, failed>>

Stores(at, version) == entry' = [at |-> at, version |-> version]

\* Slip: the answer's age is counted from its arrival.
ArriveDatedNow(p) ==
    /\ call[p].phase = "served"
    /\ Stores(clock, call[p].version)
    /\ call' = [call EXCEPT ![p] =
        Ended("answered", call[p].kid, call[p].now, call[p].version)]
    /\ UNCHANGED <<kind, clock, source, failed>>

\* The response is in: it is stored, whatever is stored already, as of the
\* time at which the call began.
Arrive(p) ==
    /\ call[p].phase = "served"
    /\ Stores(call[p].now, call[p].version)
    /\ call' = [call EXCEPT ![p] =
        Ended("answered", call[p].kid, call[p].now, call[p].version)]
    /\ UNCHANGED <<kind, clock, source, failed>>

\* The service cannot be reached, or answers with an error. A code list is then
\* taken to be free text for a while; the keys that the call found are used
\* however old they are; anything else is unavailable, and nothing is stored.
Fail(p) ==
    /\ call[p].phase \in {"asked", "served"}
    /\ IF kind = "code list" THEN Stores(call[p].now, Unreadable) ELSE UNCHANGED entry
    /\ call' = [call EXCEPT ![p] =
        Ended("unread", call[p].kid, call[p].now,
              IF kind = "issuer keys" /\ call[p].held # NoEntry
              THEN call[p].held.version ELSE Unreadable)]
    /\ failed' = clock
    /\ UNCHANGED <<kind, clock, source>>

\* clear_caches and invalidate.
Clear ==
    /\ entry' = NoEntry
    /\ UNCHANGED <<kind, clock, source, call, failed>>

\* The pod is restarted.
Restart ==
    /\ entry' = NoEntry
    /\ call' = [p \in Calls |-> IdleCall]
    /\ UNCHANGED <<kind, clock, source, failed>>

ReadsNext ==
    \/ Tick
    \/ \E holds \in Contents : Publish(holds)
    \/ \E p \in Calls : (\E kid \in Asked : Ask(p, kid)) \/ Serve(p) \/ Arrive(p) \/ Fail(p)
    \/ Clear
    \/ Restart

ReadsSpec == ReadsInit /\ [][ReadsNext]_readVars

-----------------------------------------------------------------------------
(* Properties *)

ReadsTypeOK ==
    /\ kind \in Kinds
    /\ clock \in Times
    /\ source \in Seq(Version) /\ Len(source) >= 1
    /\ entry \in Entry
    /\ call \in [Calls -> CallState]
    /\ failed \in Times

\* With these versions: this one was still current at that time, or later.
SaidSince(versions, v, time) ==
    /\ v \in 1..Len(versions)
    /\ v = Len(versions) \/ versions[v + 1].from >= time

\* It still was less than "age" before "now", or later.
SaidWithin(versions, v, age, now) ==
    \/ SaidSince(versions, v, now)
    \/ v + 1 \in 2..Len(versions) /\ versions[v + 1].from + age > now

\* However responses overtake each other: what a call is answered, the service
\* itself said less than the TTL before the call began. A revoked token is
\* refused from then on, and a key that left the issuer's JWKS. (Keys are used
\* for longer only by a call whose own read failed.)
AnswersWithinTtl ==
    \A p \in Calls :
        call[p].phase = "answered" /\ call[p].version # Unreadable =>
            SaidWithin(source, call[p].version, Ttl, call[p].now)

\* A key that the issuer has had in its JWKS for the cooldown is known to every
\* call whose read, if it had to make one, did not fail.
NewKeyIsFound ==
    \A p \in Calls :
        /\ kind = "issuer keys" /\ call[p].phase = "answered"
        /\ \A v \in 1..Len(source) :
            SaidWithin(source, v, Cooldown, call[p].now) => call[p].kid \in source[v].holds
        => Knows(call[p].version, call[p].kid)

\* The cache says that any text will do, in place of a code list, for a reason
\* of late: a read failed less than the failure TTL before the call, or Master
\* Data itself had no such list, or an empty one, less than the TTL before. So a
\* short outage does not leave a list that exists unenforced for as long as a
\* list is kept, in whatever order reads failed and succeeded.
FreeTextForAReason ==
    \A p \in Calls :
        kind = "code list" /\ call[p].phase = "answered" /\ FreeText(call[p].version) =>
            \/ failed + FailureTtl > call[p].now
            \/ \E v \in 1..Len(source) :
                source[v].holds = {} /\ SaidWithin(source, v, Ttl, call[p].now)
=============================================================================
