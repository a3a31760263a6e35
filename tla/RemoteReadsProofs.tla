-------------------------- MODULE RemoteReadsProofs --------------------------
(* Theorems of RemoteReads, for every value of the constants. *)
EXTENDS RemoteReads, TLAPS

-----------------------------------------------------------------------------
(* Type correctness *)

LEMMA Numbers == Times \subseteq Nat /\ 0 \in Times /\ Ttl \in Nat /\ Cooldown \in Nat
                 /\ FailureTtl \in Nat /\ MaxClock \in Nat
  BY ReadsAssumption DEF Times

\* The fields that a call's phase says it has.
LEMMA CallFields ==
    ASSUME NEW c \in CallState
    PROVE  /\ c.phase # "idle" => c.kid \in Kids \cup {NoKid} /\ c.now \in Times
           /\ c.phase \in {"asked", "served"} => c.held \in Entry
           /\ c.phase \in {"served", "answered", "unread"} => c.version \in Nat
  BY DEF CallState, IdleCall

LEMMA EntryFields ==
    ASSUME NEW e \in Entry, e # NoEntry PROVE e.at \in Times /\ e.version \in Nat
  BY DEF Entry, Answer

LEMMA SourceFields ==
    ASSUME ReadsTypeOK, NEW v \in 1..Len(source)
    PROVE  source[v] \in Version /\ source[v].from \in Times
  <1>1. source[v] \in Version
    BY DEF ReadsTypeOK
  <1> QED
    BY <1>1 DEF Version

LEMMA EndedTyped ==
    ASSUME NEW kid \in Kids \cup {NoKid}, NEW now \in Times, NEW version \in Nat,
           NEW phase \in {"answered", "unread"}
    PROVE  Ended(phase, kid, now, version) \in CallState
  BY DEF Ended, CallState

\* A call moves without disturbing the others.
LEMMA Moves ==
    ASSUME ReadsTypeOK, NEW p \in Calls, NEW next, call' = [call EXCEPT ![p] = next]
    PROVE  \A q \in Calls : call'[q] = IF q = p THEN next ELSE call[q]
  BY DEF ReadsTypeOK

LEMMA CallTyped ==
    ASSUME ReadsTypeOK, NEW p \in Calls, NEW next \in CallState,
           call' = [call EXCEPT ![p] = next]
    PROVE  call' \in [Calls -> CallState]
  BY DEF ReadsTypeOK

LEMMA InitTyped == ReadsInit => ReadsTypeOK
  <1> SUFFICES ASSUME ReadsInit PROVE ReadsTypeOK
    OBVIOUS
  <1>1. PICK holds \in Contents : source = <<[from |-> 0, holds |-> holds]>>
    BY DEF ReadsInit
  <1>2. [from |-> 0, holds |-> holds] \in Version
    BY Numbers DEF Version, Contents, KeySets, CodeLists, Kinds, ReadsInit
  <1>3. source \in Seq(Version) /\ Len(source) = 1
    BY <1>1, <1>2
  <1>4. entry \in Entry /\ call \in [Calls -> CallState]
    BY DEF ReadsInit, Entry, CallState
  <1> QED
    BY <1>3, <1>4, Numbers DEF ReadsInit, ReadsTypeOK

LEMMA StepTyped == ReadsTypeOK /\ [ReadsNext]_readVars => ReadsTypeOK'
  <1> SUFFICES ASSUME ReadsTypeOK, [ReadsNext]_readVars PROVE ReadsTypeOK'
    OBVIOUS
  <1>1. CASE Tick
    BY <1>1, Numbers DEF Tick, ReadsTypeOK, Times
  <1>2. ASSUME NEW holds \in Contents, Publish(holds) PROVE ReadsTypeOK'
    <2>1. [from |-> clock, holds |-> holds] \in Version
      BY DEF Version, Contents, KeySets, CodeLists, Kinds, ReadsTypeOK
    <2>2. source' \in Seq(Version) /\ Len(source') >= 1
      BY <1>2, <2>1 DEF Publish, ReadsTypeOK
    <2> QED
      BY <1>2, <2>2 DEF Publish, ReadsTypeOK
  <1>3. ASSUME NEW p \in Calls, NEW kid \in Asked, Ask(p, kid) PROVE ReadsTypeOK'
    <2>1. kid \in Kids \cup {NoKid} /\ clock \in Times
      BY DEF Asked, ReadsTypeOK
    <2>2. entry \in Entry /\ (entry # NoEntry => entry.version \in Nat)
      BY EntryFields DEF ReadsTypeOK
    <2>3. [phase |-> "asked", kid |-> kid, now |-> clock, held |-> entry] \in CallState
      BY <2>1, <2>2 DEF CallState
    <2>4. Usable(kid, clock) => Ended("answered", kid, clock, entry.version) \in CallState
      BY <2>1, <2>2, EndedTyped DEF Usable
    <2>5. call' \in [Calls -> CallState]
      BY <1>3, <2>3, <2>4, CallTyped DEF Ask
    <2> QED
      BY <1>3, <2>5 DEF Ask, ReadsTypeOK
  <1>4. ASSUME NEW p \in Calls, Serve(p) PROVE ReadsTypeOK'
    <2>1. /\ call[p] \in CallState /\ Len(source) \in Nat
          /\ call[p].kid \in Kids \cup {NoKid} /\ call[p].now \in Times
          /\ call[p].held \in Entry
      BY <1>4, CallFields DEF Serve, ReadsTypeOK
    <2>2. [phase |-> "served", kid |-> call[p].kid, now |-> call[p].now,
           held |-> call[p].held, version |-> Len(source)] \in CallState
      BY <2>1 DEF CallState
    <2>3. call' \in [Calls -> CallState]
      BY <1>4, <2>2, CallTyped DEF Serve
    <2> QED
      BY <1>4, <2>3 DEF Serve, ReadsTypeOK
  <1>5. ASSUME NEW p \in Calls, Arrive(p) PROVE ReadsTypeOK'
    <2>1. /\ call[p].kid \in Kids \cup {NoKid} /\ call[p].now \in Times
          /\ call[p].version \in Nat
      BY <1>5, CallFields DEF Arrive, ReadsTypeOK
    <2>2. entry' \in Entry
      BY <1>5, <2>1 DEF Arrive, Stores, Entry, Answer
    <2>3. call' \in [Calls -> CallState]
      BY <1>5, <2>1, EndedTyped, CallTyped DEF Arrive
    <2> QED
      BY <1>5, <2>2, <2>3 DEF Arrive, ReadsTypeOK
  <1>6. ASSUME NEW p \in Calls, Fail(p) PROVE ReadsTypeOK'
    <2>1. /\ call[p].kid \in Kids \cup {NoKid} /\ call[p].now \in Times
          /\ call[p].held \in Entry
      BY <1>6, CallFields DEF Fail, ReadsTypeOK
    <2>2. entry' \in Entry
      <3>1. [at |-> call[p].now, version |-> Unreadable] \in Entry
        BY <2>1 DEF Entry, Answer, Unreadable
      <3> QED
        BY <1>6, <3>1 DEF Fail, Stores, ReadsTypeOK
    <2> DEFINE version == IF kind = "issuer keys" /\ call[p].held # NoEntry
                          THEN call[p].held.version ELSE Unreadable
    <2>3. version \in Nat
      BY <2>1, EntryFields DEF Unreadable
    <2>4. call' \in [Calls -> CallState]
      BY <1>6, <2>1, <2>3, EndedTyped, CallTyped DEF Fail
    <2> QED
      BY <1>6, <2>2, <2>4 DEF Fail, ReadsTypeOK
  <1>7. CASE Clear
    BY <1>7 DEF Clear, ReadsTypeOK, Entry
  <1>8. CASE Restart
    BY <1>8 DEF Restart, ReadsTypeOK, Entry, CallState
  <1>9. CASE UNCHANGED readVars
    BY <1>9 DEF readVars, ReadsTypeOK
  <1> QED
    BY <1>1, <1>2, <1>3, <1>4, <1>5, <1>6, <1>7, <1>8, <1>9 DEF ReadsNext

\* The constants' bounds are all that ReadsTypeOK rests on.
THEOREM ReadsTypeCorrect == ReadsSpec => []ReadsTypeOK
  BY InitTyped, StepTyped, PTL DEF ReadsSpec

-----------------------------------------------------------------------------
(* Times and ages *)

LEMMA LaterStill == \A a, b, c \in Nat : a <= b /\ c >= b => a <= c
  OBVIOUS

LEMMA LaterEnds == \A a, b, age, now \in Nat : a + age > now /\ b >= a => b + age > now
  OBVIOUS

LEMMA YoungEnds == \A a, b, age, now \in Nat : now - a < age /\ a <= b => b + age > now
  OBVIOUS

LEMMA LongerEnds ==
    \A b, age, longer, now \in Nat : b + age > now /\ ~(longer < age) => b + longer > now
  OBVIOUS

-----------------------------------------------------------------------------
(* What the service said. Versions are only added, and the last one added is *)
(* of now: what was said since a time, or within an age, stays so.           *)

SourceGrows ==
    \/ UNCHANGED source
    \/ \E holds \in Contents : source' = Append(source, [from |-> clock, holds |-> holds])

LEMMA Grown ==
    ASSUME ReadsTypeOK, SourceGrows
    PROVE  /\ Len(source') \in Nat /\ Len(source') >= Len(source)
           /\ \A v \in 1..Len(source) : source'[v] = source[v]
           /\ Len(source') > Len(source) =>
                Len(source') = Len(source) + 1 /\ source'[Len(source) + 1].from = clock
  <1>1. CASE UNCHANGED source
    BY <1>1 DEF ReadsTypeOK
  <1>2. ASSUME NEW holds \in Contents,
               source' = Append(source, [from |-> clock, holds |-> holds])
        PROVE  /\ Len(source') = Len(source) + 1
               /\ source'[Len(source) + 1].from = clock
               /\ \A v \in 1..Len(source) : source'[v] = source[v]
    <2>1. [from |-> clock, holds |-> holds] \in Version
      BY DEF Version, Contents, KeySets, CodeLists, Kinds, ReadsTypeOK
    <2> DEFINE new == [from |-> clock, holds |-> holds]
    <2>2. new \in Version /\ new.from = clock /\ source \in Seq(Version)
          /\ source' = Append(source, new)
      BY <1>2, <2>1 DEF ReadsTypeOK
    <2> HIDE DEF new
    <2>3. Len(source') = Len(source) + 1 /\ source'[Len(source) + 1] = new
          /\ \A v \in 1..Len(source) : source'[v] = source[v]
      BY <2>2
    <2> QED
      BY <2>2, <2>3
  <1>3. Len(source) \in Nat
    BY DEF ReadsTypeOK
  <1>4. CASE \E holds \in Contents : source' = Append(source, [from |-> clock, holds |-> holds])
    BY <1>2, <1>3, <1>4
  <1> QED
    BY <1>1, <1>4 DEF SourceGrows

LEMMA SaidSinceStays ==
    ASSUME ReadsTypeOK, SourceGrows, NEW v \in Nat, NEW time \in Times, time <= clock,
           SaidSince(source, v, time)
    PROVE  SaidSince(source', v, time)
  <1>1. v \in 1..Len(source) /\ Len(source) \in Nat /\ v \in 1..Len(source')
    BY Grown DEF SaidSince, ReadsTypeOK
  <1>2. CASE v = Len(source)
    BY <1>1, <1>2, Grown, Numbers DEF SaidSince, ReadsTypeOK
  <1>3. CASE v # Len(source)
    <2>1. v + 1 \in 1..Len(source) /\ source[v + 1].from >= time
      BY <1>1, <1>3 DEF SaidSince
    <2>2. source'[v + 1] = source[v + 1]
      BY <2>1, Grown
    <2> QED
      BY <1>1, <2>1, <2>2 DEF SaidSince
  <1> QED
    BY <1>2, <1>3

LEMMA SaidWithinStays ==
    ASSUME ReadsTypeOK, SourceGrows, NEW v \in Nat, NEW age \in Nat, NEW now \in Times,
           now <= clock, SaidWithin(source, v, age, now)
    PROVE  SaidWithin(source', v, age, now)
  <1>1. CASE SaidSince(source, v, now)
    BY <1>1, SaidSinceStays DEF SaidWithin
  <1>2. CASE v + 1 \in 2..Len(source) /\ source[v + 1].from + age > now
    <2>1. v + 1 \in 1..Len(source) /\ v + 1 \in 2..Len(source')
      BY <1>2, Grown DEF ReadsTypeOK
    <2> QED
      BY <1>2, <2>1, Grown DEF SaidWithin
  <1> QED
    BY <1>1, <1>2 DEF SaidWithin

LEMMA SaidIsVersion ==
    ASSUME ReadsTypeOK, NEW v \in Nat, NEW age, NEW now, SaidWithin(source, v, age, now)
    PROVE  v \in 1..Len(source)
  <1>1. Len(source) \in Nat
    BY DEF ReadsTypeOK
  <1>2. CASE v + 1 \in 2..Len(source)
    BY <1>1, <1>2
  <1> QED
    BY <1>2 DEF SaidWithin, SaidSince

\* What is cached is of the time it is dated with, and not too old to be used.
LEMMA FreshIsWithin ==
    ASSUME ReadsTypeOK, NEW v \in Nat, NEW at \in Times, NEW now \in Times, NEW age \in Nat,
           SaidSince(source, v, at), now - at < age, at <= now
    PROVE  SaidWithin(source, v, age, now)
  <1>1. v \in 1..Len(source) /\ Len(source) \in Nat
    BY DEF SaidSince, ReadsTypeOK
  <1>2. CASE v = Len(source)
    BY <1>1, <1>2 DEF SaidWithin, SaidSince
  <1>3. CASE v # Len(source)
    <2>1. v + 1 \in 1..Len(source) /\ v + 1 \in 2..Len(source) /\ source[v + 1].from >= at
      BY <1>1, <1>3 DEF SaidSince
    <2>2. source[v + 1].from \in Nat
      BY <2>1, SourceFields, Numbers
    <2> QED
      BY <2>1, <2>2, Numbers DEF SaidWithin
  <1> QED
    BY <1>2, <1>3

-----------------------------------------------------------------------------
(* The invariant: what is cached, or under way, is what the service said     *)
(* when the call that asked began, or later. What an answer promises is said *)
(* call by call.                                                             *)

EntrySound ==
    entry # NoEntry =>
        /\ entry.at <= clock
        /\ \/ SaidSince(source, entry.version, entry.at)
           \/ kind = "code list" /\ entry.version = Unreadable /\ entry.at <= failed

ReadSound(p) ==
    /\ call[p].phase # "idle" => call[p].now <= clock
    /\ call[p].phase = "served" => SaidSince(source, call[p].version, call[p].now)

WithinTtl(p) ==
    call[p].phase = "answered" /\ call[p].version # Unreadable =>
        SaidWithin(source, call[p].version, Ttl, call[p].now)

KeyFound(p) ==
    /\ kind = "issuer keys" /\ call[p].phase = "answered"
    /\ \A v \in 1..Len(source) :
        SaidWithin(source, v, Cooldown, call[p].now) => call[p].kid \in source[v].holds
    => Knows(call[p].version, call[p].kid)

FreeTextJustified(p) ==
    /\ kind = "code list" /\ call[p].phase = "answered"
    /\ call[p].version = Unreadable
    => failed + FailureTtl > call[p].now

Kept(p) == ReadSound(p) /\ WithinTtl(p) /\ KeyFound(p) /\ FreeTextJustified(p)

\* What the service published, and when the last read failed.
HistorySound ==
    failed <= clock /\ \A v \in 1..Len(source) : source[v].from <= clock

ReadsIInv == ReadsTypeOK /\ HistorySound /\ EntrySound /\ \A p \in Calls : Kept(p)

\* What only time, the service and failures change, a call keeps.
LEMMA UntouchedKept ==
    ASSUME ReadsTypeOK, SourceGrows, clock' >= clock, clock' \in Times, kind' = kind,
           failed' >= failed, failed' \in Times,
           NEW p \in Calls, call'[p] = call[p], Kept(p)
    PROVE  Kept(p)'
  <1>1. call[p] \in CallState /\ clock \in Times /\ failed \in Times
    BY DEF ReadsTypeOK
  <1>2. call[p].phase # "idle" => call[p].now \in Times /\ call[p].now <= clock
    BY <1>1, CallFields DEF Kept, ReadSound
  <1>3. call[p].phase \in {"served", "answered", "unread"} => call[p].version \in Nat
    BY <1>1, CallFields
  <1>4. /\ clock \in Nat /\ clock' \in Nat /\ failed \in Nat /\ failed' \in Nat
        /\ call[p].phase # "idle" => call[p].now \in Nat /\ call[p].now <= clock'
    <2>1. clock \in Nat /\ clock' \in Nat /\ failed \in Nat /\ failed' \in Nat
      BY <1>1, Numbers
    <2>2. call[p].phase # "idle" => call[p].now \in Nat
      BY <1>2, Numbers
    <2> QED
      BY <1>2, <2>1, <2>2
  <1>8. call[p].phase = "served" => SaidSince(source', call[p].version, call[p].now)
    <2> SUFFICES ASSUME call[p].phase = "served"
                 PROVE  SaidSince(source', call[p].version, call[p].now)
      OBVIOUS
    <2>1. SaidSince(source, call[p].version, call[p].now)
      BY DEF Kept, ReadSound
    <2> QED
      BY <1>2, <1>3, <2>1, SaidSinceStays
  <1>5. call[p].phase = "answered" /\ call[p].version # Unreadable =>
            SaidWithin(source', call[p].version, Ttl, call[p].now)
    BY <1>2, <1>3, SaidWithinStays, Numbers DEF Kept, WithinTtl
  <1>6. ASSUME kind = "issuer keys", call[p].phase = "answered",
               \A v \in 1..Len(source') :
                   SaidWithin(source', v, Cooldown, call[p].now) =>
                       call[p].kid \in source'[v].holds
        PROVE  call[p].version # Unreadable /\ call[p].kid \in source'[call[p].version].holds
    <2>1. ASSUME NEW v \in 1..Len(source), SaidWithin(source, v, Cooldown, call[p].now)
          PROVE  call[p].kid \in source[v].holds
      <3>1. v \in Nat /\ v \in 1..Len(source') /\ source'[v] = source[v]
        BY Grown DEF ReadsTypeOK
      <3>2. SaidWithin(source', v, Cooldown, call[p].now)
        BY <1>2, <1>6, <2>1, <3>1, SaidWithinStays, Numbers
      <3> QED
        BY <1>6, <3>1, <3>2
    <2>2. Knows(call[p].version, call[p].kid)
      BY <1>6, <2>1 DEF Kept, KeyFound
    <2>3. call[p].version # Unreadable /\ SaidWithin(source, call[p].version, Ttl, call[p].now)
      BY <1>6, <2>2 DEF Kept, Knows, WithinTtl
    <2>4. call[p].version \in 1..Len(source)
      BY <1>3, <1>6, <2>3, SaidIsVersion
    <2> QED
      BY <2>2, <2>3, <2>4, Grown DEF Knows
  <1>7. kind = "code list" /\ call[p].phase = "answered" /\ call[p].version = Unreadable
            => failed' + FailureTtl > call[p].now
    <2> SUFFICES ASSUME kind = "code list", call[p].phase = "answered",
                        call[p].version = Unreadable
                 PROVE  failed' + FailureTtl > call[p].now
      OBVIOUS
    <2>1. failed + FailureTtl > call[p].now
      BY DEF Kept, FreeTextJustified
    <2>2. failed \in Nat /\ failed' \in Nat /\ FailureTtl \in Nat /\ call[p].now \in Nat
      BY <1>4, Numbers
    <2> QED
      BY <2>1, <2>2, LaterEnds
  <1> QED
    BY <1>4, <1>5, <1>6, <1>7, <1>8
    DEF Kept, ReadSound, WithinTtl, KeyFound, FreeTextJustified, Knows, Unreadable

\* An entry that is left alone stays what the service said, or a failure.
LEMMA EntryStays ==
    ASSUME ReadsTypeOK, EntrySound, SourceGrows, entry' = entry, kind' = kind,
           clock' >= clock, clock' \in Times, failed' >= failed, failed' \in Times
    PROVE  EntrySound'
  <1> SUFFICES ASSUME entry # NoEntry
               PROVE  /\ entry.at <= clock'
                      /\ \/ SaidSince(source', entry.version, entry.at)
                         \/ kind = "code list" /\ entry.version = Unreadable
                            /\ entry.at <= failed'
    BY DEF EntrySound
  <1>1. entry.at \in Times /\ entry.version \in Nat /\ clock \in Times /\ failed \in Times
    BY EntryFields DEF ReadsTypeOK
  <1>2. /\ entry.at \in Nat /\ clock \in Nat /\ clock' \in Nat
        /\ failed \in Nat /\ failed' \in Nat
    BY <1>1, Numbers
  <1>3. entry.at <= clock
    BY DEF EntrySound
  <1>4. CASE SaidSince(source, entry.version, entry.at)
    <2>1. SaidSince(source', entry.version, entry.at)
      BY <1>1, <1>3, <1>4, SaidSinceStays
    <2> QED
      BY <1>2, <1>3, <2>1
  <1>5. CASE kind = "code list" /\ entry.version = Unreadable /\ entry.at <= failed
    <2>1. entry.at <= clock' /\ entry.at <= failed'
      BY <1>2, <1>3, <1>5, LaterStill
    <2> QED
      BY <1>5, <2>1
  <1> QED
    BY <1>4, <1>5 DEF EntrySound

\* Published versions are of the past, and so is the last failure.
LEMMA HistoryStays ==
    ASSUME ReadsTypeOK, HistorySound, SourceGrows, clock' >= clock, clock' \in Times,
           failed' \in {failed, clock}
    PROVE  HistorySound'
  <1>1. clock \in Nat /\ clock' \in Nat /\ failed \in Nat /\ failed <= clock
    BY Numbers DEF HistorySound, ReadsTypeOK
  <1>2. ASSUME NEW v \in 1..Len(source') PROVE source'[v].from <= clock'
    <2>1. CASE v \in 1..Len(source)
      <3>1. source'[v] = source[v] /\ source[v].from <= clock
        BY <2>1, Grown DEF HistorySound
      <3>2. source[v].from \in Nat
        BY <2>1, SourceFields, Numbers
      <3> QED
        BY <1>1, <3>1, <3>2
    <2>2. CASE v \notin 1..Len(source)
      <3>1. Len(source) \in Nat /\ Len(source') \in Nat
        BY Grown DEF ReadsTypeOK
      <3>2. source'[v].from = clock
        BY <2>2, <3>1, Grown
      <3> QED
        BY <1>1, <3>2
    <2> QED
      BY <2>1, <2>2
  <1>3. failed' <= clock'
    BY <1>1
  <1> QED
    BY <1>2, <1>3 DEF HistorySound

-----------------------------------------------------------------------------
(* The steps of a call *)

\* A call answered from the cache is answered within the TTL, knows the keys of
\* the cooldown, and is given free text only after a failure.
LEMMA AskKept ==
    ASSUME ReadsIInv, NEW p \in Calls, NEW kid \in Asked, Ask(p, kid)
    PROVE  Kept(p)'
  <1> ReadsTypeOK /\ EntrySound
    BY DEF ReadsIInv
  <1>1. clock \in Times /\ clock \in Nat /\ failed \in Nat /\ clock' = clock
        /\ source' = source /\ kind' = kind /\ failed' = failed
    BY Numbers DEF Ask, ReadsTypeOK
  <1>2. CASE ~Usable(kid, clock)
    <2>1. call'[p] = [phase |-> "asked", kid |-> kid, now |-> clock, held |-> entry]
      BY <1>2, Moves DEF Ask
    <2> QED
      BY <1>1, <2>1 DEF Kept, ReadSound, WithinTtl, KeyFound, FreeTextJustified
  <1>3. CASE Usable(kid, clock)
    <2> DEFINE answer == Ended("answered", kid, clock, entry.version)
    <2>0. call' = [call EXCEPT ![p] = answer]
      BY <1>3 DEF Ask
    <2> HIDE DEF answer
    <2>1. call'[p] = answer
      BY <2>0 DEF ReadsTypeOK
    <2> USE DEF answer
    <2>2. /\ call'[p].phase = "answered" /\ call'[p].kid = kid /\ call'[p].now = clock
          /\ call'[p].version = entry.version
      BY <2>1 DEF Ended
    <2>3. entry # NoEntry /\ clock - entry.at < Lifetime(entry.version)
      BY <1>3 DEF Usable, Fresh
    <2>4. entry.at \in Times /\ entry.at \in Nat /\ entry.version \in Nat
      BY <2>3, EntryFields, Numbers DEF ReadsTypeOK
    <2>5. entry.at <= clock
      BY <2>3 DEF EntrySound
    <2>6. \/ SaidSince(source, entry.version, entry.at) /\ entry.version # Unreadable
          \/ kind = "code list" /\ entry.version = Unreadable /\ entry.at <= failed
      <3>1. SaidSince(source, entry.version, entry.at) => entry.version # Unreadable
        BY DEF SaidSince, Unreadable, ReadsTypeOK
      <3> QED
        BY <2>3, <3>1 DEF EntrySound
    <2>7. entry.version # Unreadable => SaidWithin(source, entry.version, Ttl, clock)
      <3> SUFFICES ASSUME entry.version # Unreadable
                   PROVE  SaidWithin(source, entry.version, Ttl, clock)
        OBVIOUS
      <3>1. clock - entry.at < Ttl
        BY <2>3 DEF Lifetime
      <3> QED
        BY <1>1, <2>4, <2>5, <2>6, <3>1, FreshIsWithin, Numbers
    <2>8. ASSUME kind = "issuer keys",
                 \A v \in 1..Len(source) :
                     SaidWithin(source, v, Cooldown, clock) => kid \in source[v].holds
          PROVE  Knows(entry.version, kid)
      <3>1. CASE clock - entry.at < Cooldown
        <4>1. SaidSince(source, entry.version, entry.at) /\ entry.version # Unreadable
          BY <2>6, <2>8
        <4>2. SaidWithin(source, entry.version, Cooldown, clock)
          BY <1>1, <2>4, <2>5, <3>1, <4>1, FreshIsWithin, Numbers
        <4>3. entry.version \in 1..Len(source)
          BY <4>1 DEF SaidSince
        <4> QED
          BY <2>8, <4>1, <4>2, <4>3 DEF Knows
      <3> QED
        BY <1>3, <2>8, <3>1 DEF Usable
    <2>9. kind = "code list" /\ entry.version = Unreadable => failed + FailureTtl > clock
      <3> SUFFICES ASSUME kind = "code list", entry.version = Unreadable
                   PROVE  failed + FailureTtl > clock
        OBVIOUS
      <3>1. entry.at <= failed
        BY <2>6 DEF SaidSince
      <3>2. CASE FailureTtl < Ttl
        <4>1. clock - entry.at < FailureTtl
          BY <2>3, <3>2 DEF Lifetime
        <4> QED
          BY <1>1, <2>4, <3>1, <4>1, Numbers, YoungEnds
      <3>3. CASE ~(FailureTtl < Ttl)
        <4>1. clock - entry.at < Ttl
          BY <2>3, <3>3 DEF Lifetime
        <4>2. failed + Ttl > clock
          BY <1>1, <2>4, <3>1, <4>1, Numbers, YoungEnds
        <4> QED
          BY <1>1, <3>3, <4>2, Numbers, LongerEnds
      <3> QED
        BY <3>2, <3>3
    <2>10. ReadSound(p)'
      BY <1>1, <2>2 DEF ReadSound
    <2>11. WithinTtl(p)'
      BY <1>1, <2>2, <2>7 DEF WithinTtl
    <2>12. KeyFound(p)'
      BY <1>1, <2>2, <2>8 DEF KeyFound, Knows
    <2>13. FreeTextJustified(p)'
      BY <1>1, <2>2, <2>9 DEF FreeTextJustified
    <2> QED
      BY <2>10, <2>11, <2>12, <2>13 DEF Kept
  <1> QED
    BY <1>2, <1>3

\* An answer that arrives was given after the call began.
LEMMA ArriveKept ==
    ASSUME ReadsIInv, NEW p \in Calls, Arrive(p)
    PROVE  Kept(p)' /\ EntrySound'
  <1> ReadsTypeOK /\ ReadSound(p)
    BY DEF ReadsIInv, Kept
  <1> DEFINE kid == call[p].kid
             now == call[p].now
             version == call[p].version
             answer == Ended("answered", kid, now, version)
  <1>1. now \in Times /\ version \in Nat /\ call[p].phase = "served"
    BY CallFields DEF Arrive, ReadsTypeOK
  <1>2. /\ clock' = clock /\ source' = source /\ kind' = kind /\ failed' = failed
        /\ entry' = [at |-> now, version |-> version]
    BY DEF Arrive, Stores
  <1>3. now <= clock /\ SaidSince(source, version, now)
    BY <1>1 DEF ReadSound
  <1>4. call'[p] = answer
    <2>1. call' = [call EXCEPT ![p] = answer]
      BY DEF Arrive
    <2> HIDE DEF answer
    <2> QED
      BY <2>1 DEF ReadsTypeOK
  <1> HIDE DEF kid, now, version
  <1>5. /\ call'[p].phase = "answered" /\ call'[p].kid = kid
        /\ call'[p].now = now /\ call'[p].version = version
    BY <1>4 DEF Ended
  <1>6. SaidWithin(source, version, Ttl, now) /\ SaidWithin(source, version, Cooldown, now)
    BY <1>3 DEF SaidWithin
  <1>7. version \in 1..Len(source) /\ version # Unreadable
    BY <1>3 DEF SaidSince, Unreadable, ReadsTypeOK
  <1>8. ReadSound(p)' /\ WithinTtl(p)' /\ FreeTextJustified(p)'
    BY <1>2, <1>3, <1>5, <1>6, <1>7
    DEF ReadSound, WithinTtl, FreeTextJustified, Unreadable
  <1>9. KeyFound(p)'
    <2> SUFFICES ASSUME \A v \in 1..Len(source) :
                            SaidWithin(source, v, Cooldown, now) => kid \in source[v].holds
                 PROVE  Knows(version, kid)
      BY <1>2, <1>5 DEF KeyFound, Knows
    <2> QED
      BY <1>6, <1>7 DEF Knows
  <1>10. EntrySound'
    BY <1>2, <1>3 DEF EntrySound
  <1> QED
    BY <1>8, <1>9, <1>10 DEF Kept

\* A call whose read failed keeps its time; a code list is then unreadable as of
\* a time no later than the failure.
LEMMA FailKept ==
    ASSUME ReadsIInv, NEW p \in Calls, Fail(p)
    PROVE  Kept(p)' /\ EntrySound'
  <1> ReadsTypeOK /\ ReadSound(p) /\ EntrySound /\ HistorySound
    BY DEF ReadsIInv, Kept
  <1> DEFINE version == IF kind = "issuer keys" /\ call[p].held # NoEntry
                        THEN call[p].held.version ELSE Unreadable
             kept == Ended("unread", call[p].kid, call[p].now, version)
  <1>1. /\ call[p].phase \in {"asked", "served"} /\ call[p].now <= clock
        /\ clock' = clock /\ source' = source /\ kind' = kind /\ failed' = clock
    BY DEF Fail, ReadSound
  <1>2. call' = [call EXCEPT ![p] = kept]
    BY DEF Fail
  <1> HIDE DEF kept
  <1>3. call'[p] = kept
    BY <1>2 DEF ReadsTypeOK
  <1> USE DEF kept
  <1> HIDE DEF version
  <1>4. call'[p].phase = "unread" /\ call'[p].now = call[p].now
    BY <1>3 DEF Ended
  <1>5. Kept(p)'
    BY <1>1, <1>4 DEF Kept, ReadSound, WithinTtl, KeyFound, FreeTextJustified
  <1>6. EntrySound'
    <2>1. CASE kind = "code list"
      <3>1. entry' = [at |-> call[p].now, version |-> Unreadable]
        BY <2>1 DEF Fail, Stores
      <3> QED
        BY <1>1, <2>1, <3>1 DEF EntrySound
    <2>2. CASE kind # "code list"
      <3>1. entry' = entry
        BY <2>2 DEF Fail
      <3>2. clock \in Nat /\ clock \in Times /\ failed <= clock
        BY Numbers DEF ReadsTypeOK, HistorySound
      <3> QED
        BY <1>1, <3>1, <3>2, EntryStays DEF SourceGrows
    <2> QED
      BY <2>1, <2>2
  <1> QED
    BY <1>5, <1>6

-----------------------------------------------------------------------------
(* The theorems *)

LEMMA InitSound == ReadsInit => ReadsIInv
  <1> SUFFICES ASSUME ReadsInit PROVE ReadsIInv
    OBVIOUS
  <1>1. PICK holds \in Contents : source = <<[from |-> 0, holds |-> holds]>>
    BY DEF ReadsInit
  <1>2. HistorySound
    BY <1>1 DEF HistorySound, ReadsInit
  <1>3. \A p \in Calls : call[p].phase = "idle"
    BY DEF ReadsInit, IdleCall
  <1>4. EntrySound /\ \A p \in Calls : Kept(p)
    BY <1>3
    DEF EntrySound, ReadsInit, Kept, ReadSound, WithinTtl, KeyFound, FreeTextJustified
  <1> QED
    BY <1>2, <1>4, InitTyped DEF ReadsIInv

\* What a step leaves of the other calls, and of everything else.
LEMMA OthersKept ==
    ASSUME ReadsIInv, [ReadsNext]_readVars, SourceGrows,
           clock' \in {clock, clock + 1}, kind' = kind, failed' \in {failed, clock}
    PROVE  /\ HistorySound'
           /\ entry' = entry => EntrySound'
           /\ \A q \in Calls : call'[q] = call[q] => Kept(q)'
  <1> ReadsTypeOK /\ ReadsTypeOK' /\ HistorySound /\ EntrySound
    BY StepTyped DEF ReadsIInv
  <1>1. /\ clock \in Nat /\ clock' \in Times /\ failed \in Nat /\ failed' \in Times
        /\ failed <= clock
    BY Numbers DEF ReadsTypeOK, HistorySound
  <1>2. clock' >= clock /\ failed' >= failed
    BY <1>1
  <1>3. HistorySound'
    BY <1>1, <1>2, HistoryStays
  <1>4. entry' = entry => EntrySound'
    BY <1>1, <1>2, EntryStays
  <1>5. ASSUME NEW q \in Calls, call'[q] = call[q] PROVE Kept(q)'
    <2>1. Kept(q)
      BY DEF ReadsIInv
    <2> QED
      BY <1>1, <1>2, <1>5, <2>1, UntouchedKept
  <1> QED
    BY <1>3, <1>4, <1>5

LEMMA StepSound == ReadsIInv /\ [ReadsNext]_readVars => ReadsIInv'
  <1> SUFFICES ASSUME ReadsIInv, [ReadsNext]_readVars PROVE ReadsIInv'
    OBVIOUS
  <1> ReadsTypeOK /\ ReadsTypeOK'
    BY StepTyped DEF ReadsIInv
  <1>1. CASE Tick \/ Clear \/ Restart \/ UNCHANGED readVars
    <2>1. /\ SourceGrows /\ clock' \in {clock, clock + 1} /\ kind' = kind /\ failed' = failed
          /\ entry' = entry \/ entry' = NoEntry
      BY <1>1 DEF Tick, Clear, Restart, readVars, SourceGrows
    <2>2. EntrySound'
      BY <2>1, OthersKept DEF EntrySound
    <2>3. ASSUME NEW q \in Calls PROVE Kept(q)'
      <3>1. CASE Restart
        <4>1. call'[q].phase = "idle"
          BY <3>1 DEF Restart, IdleCall
        <4> QED
          BY <4>1 DEF Kept, ReadSound, WithinTtl, KeyFound, FreeTextJustified
      <3>2. CASE ~Restart
        <4>1. call' = call
          BY <1>1, <3>2 DEF Tick, Clear, readVars
        <4> QED
          BY <2>1, <4>1, OthersKept
      <3> QED
        BY <3>1, <3>2
    <2> QED
      BY <2>1, <2>2, <2>3, OthersKept DEF ReadsIInv
  <1>2. ASSUME NEW holds \in Contents, Publish(holds) PROVE ReadsIInv'
    <2>1. /\ SourceGrows /\ clock' = clock /\ kind' = kind /\ failed' = failed
          /\ entry' = entry /\ call' = call
      BY <1>2 DEF Publish, SourceGrows
    <2> QED
      BY <2>1, OthersKept DEF ReadsIInv
  <1>3. ASSUME NEW p \in Calls, NEW kid \in Asked, Ask(p, kid) PROVE ReadsIInv'
    <2>1. /\ SourceGrows /\ clock' = clock /\ kind' = kind /\ failed' = failed
          /\ entry' = entry
          /\ \A q \in Calls : q # p => call'[q] = call[q]
      BY <1>3 DEF Ask, SourceGrows, ReadsTypeOK
    <2> QED
      BY <1>3, <2>1, OthersKept, AskKept DEF ReadsIInv
  <1>4. ASSUME NEW p \in Calls, Serve(p) PROVE ReadsIInv'
    <2>1. /\ SourceGrows /\ clock' = clock /\ kind' = kind /\ failed' = failed
          /\ source' = source /\ entry' = entry
          /\ \A q \in Calls : q # p => call'[q] = call[q]
      BY <1>4 DEF Serve, SourceGrows, ReadsTypeOK
    <2> DEFINE served == [phase |-> "served", kid |-> call[p].kid, now |-> call[p].now,
                          held |-> call[p].held, version |-> Len(source)]
    <2>2. call' = [call EXCEPT ![p] = served]
      BY <1>4 DEF Serve
    <2> HIDE DEF served
    <2>3. call'[p] = served
      BY <2>2 DEF ReadsTypeOK
    <2> USE DEF served
    <2>4. call'[p].phase = "served" /\ call'[p].version = Len(source)
          /\ call'[p].now = call[p].now
      BY <2>3
    <2>5. SaidSince(source, Len(source), call[p].now)
      BY DEF SaidSince, ReadsTypeOK
    <2>6. call[p].now <= clock
      BY <1>4 DEF Serve, ReadsIInv, Kept, ReadSound
    <2>7. Kept(p)'
      BY <2>1, <2>4, <2>5, <2>6
      DEF Kept, ReadSound, WithinTtl, KeyFound, FreeTextJustified
    <2> QED
      BY <2>1, <2>7, OthersKept DEF ReadsIInv
  <1>5. ASSUME NEW p \in Calls, Arrive(p) PROVE ReadsIInv'
    <2>1. /\ SourceGrows /\ clock' = clock /\ kind' = kind /\ failed' = failed
          /\ \A q \in Calls : q # p => call'[q] = call[q]
      BY <1>5 DEF Arrive, SourceGrows, ReadsTypeOK
    <2> QED
      BY <1>5, <2>1, OthersKept, ArriveKept DEF ReadsIInv
  <1>6. ASSUME NEW p \in Calls, Fail(p) PROVE ReadsIInv'
    <2>1. /\ SourceGrows /\ clock' = clock /\ kind' = kind /\ failed' = clock
          /\ \A q \in Calls : q # p => call'[q] = call[q]
      BY <1>6 DEF Fail, SourceGrows, ReadsTypeOK
    <2> QED
      BY <1>6, <2>1, OthersKept, FailKept DEF ReadsIInv
  <1> QED
    BY <1>1, <1>2, <1>3, <1>4, <1>5, <1>6 DEF ReadsNext

LEMMA ReadsIInvHolds == ReadsSpec => []ReadsIInv
  BY InitSound, StepSound, PTL DEF ReadsSpec

\* Whatever the order of the responses, an answer from a cache was true at the
\* service less than the TTL before the call began.
THEOREM AnswersWithinTtlCorrect == ReadsSpec => []AnswersWithinTtl
  <1>1. ReadsIInv => AnswersWithinTtl
    BY DEF ReadsIInv, Kept, WithinTtl, AnswersWithinTtl
  <1> QED
    BY <1>1, ReadsIInvHolds, PTL

\* A key that the issuer publishes is found as soon as the cooldown is over.
THEOREM NewKeyIsFoundCorrect == ReadsSpec => []NewKeyIsFound
  <1>1. ReadsIInv => NewKeyIsFound
    BY DEF ReadsIInv, Kept, KeyFound, NewKeyIsFound
  <1> QED
    BY <1>1, ReadsIInvHolds, PTL

\* No free text without a failure, or an absent or empty list, of late.
THEOREM FreeTextForAReasonCorrect == ReadsSpec => []FreeTextForAReason
  <1>1. ASSUME ReadsIInv, NEW p \in Calls,
               kind = "code list", call[p].phase = "answered", FreeText(call[p].version)
        PROVE  \/ failed + FailureTtl > call[p].now
               \/ \E v \in 1..Len(source) :
                    source[v].holds = {} /\ SaidWithin(source, v, Ttl, call[p].now)
    <2>1. CASE call[p].version = Unreadable
      BY <1>1, <2>1 DEF ReadsIInv, Kept, FreeTextJustified
    <2>2. CASE call[p].version # Unreadable
      <3> DEFINE v == call[p].version
      <3>1. source[v].holds = {}
        BY <1>1, <2>2 DEF FreeText
      <3>2. SaidWithin(source, v, Ttl, call[p].now)
        BY <1>1, <2>2 DEF ReadsIInv, Kept, WithinTtl
      <3>3. v \in 1..Len(source)
        <4>1. ReadsTypeOK
          BY <1>1 DEF ReadsIInv
        <4>2. call[p] \in CallState
          BY <4>1 DEF ReadsTypeOK
        <4>3. v \in Nat
          BY <1>1, <4>2, CallFields
        <4> QED
          BY <3>2, <4>1, <4>3, SaidIsVersion
      <3> HIDE DEF v
      <3> QED
        BY <3>1, <3>2, <3>3
    <2> QED
      BY <2>1, <2>2
  <1>2. ReadsIInv => FreeTextForAReason
    BY <1>1 DEF FreeTextForAReason
  <1> QED
    BY <1>2, ReadsIInvHolds, PTL
=============================================================================
