---------------------------- MODULE ConsentStatus ----------------------------
(***************************************************************************)
(* The status column of a consent artefact and the three handlers that     *)
(* write it (services/consent_service.py): ConsentService.revoke, the lazy *)
(* expiry in ConsentService.get_status, and ConsentService.expire_stale,   *)
(* the sweep the expiry CronJob runs.                                      *)
(*                                                                         *)
(* Every handler opens a session, reads the row, decides, and commits an   *)
(* UPDATE ... WHERE id = :id. No handler locks the row or compares a       *)
(* version, so between its read and its commit the calls of every pod      *)
(* interleave and the last commit wins.                                    *)
(*                                                                         *)
(* A call that ends in an error answer (404, 403, 409) writes nothing and  *)
(* is no step here. valid_until never changes once recorded.               *)
(***************************************************************************)
EXTENDS Naturals, Sequences

CONSTANTS
    Consents,  \* the consent artefacts on record
    Calls,     \* API calls that may be in flight at once, over all pods
    Sweeps,    \* runs of the expiry job that may overlap
    MaxClock   \* bound on the clock

ASSUME ConstantsAssumption == MaxClock \in Nat

VARIABLES
    clock,       \* the database clock
    validUntil,  \* validUntil[c]: the valid_until column
    status,      \* status[c]: the status column
    revocations, \* revocations[c]: commit times of c's RevocationRecord rows
    call,        \* call[p]: what API call p has read and not yet committed
    sweep        \* sweep[w]: the progress of expiry run w

vars == <<clock, validUntil, status, revocations, call, sweep>>

ArtefactStatus == {"active", "revoked", "expired"}

Times == 0..MaxClock

IdleCall == [phase |-> "idle"]

CallState ==
    {IdleCall} \cup [phase : {"revoking", "lapsing"}, consent : Consents]

IdleSweep == [phase |-> "idle"]

SweepState ==
    {IdleSweep}
        \cup [phase : {"started"}, now : Times]
        \cup [phase : {"selected"}, rows : SUBSET Consents]

-----------------------------------------------------------------------------
(* Initial states: consents just recorded, each with some validity. *)

Init ==
    /\ clock = 0
    /\ validUntil \in [Consents -> Times]
    /\ status = [c \in Consents |-> "active"]
    /\ revocations = [c \in Consents |-> <<>>]
    /\ call = [p \in Calls |-> IdleCall]
    /\ sweep = [w \in Sweeps |-> IdleSweep]

-----------------------------------------------------------------------------
(* The two conditions the handlers test. *)

\* Lapsed at time now: valid_until < now, so the last instant still counts.
Lapsed(c, now) == validUntil[c] < now

\* Slip, for testing the properties: valid_until itself already counts as over.
ExpirableAtEnd(c, now) == status[c] = "active" /\ validUntil[c] <= now

\* The condition under which the row is turned into an expired one.
Expirable(c, now) == status[c] = "active" /\ Lapsed(c, now)

-----------------------------------------------------------------------------
(* POST .../revoke, by the subject or by staff. *)

\* revoke reads the row and finds it active.
RevokeRead(p, c) ==
    /\ call[p] = IdleCall
    /\ status[c] = "active"
    /\ call' = [call EXCEPT ![p] = [phase |-> "revoking", consent |-> c]]
    /\ UNCHANGED <<clock, validUntil, status, revocations, sweep>>

\* revoke commits the new status and its RevocationRecord together.
RevokeCommit(p) ==
    /\ call[p].phase = "revoking"
    /\ LET c == call[p].consent IN
        /\ status' = [status EXCEPT ![c] = "revoked"]
        /\ revocations' = [revocations EXCEPT ![c] = Append(@, clock)]
    /\ call' = [call EXCEPT ![p] = IdleCall]
    /\ UNCHANGED <<clock, validUntil, sweep>>

-----------------------------------------------------------------------------
(* GET .../status: a lapsed consent is turned into an expired one on read. *)

StatusRead(p, c) ==
    /\ call[p] = IdleCall
    /\ Expirable(c, clock)
    /\ call' = [call EXCEPT ![p] = [phase |-> "lapsing", consent |-> c]]
    /\ UNCHANGED <<clock, validUntil, status, revocations, sweep>>

StatusCommit(p) ==
    /\ call[p].phase = "lapsing"
    /\ status' = [status EXCEPT ![call[p].consent] = "expired"]
    /\ call' = [call EXCEPT ![p] = IdleCall]
    /\ UNCHANGED <<clock, validUntil, revocations, sweep>>

\* The pod serving the call dies before the commit: the session rolls back.
CallDies(p) ==
    /\ call[p] # IdleCall
    /\ call' = [call EXCEPT ![p] = IdleCall]
    /\ UNCHANGED <<clock, validUntil, status, revocations, sweep>>

-----------------------------------------------------------------------------
(* The expiry job: take the time, select the stale rows, update them all. *)

\* Slip: the time is taken once, when the program is loaded.
SweepStartFrozen(w) ==
    /\ sweep[w] = IdleSweep
    /\ sweep' = [sweep EXCEPT ![w] = [phase |-> "started", now |-> 0]]
    /\ UNCHANGED <<clock, validUntil, status, revocations, call>>

SweepStart(w) ==
    /\ sweep[w] = IdleSweep
    /\ sweep' = [sweep EXCEPT ![w] = [phase |-> "started", now |-> clock]]
    /\ UNCHANGED <<clock, validUntil, status, revocations, call>>

SweepSelect(w) ==
    /\ sweep[w].phase = "started"
    /\ sweep' = [sweep EXCEPT ![w] =
            [phase |-> "selected",
             rows  |-> {c \in Consents : Expirable(c, sweep[w].now)}]]
    /\ UNCHANGED <<clock, validUntil, status, revocations, call>>

\* Slip: the run writes the whole column back, as if nobody else wrote to it.
SweepCommitWholeColumn(w) ==
    /\ sweep[w].phase = "selected"
    /\ status' = [c \in Consents |->
                     IF c \in sweep[w].rows THEN "expired" ELSE "active"]
    /\ sweep' = [sweep EXCEPT ![w] = IdleSweep]
    /\ UNCHANGED <<clock, validUntil, revocations, call>>

SweepCommit(w) ==
    /\ sweep[w].phase = "selected"
    /\ status' = [c \in Consents |->
                     IF c \in sweep[w].rows THEN "expired" ELSE status[c]]
    /\ sweep' = [sweep EXCEPT ![w] = IdleSweep]
    /\ UNCHANGED <<clock, validUntil, revocations, call>>

SweepDies(w) ==
    /\ sweep[w] # IdleSweep
    /\ sweep' = [sweep EXCEPT ![w] = IdleSweep]
    /\ UNCHANGED <<clock, validUntil, status, revocations, call>>

-----------------------------------------------------------------------------

Tick ==
    /\ clock < MaxClock
    /\ clock' = clock + 1
    /\ UNCHANGED <<validUntil, status, revocations, call, sweep>>

CallStep(p) ==
    \/ \E c \in Consents : RevokeRead(p, c) \/ StatusRead(p, c)
    \/ RevokeCommit(p)
    \/ StatusCommit(p)
    \/ CallDies(p)

SweepStep(w) ==
    \/ SweepStart(w)
    \/ SweepSelect(w)
    \/ SweepCommit(w)
    \/ SweepDies(w)

Next ==
    \/ Tick
    \/ \E p \in Calls : CallStep(p)
    \/ \E w \in Sweeps : SweepStep(w)

Spec == Init /\ [][Next]_vars

\* The CronJob keeps being scheduled, and although a run may die it is not
\* always the same point of every run that does. Nothing obliges anyone to
\* call the API, or a call that was started to finish.
SweepFairness(w) ==
    /\ WF_vars(SweepStart(w))
    /\ SF_vars(SweepSelect(w))
    /\ SF_vars(SweepCommit(w))

FairSpec == Spec /\ \A w \in Sweeps : SweepFairness(w)

-----------------------------------------------------------------------------
(* Properties *)

TypeOK ==
    /\ clock \in Times
    /\ validUntil \in [Consents -> Times]
    /\ status \in [Consents -> ArtefactStatus]
    /\ revocations \in [Consents -> Seq(Times)]
    /\ call \in [Calls -> CallState]
    /\ sweep \in [Sweeps -> SweepState]

Withdrawn(c) == revocations[c] # <<>>

\* A consent somebody revoked is never usable again, although its status may
\* be overwritten by an expiry that read it before the revocation: revoke
\* commits the status and the record together, and no handler writes "active".
WithdrawnIsUnusable == \A c \in Consents : Withdrawn(c) => status[c] # "active"

\* Only a consent whose valid_until has passed is ever shown as expired, by
\* the job or by a status read, even when either acts on a row it read before
\* other calls changed it; and a revoked one always has its record.
EndedForAReason ==
    \A c \in Consents :
        /\ status[c] = "expired" => Lapsed(c, clock)
        /\ status[c] = "revoked" => Withdrawn(c)

\* What an expiry in flight may still write: rows whose validity is over, so
\* that however late it commits it expires no consent early. With the two
\* invariants above this is the inductive invariant of the component.
ExpiryInFlightJustified ==
    /\ \A p \in Calls :
        call[p].phase = "lapsing" => Lapsed(call[p].consent, clock)
    /\ \A w \in Sweeps :
        /\ sweep[w].phase = "started" => sweep[w].now <= clock
        /\ sweep[w].phase = "selected" =>
            \A c \in sweep[w].rows : Lapsed(c, clock)

\* What the revocation records and the status say together: the record wins.
Standing ==
    [c \in Consents |->
        CASE Withdrawn(c) -> "withdrawn"
          [] ~Withdrawn(c) /\ status[c] = "expired" -> "lapsed"
          [] OTHER -> "given"]

\* The handlers implement the abstract promise about a consent's standing.
Abstract == INSTANCE ConsentStanding
    WITH standing <- Standing

StandingRefined == Abstract!Spec

\* A consent whose validity is over does not stay active for ever: the expiry
\* job reaches it, however status reads, revocations and dying runs interleave.
LapsedLeavesActive ==
    \A c \in Consents : Lapsed(c, clock) ~> status[c] # "active"

\* expire_stale's docstring: "each row transitions once and idempotently". So
\* when a run of the expiry job commits, it changes no row that left active
\* before, whoever ended that one. (What get_status commits is not meant here.)
TransitionsOnce ==
    [][\A w \in Sweeps : SweepCommit(w) =>
          \A c \in Consents : status[c] # "active" => status'[c] = status[c]]_vars
=============================================================================
