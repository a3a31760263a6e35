------------------------- MODULE ConsentStatusProofs -------------------------
(* Theorems of ConsentStatus, for every set of consents, calls and runs. *)
EXTENDS ConsentStatus, SequenceTheorems, TLAPS

\* The inductive invariant.
IInv ==
    /\ TypeOK
    /\ WithdrawnIsUnusable
    /\ EndedForAReason
    /\ ExpiryInFlightJustified

-----------------------------------------------------------------------------
(* Type correctness *)

\* A call about to commit a revocation, or a lazy expiry, names a consent.
LEMMA CallNamesConsent ==
    ASSUME TypeOK, NEW p \in Calls, call[p].phase \in {"revoking", "lapsing"}
    PROVE  call[p].consent \in Consents
  BY DEF TypeOK, CallState, IdleCall

\* An expiry run carries the fields its phase says.
LEMMA SweepFields ==
    ASSUME TypeOK, NEW w \in Sweeps
    PROVE  /\ sweep[w].phase = "started" => sweep[w].now \in Times
           /\ sweep[w].phase = "selected" => sweep[w].rows \in SUBSET Consents
  BY DEF TypeOK, SweepState, IdleSweep

\* Every handler step keeps the columns and the handlers' state well typed.
LEMMA TypeStep == TypeOK /\ [Next]_vars => TypeOK'
  <1> SUFFICES ASSUME TypeOK, [Next]_vars PROVE TypeOK'
    OBVIOUS
  <1> USE ConstantsAssumption
  <1>1. CASE Tick
    BY <1>1 DEF TypeOK, Tick, Times
  <1>2. ASSUME NEW p \in Calls, NEW c \in Consents, RevokeRead(p, c)
        PROVE  TypeOK'
    BY <1>2 DEF TypeOK, RevokeRead, CallState
  <1>3. ASSUME NEW p \in Calls, NEW c \in Consents, StatusRead(p, c)
        PROVE  TypeOK'
    BY <1>3 DEF TypeOK, StatusRead, CallState
  <1>4. ASSUME NEW p \in Calls, RevokeCommit(p) PROVE TypeOK'
    <2>1. call[p].consent \in Consents
      BY <1>4, CallNamesConsent DEF RevokeCommit
    <2>2. status' \in [Consents -> ArtefactStatus]
      BY <1>4, <2>1 DEF TypeOK, RevokeCommit, ArtefactStatus
    <2>3. revocations' \in [Consents -> Seq(Times)]
      BY <1>4, <2>1 DEF TypeOK, RevokeCommit
    <2>4. call' \in [Calls -> CallState]
      BY <1>4 DEF TypeOK, RevokeCommit, CallState
    <2> QED
      BY <1>4, <2>2, <2>3, <2>4 DEF TypeOK, RevokeCommit
  <1>5. ASSUME NEW p \in Calls, StatusCommit(p) PROVE TypeOK'
    <2>1. call[p].consent \in Consents
      BY <1>5, CallNamesConsent DEF StatusCommit
    <2> QED
      BY <1>5, <2>1 DEF TypeOK, StatusCommit, ArtefactStatus, CallState
  <1>6. ASSUME NEW p \in Calls, CallDies(p) PROVE TypeOK'
    BY <1>6 DEF TypeOK, CallDies, CallState
  <1>7. ASSUME NEW w \in Sweeps, SweepStart(w) PROVE TypeOK'
    BY <1>7 DEF TypeOK, SweepStart, SweepState
  <1>8. ASSUME NEW w \in Sweeps, SweepSelect(w) PROVE TypeOK'
    BY <1>8 DEF TypeOK, SweepSelect, SweepState
  <1>9. ASSUME NEW w \in Sweeps, SweepCommit(w) PROVE TypeOK'
    BY <1>9 DEF TypeOK, SweepCommit, SweepState, ArtefactStatus
  <1>10. ASSUME NEW w \in Sweeps, SweepDies(w) PROVE TypeOK'
    BY <1>10 DEF TypeOK, SweepDies, SweepState
  <1>11. CASE UNCHANGED vars
    BY <1>11 DEF TypeOK, vars
  <1> QED
    BY <1>1, <1>2, <1>3, <1>4, <1>5, <1>6, <1>7, <1>8, <1>9, <1>10, <1>11
    DEF Next, CallStep, SweepStep

LEMMA TypeInit == Init => TypeOK
  BY ConstantsAssumption
  DEF Init, TypeOK, Times, ArtefactStatus, CallState, SweepState

\* The types of the columns, of the revocation records and of the handlers'
\* local state hold in every behaviour.
THEOREM TypeCorrect == Spec => []TypeOK
  BY TypeInit, TypeStep, PTL DEF Spec

-----------------------------------------------------------------------------
(* Safety *)

\* No step sets the clock back.
LEMMA ClockOnlyGrows == TypeOK /\ [Next]_vars => clock <= clock'
  BY ConstantsAssumption
  DEF TypeOK, Times, Next, vars, Tick, CallStep, SweepStep, RevokeRead,
      RevokeCommit, StatusRead, StatusCommit, CallDies, SweepStart,
      SweepSelect, SweepCommit, SweepDies

\* Nobody un-lapses a consent: valid_until is fixed and the clock only grows.
LEMMA LapsedIsStable ==
    ASSUME TypeOK, [Next]_vars, NEW c \in Consents
    PROVE  /\ validUntil' = validUntil
           /\ Lapsed(c, clock) => Lapsed(c, clock')
  BY ConstantsAssumption
  DEF TypeOK, Times, Next, vars, Tick, CallStep, SweepStep, RevokeRead,
      RevokeCommit, StatusRead, StatusCommit, CallDies, SweepStart,
      SweepSelect, SweepCommit, SweepDies, Lapsed

LEMMA IInvInit == Init => IInv
  BY TypeInit
  DEF Init, IInv, WithdrawnIsUnusable, Withdrawn, EndedForAReason,
      ExpiryInFlightJustified, IdleCall, IdleSweep

\* A step other than a commit leaves status and revocation records alone.
LEMMA QuietStep ==
    ASSUME IInv, [Next]_vars, UNCHANGED <<status, revocations>>
    PROVE  WithdrawnIsUnusable' /\ EndedForAReason'
  BY LapsedIsStable
  DEF IInv, WithdrawnIsUnusable, EndedForAReason, Withdrawn, Lapsed

\* What a pending expiry was justified by stays true while it waits, so a step
\* has to account only for the calls and runs whose local state it changes.
LEMMA PendingStays ==
    ASSUME IInv, [Next]_vars
    PROVE  /\ \A p \in Calls :
                call'[p] = call[p] /\ call[p].phase = "lapsing"
                    => Lapsed(call[p].consent, clock')
           /\ \A w \in Sweeps : sweep'[w] = sweep[w] =>
                /\ sweep[w].phase = "started" => sweep[w].now <= clock'
                /\ sweep[w].phase = "selected" =>
                    \A c \in sweep[w].rows : Lapsed(c, clock')
  <1>1. \A p \in Calls : call[p].phase = "lapsing" =>
            call[p].consent \in Consents /\ Lapsed(call[p].consent, clock')
    BY CallNamesConsent, LapsedIsStable DEF IInv, ExpiryInFlightJustified
  <1>2. \A w \in Sweeps : sweep[w].phase = "started" => sweep[w].now <= clock'
    <2> SUFFICES ASSUME NEW w \in Sweeps, sweep[w].phase = "started"
                 PROVE  sweep[w].now <= clock'
      OBVIOUS
    <2>1. sweep[w].now \in Times /\ sweep[w].now <= clock
      BY SweepFields DEF IInv, ExpiryInFlightJustified
    <2>2. clock \in Times /\ clock' \in Times /\ clock <= clock'
      BY TypeStep, ClockOnlyGrows DEF IInv, TypeOK
    <2> QED
      BY <2>1, <2>2, ConstantsAssumption DEF Times
  <1>3. \A w \in Sweeps : sweep[w].phase = "selected" =>
            \A c \in sweep[w].rows : Lapsed(c, clock')
    BY SweepFields, LapsedIsStable DEF IInv, ExpiryInFlightJustified
  <1> QED
    BY <1>1, <1>2, <1>3

LEMMA IInvStep == IInv /\ [Next]_vars => IInv'
  <1> SUFFICES ASSUME IInv, [Next]_vars
               PROVE  WithdrawnIsUnusable' /\ EndedForAReason'
                        /\ ExpiryInFlightJustified'
    BY TypeStep DEF IInv
  <1>1. CASE Tick
    <2>1. WithdrawnIsUnusable' /\ EndedForAReason'
      BY <1>1, QuietStep DEF Tick
    <2>2. ExpiryInFlightJustified'
      BY <1>1, PendingStays, LapsedIsStable
      DEF Tick, ExpiryInFlightJustified, Lapsed
    <2> QED
      BY <2>1, <2>2
  <1>2. ASSUME NEW p \in Calls, NEW c \in Consents, RevokeRead(p, c)
        PROVE  WithdrawnIsUnusable' /\ EndedForAReason'
                 /\ ExpiryInFlightJustified'
    <2>1. WithdrawnIsUnusable' /\ EndedForAReason'
      BY <1>2, QuietStep DEF RevokeRead
    <2>2. ExpiryInFlightJustified'
      BY <1>2, PendingStays, LapsedIsStable
      DEF IInv, TypeOK, RevokeRead, ExpiryInFlightJustified, Lapsed
    <2> QED
      BY <2>1, <2>2
  <1>3. ASSUME NEW p \in Calls, NEW c \in Consents, StatusRead(p, c)
        PROVE  WithdrawnIsUnusable' /\ EndedForAReason'
                 /\ ExpiryInFlightJustified'
    <2>1. WithdrawnIsUnusable' /\ EndedForAReason'
      BY <1>3, QuietStep DEF StatusRead
    <2>2. Lapsed(c, clock')
      BY <1>3, LapsedIsStable DEF StatusRead, Expirable, IInv
    <2>3. ExpiryInFlightJustified'
      BY <1>3, <2>2, PendingStays, LapsedIsStable
      DEF IInv, TypeOK, StatusRead, ExpiryInFlightJustified, Lapsed
    <2> QED
      BY <2>1, <2>3
  <1>4. ASSUME NEW p \in Calls, RevokeCommit(p)
        PROVE  WithdrawnIsUnusable' /\ EndedForAReason'
                 /\ ExpiryInFlightJustified'
    <2> DEFINE c == call[p].consent
    <2>1. c \in Consents
      BY <1>4, CallNamesConsent DEF RevokeCommit, IInv
    <2>2. /\ status'[c] = "revoked"
          /\ revocations'[c] = Append(revocations[c], clock)
          /\ \A d \in Consents \ {c} : /\ status'[d] = status[d]
                                       /\ revocations'[d] = revocations[d]
      BY <1>4, <2>1 DEF RevokeCommit, IInv, TypeOK
    <2>5. revocations'[c] # <<>>
      <3>1. revocations[c] \in Seq(Times) /\ clock \in Times
        BY <2>1 DEF IInv, TypeOK
      <3> QED
        BY <2>2, <3>1, AppendProperties
    <2>3. WithdrawnIsUnusable' /\ EndedForAReason'
      BY <2>2, <2>5, LapsedIsStable
      DEF IInv, WithdrawnIsUnusable, EndedForAReason, Withdrawn, Lapsed
    <2>4. ExpiryInFlightJustified'
      BY <1>4, PendingStays, LapsedIsStable
      DEF IInv, TypeOK, RevokeCommit, ExpiryInFlightJustified, Lapsed, IdleCall
    <2> QED
      BY <2>3, <2>4
  <1>5. ASSUME NEW p \in Calls, StatusCommit(p)
        PROVE  WithdrawnIsUnusable' /\ EndedForAReason'
                 /\ ExpiryInFlightJustified'
    <2> DEFINE c == call[p].consent
    <2>1. c \in Consents /\ Lapsed(c, clock')
      BY <1>5, CallNamesConsent, LapsedIsStable
      DEF StatusCommit, IInv, ExpiryInFlightJustified
    <2>2. WithdrawnIsUnusable' /\ EndedForAReason'
      BY <1>5, <2>1, LapsedIsStable
      DEF IInv, TypeOK, StatusCommit, WithdrawnIsUnusable, EndedForAReason,
          Withdrawn, Lapsed
    <2>3. ExpiryInFlightJustified'
      BY <1>5, PendingStays, LapsedIsStable
      DEF IInv, TypeOK, StatusCommit, ExpiryInFlightJustified, Lapsed, IdleCall
    <2> QED
      BY <2>2, <2>3
  <1>6. ASSUME NEW p \in Calls, CallDies(p)
        PROVE  WithdrawnIsUnusable' /\ EndedForAReason'
                 /\ ExpiryInFlightJustified'
    <2>1. WithdrawnIsUnusable' /\ EndedForAReason'
      BY <1>6, QuietStep DEF CallDies
    <2>2. ExpiryInFlightJustified'
      BY <1>6, PendingStays, LapsedIsStable
      DEF IInv, TypeOK, CallDies, ExpiryInFlightJustified, Lapsed, IdleCall
    <2> QED
      BY <2>1, <2>2
  <1>7. ASSUME NEW w \in Sweeps, SweepStart(w)
        PROVE  WithdrawnIsUnusable' /\ EndedForAReason'
                 /\ ExpiryInFlightJustified'
    <2>1. WithdrawnIsUnusable' /\ EndedForAReason'
      BY <1>7, QuietStep DEF SweepStart
    <2>2. ExpiryInFlightJustified'
      BY <1>7, PendingStays, LapsedIsStable, ConstantsAssumption
      DEF IInv, TypeOK, Times, SweepStart, ExpiryInFlightJustified, Lapsed
    <2> QED
      BY <2>1, <2>2
  <1>8. ASSUME NEW w \in Sweeps, SweepSelect(w)
        PROVE  WithdrawnIsUnusable' /\ EndedForAReason'
                 /\ ExpiryInFlightJustified'
    <2>1. WithdrawnIsUnusable' /\ EndedForAReason'
      BY <1>8, QuietStep DEF SweepSelect
    <2>2. sweep[w].now \in Times /\ sweep[w].now <= clock
      BY <1>8, SweepFields DEF SweepSelect, IInv, ExpiryInFlightJustified
    <2>3. \A c \in {d \in Consents : Expirable(d, sweep[w].now)} :
            Lapsed(c, clock')
      BY <1>8, <2>2, ConstantsAssumption
      DEF SweepSelect, Expirable, Lapsed, IInv, TypeOK, Times
    <2>4. ExpiryInFlightJustified'
      BY <1>8, <2>3, PendingStays, LapsedIsStable
      DEF IInv, TypeOK, SweepSelect, ExpiryInFlightJustified, Lapsed
    <2> QED
      BY <2>1, <2>4
  <1>9. ASSUME NEW w \in Sweeps, SweepCommit(w)
        PROVE  WithdrawnIsUnusable' /\ EndedForAReason'
                 /\ ExpiryInFlightJustified'
    <2>1. \A c \in sweep[w].rows : c \in Consents /\ Lapsed(c, clock')
      BY <1>9, SweepFields, LapsedIsStable
      DEF SweepCommit, IInv, ExpiryInFlightJustified
    <2>2. WithdrawnIsUnusable' /\ EndedForAReason'
      BY <1>9, <2>1, LapsedIsStable
      DEF IInv, TypeOK, SweepCommit, WithdrawnIsUnusable, EndedForAReason,
          Withdrawn, Lapsed
    <2>3. ExpiryInFlightJustified'
      BY <1>9, PendingStays, LapsedIsStable
      DEF IInv, TypeOK, SweepCommit, ExpiryInFlightJustified, Lapsed, IdleSweep
    <2> QED
      BY <2>2, <2>3
  <1>10. ASSUME NEW w \in Sweeps, SweepDies(w)
         PROVE  WithdrawnIsUnusable' /\ EndedForAReason'
                  /\ ExpiryInFlightJustified'
    <2>1. WithdrawnIsUnusable' /\ EndedForAReason'
      BY <1>10, QuietStep DEF SweepDies
    <2>2. ExpiryInFlightJustified'
      BY <1>10, PendingStays, LapsedIsStable
      DEF IInv, TypeOK, SweepDies, ExpiryInFlightJustified, Lapsed, IdleSweep
    <2> QED
      BY <2>1, <2>2
  <1>11. CASE UNCHANGED vars
    <2>1. WithdrawnIsUnusable' /\ EndedForAReason'
      BY <1>11, QuietStep DEF vars
    <2>2. ExpiryInFlightJustified'
      BY <1>11, PendingStays, LapsedIsStable
      DEF vars, ExpiryInFlightJustified, Lapsed
    <2> QED
      BY <2>1, <2>2
  <1> QED
    BY <1>1, <1>2, <1>3, <1>4, <1>5, <1>6, <1>7, <1>8, <1>9, <1>10, <1>11
    DEF Next, CallStep, SweepStep

\* No interleaving of revocations, status reads, expiry runs and dying pods
\* makes a consent usable again once a revocation of it is on record.
THEOREM WithdrawalHolds == Spec => []WithdrawnIsUnusable
  <1>1. IInv => WithdrawnIsUnusable
    BY DEF IInv
  <1> QED
    BY IInvInit, IInvStep, <1>1, PTL DEF Spec

\* A consent shown as expired is past its valid_until, and one shown as
\* revoked has its revocation record, however late the writer committed.
THEOREM EndHasAReason == Spec => []EndedForAReason
  <1>1. IInv => EndedForAReason
    BY DEF IInv
  <1> QED
    BY IInvInit, IInvStep, <1>1, PTL DEF Spec

\* What is still in flight may only expire rows whose validity is over.
THEOREM PendingExpiriesHold == Spec => []ExpiryInFlightJustified
  <1>1. IInv => ExpiryInFlightJustified
    BY DEF IInv
  <1> QED
    BY IInvInit, IInvStep, <1>1, PTL DEF Spec

-----------------------------------------------------------------------------
(* Refinement: the handlers implement the promise of ConsentStanding. *)

LEMMA StandingValue ==
    ASSUME NEW c \in Consents
    PROVE  /\ Withdrawn(c) => Standing[c] = "withdrawn"
           /\ ~Withdrawn(c) /\ status[c] = "expired" => Standing[c] = "lapsed"
           /\ ~Withdrawn(c) /\ status[c] # "expired" => Standing[c] = "given"
  BY DEF Standing

\* The same of the next state.
LEMMA StandingValueNext ==
    ASSUME NEW c \in Consents
    PROVE  /\ Withdrawn(c)' => Standing'[c] = "withdrawn"
           /\ ~Withdrawn(c)' /\ status'[c] = "expired"
                => Standing'[c] = "lapsed"
           /\ ~Withdrawn(c)' /\ status'[c] # "expired"
                => Standing'[c] = "given"
  BY DEF Standing

LEMMA InitRefines == Init => Abstract!Init
  BY DEF Init, Abstract!Init, Standing, Withdrawn, Times

\* A step that changes neither the status column nor the records leaves every
\* consent standing as it was.
LEMMA QuietStanding ==
    ASSUME UNCHANGED <<status, revocations>>
    PROVE  UNCHANGED Standing
  BY DEF Standing, Withdrawn

\* Committing an expiry, of one row or of many, is an abstract lapse of those
\* rows that still stood.
LEMMA ExpiryLapses ==
    ASSUME IInv, NEW rows \in SUBSET Consents,
           \A c \in rows : Lapsed(c, clock),
           status' = [c \in Consents |->
                         IF c \in rows THEN "expired" ELSE status[c]],
           UNCHANGED <<clock, validUntil, revocations>>
    PROVE  Abstract!Lapse({c \in rows : Standing[c] = "given"})
  <1> DEFINE lapsed == {c \in rows : Standing[c] = "given"}
  <1>1. \A c \in lapsed : Standing[c] = "given" /\ validUntil[c] < clock
    BY DEF Lapsed
  <1>2. ASSUME NEW c \in Consents
        PROVE  Standing'[c] = IF c \in lapsed THEN "lapsed" ELSE Standing[c]
    <2>1. Withdrawn(c)' <=> Withdrawn(c)
      BY DEF Withdrawn
    <2>2. CASE Withdrawn(c)
      BY <2>1, <2>2, StandingValue, StandingValueNext
    <2>3. CASE ~Withdrawn(c) /\ c \in rows
      BY <2>1, <2>3, StandingValue, StandingValueNext
    <2>4. CASE ~Withdrawn(c) /\ c \notin rows
      BY <2>1, <2>4, StandingValue, StandingValueNext
    <2> QED
      BY <2>2, <2>3, <2>4
  <1>3. Standing' = [c \in Consents |->
                        IF c \in lapsed THEN "lapsed" ELSE Standing[c]]
    <2>1. Standing' = [c \in Consents |-> Standing'[c]]
      BY DEF Standing
    <2> QED
      BY <1>2, <2>1
  <1> QED
    BY <1>1, <1>3 DEF Abstract!Lapse

\* Committing a revocation withdraws the consent, or changes nothing a second
\* time.
LEMMA RevocationWithdraws ==
    ASSUME IInv, IInv', NEW p \in Calls, RevokeCommit(p)
    PROVE  Abstract!Withdraw(call[p].consent) \/ UNCHANGED Abstract!vars
  <1> DEFINE c == call[p].consent
  <1>1. c \in Consents
    BY CallNamesConsent DEF RevokeCommit, IInv
  <1>2. \A d \in Consents \ {c} : Standing'[d] = Standing[d]
    <2> TAKE d \in Consents \ {c}
    <2>1. status'[d] = status[d] /\ revocations'[d] = revocations[d]
      BY <1>1 DEF RevokeCommit, IInv, TypeOK
    <2> QED
      BY <2>1, StandingValue, StandingValueNext DEF Withdrawn
  <1>3. Standing'[c] = "withdrawn"
    <2>1. revocations'[c] = Append(revocations[c], clock)
      BY <1>1 DEF RevokeCommit, IInv, TypeOK
    <2>2. revocations[c] \in Seq(Times) /\ clock \in Times
      BY <1>1 DEF IInv, TypeOK
    <2>3. revocations'[c] # <<>>
      BY <2>1, <2>2, AppendProperties
    <2> QED
      BY <1>1, <2>3, StandingValueNext DEF Withdrawn
  <1>4. /\ Standing = [d \in Consents |-> Standing[d]]
        /\ Standing' = [d \in Consents |-> Standing'[d]]
    BY DEF Standing
  <1>5. UNCHANGED <<clock, validUntil>>
    BY DEF RevokeCommit
  <1>6. CASE Standing[c] = "withdrawn"
    <2>1. \A d \in Consents : Standing'[d] = Standing[d]
      BY <1>2, <1>3, <1>6
    <2>2. Standing' = Standing
      BY <1>4, <2>1
    <2> QED
      BY <1>5, <2>2 DEF Abstract!vars
  <1>7. CASE Standing[c] # "withdrawn"
    <2>1. Standing' = [Standing EXCEPT ![c] = "withdrawn"]
      BY <1>1, <1>2, <1>3, <1>4
    <2> QED
      BY <1>5, <1>7, <2>1 DEF Abstract!Withdraw
  <1> QED
    BY <1>6, <1>7

LEMMA StepRefines ==
    IInv /\ IInv' /\ [Next]_vars => [Abstract!Next]_(Abstract!vars)
  <1> SUFFICES ASSUME IInv, IInv', [Next]_vars
               PROVE  Abstract!Next \/ UNCHANGED Abstract!vars
    OBVIOUS
  <1>1. CASE Tick
    BY <1>1, QuietStanding DEF Tick, Abstract!Next, Abstract!Tick
  <1>2. ASSUME NEW p \in Calls, RevokeCommit(p)
        PROVE  Abstract!Next \/ UNCHANGED Abstract!vars
    BY <1>2, RevocationWithdraws, CallNamesConsent
    DEF Abstract!Next, IInv, RevokeCommit
  <1>3. ASSUME NEW p \in Calls, StatusCommit(p)
        PROVE  Abstract!Next
    <2> DEFINE rows == {call[p].consent}
    <2>1. rows \in SUBSET Consents /\ \A c \in rows : Lapsed(c, clock)
      BY <1>3, CallNamesConsent
      DEF StatusCommit, IInv, ExpiryInFlightJustified
    <2>2. status' = [c \in Consents |->
                        IF c \in rows THEN "expired" ELSE status[c]]
      BY <1>3 DEF StatusCommit, IInv, TypeOK
    <2>3. Abstract!Lapse({c \in rows : Standing[c] = "given"})
      BY <1>3, <2>1, <2>2, ExpiryLapses DEF StatusCommit
    <2>4. {c \in rows : Standing[c] = "given"} \in SUBSET Consents
      BY <2>1
    <2> QED
      BY <2>3, <2>4 DEF Abstract!Next
  <1>4. ASSUME NEW w \in Sweeps, SweepCommit(w)
        PROVE  Abstract!Next
    <2> DEFINE rows == sweep[w].rows
    <2>1. rows \in SUBSET Consents /\ \A c \in rows : Lapsed(c, clock)
      BY <1>4, SweepFields DEF SweepCommit, IInv, ExpiryInFlightJustified
    <2>2. Abstract!Lapse({c \in rows : Standing[c] = "given"})
      BY <1>4, <2>1, ExpiryLapses DEF SweepCommit
    <2>3. {c \in rows : Standing[c] = "given"} \in SUBSET Consents
      BY <2>1
    <2> QED
      BY <2>2, <2>3 DEF Abstract!Next
  <1>5. ASSUME UNCHANGED <<clock, validUntil, status, revocations>>
        PROVE  UNCHANGED Abstract!vars
    BY <1>5, QuietStanding DEF Abstract!vars
  <1> QED
    BY <1>1, <1>2, <1>3, <1>4, <1>5
    DEF Next, vars, CallStep, SweepStep, RevokeRead, StatusRead, CallDies,
        SweepStart, SweepSelect, SweepDies

\* The racing handlers implement ConsentStanding: read together, the status
\* column and the revocation records never let a withdrawal be undone and
\* never let a consent lapse before its time.
THEOREM Refinement == Spec => StandingRefined
  <1>1. Spec => []IInv
    BY IInvInit, IInvStep, PTL DEF Spec
  <1> QED
    BY <1>1, InitRefines, StepRefines, PTL
    DEF Spec, StandingRefined, Abstract!Spec
=============================================================================
