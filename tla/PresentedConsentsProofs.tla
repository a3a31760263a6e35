---------------------- MODULE PresentedConsentsProofs ----------------------
(* Theorems of PresentedConsents, for every value of the constants. *)
EXTENDS PresentedConsents, SequenceTheorems, TLAPS

\* The inductive invariant: the types, what the calls in flight rely on, and
\* the two properties that do not follow from it.
PresentedIInv ==
    /\ PresentedTypeOK
    /\ PresentationSound
    /\ ReuseIsRefused
    /\ PermitLoggedOnce

-----------------------------------------------------------------------------
(* Type correctness *)

\* A revocation or expiry in flight names consents.
LEMMA HandlerFields ==
    ASSUME PresentedTypeOK
    PROVE  /\ \A p \in Calls : call[p].phase # "idle" => call[p].consent \in Consents
           /\ \A w \in Sweeps :
                /\ sweep[w].phase = "started" => sweep[w].now \in Times
                /\ sweep[w].phase = "selected" => sweep[w].rows \in SUBSET Consents
  <1>1. ASSUME NEW p \in Calls, call[p].phase # "idle"
        PROVE  call[p].consent \in Consents
    BY <1>1 DEF PresentedTypeOK, CallState, IdleCall
  <1>2. ASSUME NEW w \in Sweeps
        PROVE  /\ sweep[w].phase = "started" => sweep[w].now \in Times
               /\ sweep[w].phase = "selected" => sweep[w].rows \in SUBSET Consents
    BY DEF PresentedTypeOK, SweepState, IdleSweep
  <1> QED
    BY <1>1, <1>2

\* What a call in each phase holds.
LEMMA PresentationFields ==
    ASSUME PresentedTypeOK, NEW q \in Presentations
    PROVE  LET s == presentation[q] IN
           /\ s.phase \notin {"new", "dead"} => s.consent \in Consents /\ s.now \in Times
           /\ s.phase \in {"evaluated", "recorded", "permitted"}
                => s.effective \in SUBSET Scopes
           /\ s.phase \in {"recorded", "permitted"} => s.of \in Consents
  BY DEF PresentedTypeOK, PresentationState

\* Assigning one call's progress.
LEMMA MovesOne ==
    ASSUME PresentedTypeOK, NEW q \in Presentations, NEW next, Moves(q, next)
    PROVE  /\ presentation'[q] = next
           /\ \A r \in Presentations \ {q} : presentation'[r] = presentation[r]
           /\ next \in PresentationState
                => presentation' \in [Presentations -> PresentationState]
  BY DEF Moves, PresentedTypeOK

LEMMA PresentedTypeInit == PresentedInit => PresentedTypeOK
  BY ConstantsAssumption
  DEF PresentedInit, PresentedTypeOK, Times, CallState, SweepState,
      PresentationState

\* The writers of the status column keep the types.
LEMMA StatusTypeStep ==
    ASSUME PresentedTypeOK, Next, UNCHANGED presentedVars
    PROVE  PresentedTypeOK'
  <1> USE ConstantsAssumption
  <1>0. UNCHANGED <<artefact, presentation, decisions>>
    BY DEF presentedVars
  <1>1. CASE Tick
    BY <1>0, <1>1 DEF PresentedTypeOK, Tick, Times
  <1>2. ASSUME NEW p \in Calls, NEW c \in Consents, RevokeRead(p, c)
        PROVE  PresentedTypeOK'
    BY <1>0, <1>2 DEF PresentedTypeOK, RevokeRead, CallState
  <1>3. ASSUME NEW p \in Calls, NEW c \in Consents, StatusRead(p, c)
        PROVE  PresentedTypeOK'
    BY <1>0, <1>3 DEF PresentedTypeOK, StatusRead, CallState
  <1>4. ASSUME NEW p \in Calls, RevokeCommit(p) PROVE PresentedTypeOK'
    <2>1. call[p].consent \in Consents
      BY <1>4, HandlerFields DEF RevokeCommit
    <2>2. /\ status' \in [Consents -> ArtefactStatus \cup {Unrecorded}]
          /\ call' \in [Calls -> CallState]
      BY <1>4, <2>1 DEF PresentedTypeOK, RevokeCommit, ArtefactStatus, CallState
    <2>3. revocations' \in [Consents -> Seq(Times)]
      BY <1>4, <2>1 DEF PresentedTypeOK, RevokeCommit
    <2> QED
      BY <1>0, <1>4, <2>2, <2>3 DEF PresentedTypeOK, RevokeCommit
  <1>5. ASSUME NEW p \in Calls, StatusCommit(p) PROVE PresentedTypeOK'
    BY <1>0, <1>5 DEF PresentedTypeOK, StatusCommit, ArtefactStatus, CallState
  <1>6. ASSUME NEW p \in Calls, CallDies(p) PROVE PresentedTypeOK'
    BY <1>0, <1>6 DEF PresentedTypeOK, CallDies, CallState
  <1>7. ASSUME NEW w \in Sweeps, SweepStart(w) PROVE PresentedTypeOK'
    BY <1>0, <1>7 DEF PresentedTypeOK, SweepStart, SweepState
  <1>8. ASSUME NEW w \in Sweeps, SweepSelect(w) PROVE PresentedTypeOK'
    BY <1>0, <1>8 DEF PresentedTypeOK, SweepSelect, SweepState
  <1>9. ASSUME NEW w \in Sweeps, SweepCommit(w) PROVE PresentedTypeOK'
    BY <1>0, <1>9 DEF PresentedTypeOK, SweepCommit, SweepState, ArtefactStatus
  <1>10. ASSUME NEW w \in Sweeps, SweepDies(w) PROVE PresentedTypeOK'
    BY <1>0, <1>10 DEF PresentedTypeOK, SweepDies, SweepState
  <1> QED
    BY <1>1, <1>2, <1>3, <1>4, <1>5, <1>6, <1>7, <1>8, <1>9, <1>10
    DEF Next, CallStep, SweepStep

\* An answer from the artefact is well typed.
LEMMA StoredDecisionType ==
    ASSUME PresentedTypeOK, NEW q \in Presentations, artefact # NoArtefact,
           presentation[q].phase \notin {"new", "dead"}
    PROVE  StoredDecision(q) \in PresentationState
  <1>1. artefact.of \in Consents /\ artefact.effective \in SUBSET Scopes
    BY DEF PresentedTypeOK, Artefact
  <1> QED
    BY <1>1, PresentationFields DEF StoredDecision, Denied, PresentationState

LEMMA PresentationTypeStep ==
    ASSUME PresentedTypeOK, NEW q \in Presentations, PresentationStep(q),
           PresentationSound
    PROVE  PresentedTypeOK'
  <1> DEFINE s == presentation[q]
  <1>1. ASSUME NEW c \in Consents, Present(q, c) PROVE PresentedTypeOK'
    <2>1. [phase |-> "presented", consent |-> c, now |-> clock] \in PresentationState
      BY DEF PresentedTypeOK, PresentationState
    <2> QED
      BY <1>1, <2>1, MovesOne DEF Present, vars, PresentedTypeOK
  <1>2. CASE ReadPolicy(q)
    <2>1. [phase |-> "authorised", consent |-> s.consent, now |-> s.now]
            \in PresentationState
      BY <1>2, PresentationFields DEF ReadPolicy, PresentationState
    <2> QED
      BY <1>2, <2>1, MovesOne DEF ReadPolicy, vars, PresentedTypeOK
  <1>3. CASE Deny(q)
    <2>1. Denied(q) \in PresentationState
      BY <1>3, PresentationFields DEF Deny, Denied, PresentationState
    <2>2. decisions' \in SUBSET [call : Presentations, decision : {"permit", "deny"}]
      BY <1>3 DEF Deny, PresentedTypeOK
    <2> QED
      BY <1>3, <2>1, <2>2, MovesOne DEF Deny, vars, PresentedTypeOK
  <1>4. CASE AnswerStored(q)
    BY <1>4, StoredDecisionType, MovesOne DEF AnswerStored, vars, PresentedTypeOK
  <1>5. CASE Evaluate(q)
    <2>1. PICK effective \in SUBSET Says[s.consent].scopes :
            Moves(q, [phase |-> "evaluated", consent |-> s.consent,
                      now |-> s.now, effective |-> effective])
      BY <1>5 DEF Evaluate
    <2>2. effective \in SUBSET Scopes /\ s.consent \in Consents /\ s.now \in Times
      BY <1>5, PresentationFields, PresentedAssumption DEF Evaluate
    <2>3. [phase |-> "evaluated", consent |-> s.consent, now |-> s.now,
           effective |-> effective] \in PresentationState
      BY <2>2 DEF PresentationState
    <2> QED
      BY <1>5, <2>1, <2>3, MovesOne DEF Evaluate, vars, PresentedTypeOK
  <1>6. CASE Insert(q)
    <2>1. /\ s.consent \in Consents /\ s.now \in Times
          /\ s.effective \in SUBSET Scopes /\ clock \in Times
      BY <1>6, PresentationFields DEF Insert, PresentedTypeOK
    <2>2. [phase |-> "recorded", consent |-> s.consent, now |-> s.now,
           of |-> s.consent, effective |-> s.effective] \in PresentationState
      BY <2>1 DEF PresentationState
    <2>3. artefact' \in Artefact
      BY <1>6, <2>1 DEF Insert, Inserts, Artefact
    <2>4. status' \in [Consents -> ArtefactStatus \cup {Unrecorded}]
      <3>1. status' = [status EXCEPT ![s.consent] = "active"]
        BY <1>6 DEF Insert, Inserts
      <3>2. "active" \in ArtefactStatus
        BY DEF ArtefactStatus
      <3> QED
        BY <3>1, <3>2 DEF PresentedTypeOK
    <2>7. decisions' \in SUBSET [call : Presentations, decision : {"permit", "deny"}]
      <3>1. decisions' = decisions \cup {[call |-> q, decision |-> "permit"]}
        BY <1>6 DEF Insert, Inserts
      <3> QED
        BY <3>1 DEF PresentedTypeOK
    <2>5. Moves(q, [phase |-> "recorded", consent |-> s.consent, now |-> s.now,
                    of |-> s.consent, effective |-> s.effective])
          /\ UNCHANGED <<clock, validUntil, revocations, call, sweep>>
      BY <1>6 DEF Insert, Inserts
    <2>6. presentation' \in [Presentations -> PresentationState]
      BY <2>2, <2>5, MovesOne
    <2> QED
      BY <2>3, <2>4, <2>5, <2>6, <2>7 DEF PresentedTypeOK
  <1>7. CASE InsertFails(q)
    <2>1. [phase |-> "lost", consent |-> s.consent, now |-> s.now] \in PresentationState
      BY <1>7, PresentationFields DEF InsertFails, PresentationState
    <2> QED
      BY <1>7, <2>1, MovesOne DEF InsertFails, vars, PresentedTypeOK
  <1>8. CASE AnswerWinner(q)
    <2>1. artefact # NoArtefact
      BY <1>8 DEF AnswerWinner, PresentationSound, CallSound
    <2> QED
      BY <1>8, <2>1, StoredDecisionType, MovesOne DEF AnswerWinner, vars, PresentedTypeOK
  <1>9. CASE AnswerRecorded(q)
    <2>1. [phase |-> "permitted", consent |-> s.consent, now |-> s.now,
           of |-> s.of, effective |-> s.effective] \in PresentationState
      BY <1>9, PresentationFields DEF AnswerRecorded, PresentationState
    <2> QED
      BY <1>9, <2>1, MovesOne DEF AnswerRecorded, vars, PresentedTypeOK
  <1>10. CASE PresentationDies(q)
    <2>1. [phase |-> "dead"] \in PresentationState
      BY DEF PresentationState
    <2> QED
      BY <1>10, <2>1, MovesOne DEF PresentationDies, vars, PresentedTypeOK
  <1> QED
    BY <1>1, <1>2, <1>3, <1>4, <1>5, <1>6, <1>7, <1>8, <1>9, <1>10
    DEF PresentationStep

-----------------------------------------------------------------------------
(* What every step leaves true *)

\* Of the steps of a call, only the insertion changes what is recorded.
LEMMA OnlyInsertRecords ==
    ASSUME NEW q \in Presentations, PresentationStep(q)
    PROVE  Insert(q) \/ UNCHANGED <<vars, artefact>>
  BY DEF PresentationStep, Present, ReadPolicy, Deny, AnswerStored, Evaluate,
         InsertFails, AnswerWinner, AnswerRecorded, PresentationDies

\* The writers of the status column never give a recorded artefact's status
\* back, and date a revocation now.
LEMMA Background ==
    ASSUME PresentedTypeOK, PresentationSound, [PresentedNext]_everyVar
    PROVE  /\ clock \in Nat /\ clock' \in Nat /\ clock <= clock'
           /\ validUntil' = validUntil
           /\ \A c \in Consents :
                \/ revocations'[c] = revocations[c]
                \/ /\ revocations'[c] = Append(revocations[c], clock)
                   /\ status[c] # Unrecorded /\ status'[c] = "revoked"
           /\ \A c \in Consents : status[c] # Unrecorded => status'[c] # Unrecorded
  <1> USE ConstantsAssumption
  <1>0. clock \in Nat /\ clock <= clock
    BY DEF PresentedTypeOK, Times
  <1>1. CASE UNCHANGED vars
    BY <1>0, <1>1 DEF vars
  <1>2. CASE Tick
    BY <1>0, <1>2 DEF Tick
  <1>3. ASSUME NEW p \in Calls,
               \/ \E c \in Consents : RevokeRead(p, c) \/ StatusRead(p, c)
               \/ CallDies(p)
        PROVE  UNCHANGED <<clock, validUntil, status, revocations>>
    BY <1>3 DEF RevokeRead, StatusRead, CallDies
  <1>4. ASSUME NEW w \in Sweeps, SweepStart(w) \/ SweepSelect(w) \/ SweepDies(w)
        PROVE  UNCHANGED <<clock, validUntil, status, revocations>>
    BY <1>4 DEF SweepStart, SweepSelect, SweepDies
  <1>5. ASSUME NEW p \in Calls, RevokeCommit(p)
        PROVE  /\ UNCHANGED <<clock, validUntil>>
               /\ \A c \in Consents :
                    \/ revocations'[c] = revocations[c] /\ status'[c] = status[c]
                    \/ /\ revocations'[c] = Append(revocations[c], clock)
                       /\ status[c] # Unrecorded /\ status'[c] = "revoked"
    <2>1. call[p].consent \in Consents /\ status[call[p].consent] # Unrecorded
      BY <1>5, HandlerFields DEF RevokeCommit, PresentationSound, RecordedSound
    <2> QED
      BY <1>5, <2>1 DEF RevokeCommit, PresentedTypeOK
  <1>6. ASSUME NEW p \in Calls, StatusCommit(p)
        PROVE  /\ UNCHANGED <<clock, validUntil, revocations>>
               /\ \A c \in Consents : status'[c] \in {status[c], "expired"}
    BY <1>6 DEF StatusCommit, PresentedTypeOK
  <1>7. ASSUME NEW w \in Sweeps, SweepCommit(w)
        PROVE  /\ UNCHANGED <<clock, validUntil, revocations>>
               /\ \A c \in Consents : status'[c] \in {status[c], "expired"}
    BY <1>7 DEF SweepCommit, PresentedTypeOK
  <1>8. ASSUME NEW q \in Presentations, PresentationStep(q)
        PROVE  /\ UNCHANGED <<clock, validUntil, revocations>>
               /\ \A c \in Consents : status'[c] \in {status[c], "active"}
    <2>1. CASE Insert(q)
      BY <2>1 DEF Insert, Inserts, PresentedTypeOK
    <2>2. CASE UNCHANGED <<vars, artefact>>
      BY <2>2 DEF vars
    <2> QED
      BY <1>8, <2>1, <2>2, OnlyInsertRecords
  <1> QED
    BY <1>0, <1>1, <1>2, <1>3, <1>4, <1>5, <1>6, <1>7, <1>8
    DEF PresentedNext, everyVar, Next, CallStep, SweepStep, Unrecorded

\* Times that no revocation of c is older than keep that property.
LEMMA OldTimeStaysOld ==
    ASSUME PresentedTypeOK, PresentationSound, [PresentedNext]_everyVar,
           NEW c \in Consents, NEW n \in Nat, n <= clock,
           \A i \in 1..Len(revocations[c]) : n <= revocations[c][i]
    PROVE  \A i \in 1..Len(revocations'[c]) : n <= revocations'[c][i]
  <1>1. revocations[c] \in Seq(Times) /\ clock \in Times
    BY DEF PresentedTypeOK
  <1>2. CASE revocations'[c] = revocations[c]
    BY <1>2
  <1>3. CASE revocations'[c] = Append(revocations[c], clock)
    <2>1. /\ Len(revocations[c]) \in Nat
          /\ Len(revocations'[c]) = Len(revocations[c]) + 1
      BY <1>1, <1>3, AppendProperties, LenProperties
    <2>2. TAKE i \in 1..Len(revocations'[c])
    <2>3. CASE i \in 1..Len(revocations[c])
      BY <1>1, <1>3, <2>3, AppendProperties
    <2>4. CASE i = Len(revocations[c]) + 1
      BY <1>1, <1>3, <2>4, AppendProperties
    <2> QED
      BY <2>1, <2>2, <2>3, <2>4
  <1> QED
    BY <1>2, <1>3, Background

\* What is recorded is only added to: an artefact stays, and one is recorded
\* at the present time.
LEMMA ArtefactStays ==
    ASSUME [PresentedNext]_everyVar
    PROVE  \/ artefact' = artefact
           \/ artefact = NoArtefact /\ artefact'.created = clock
  <1>1. ASSUME NEW q \in Presentations, Insert(q)
        PROVE  artefact = NoArtefact /\ artefact'.created = clock
    BY <1>1 DEF Insert, Inserts
  <1> QED
    BY <1>1, OnlyInsertRecords DEF PresentedNext, everyVar, presentedVars

-----------------------------------------------------------------------------
(* What is recorded *)

LEMMA RecordedStep ==
    ASSUME PresentedTypeOK, PresentationSound, [PresentedNext]_everyVar
    PROVE  RecordedSound'
  <1>1. /\ \A c \in Consents : status[c] \in {"active", Unrecorded} => revocations[c] = <<>>
        /\ \A p \in Calls :
            call[p].phase # "idle" => status[call[p].consent] # Unrecorded
        /\ \A w \in Sweeps : sweep[w].phase = "selected" =>
            \A c \in sweep[w].rows : status[c] # Unrecorded
        /\ artefact = NoArtefact => \A c \in Consents : status[c] = Unrecorded
    BY DEF PresentationSound, RecordedSound, Withdrawn
  <1>2. \A c \in Consents :
            status'[c] \in {"active", Unrecorded} => revocations'[c] = <<>>
    <2> SUFFICES ASSUME NEW c \in Consents, status'[c] \in {"active", Unrecorded}
                 PROVE  revocations'[c] = <<>>
      OBVIOUS
    <2>1. revocations'[c] = revocations[c]
      BY Background DEF Unrecorded
    <2>2. status[c] \in {"active", Unrecorded}
      <3>1. ASSUME NEW p \in Calls, CallStep(p)
            PROVE  status'[c] \in {status[c], "revoked", "expired"}
        BY <3>1 DEF CallStep, RevokeRead, RevokeCommit, StatusRead, StatusCommit,
                    CallDies, PresentedTypeOK
      <3>2. ASSUME NEW w \in Sweeps, SweepStep(w)
            PROVE  status'[c] \in {status[c], "expired"}
        BY <3>2 DEF SweepStep, SweepStart, SweepSelect, SweepCommit, SweepDies,
                    PresentedTypeOK
      <3>3. ASSUME NEW q \in Presentations, PresentationStep(q)
            PROVE  status'[c] = status[c] \/ artefact = NoArtefact
        BY <3>3, OnlyInsertRecords DEF Insert, vars
      <3>4. status'[c] \in {status[c], "revoked", "expired"} \/ artefact = NoArtefact
        BY <3>1, <3>2, <3>3 DEF PresentedNext, everyVar, vars, Next, Tick
      <3> QED
        BY <1>1, <3>4 DEF Unrecorded
    <2> QED
      BY <1>1, <2>1, <2>2
  <1>3. ASSUME NEW p \in Calls, call'[p].phase # "idle"
        PROVE  status'[call'[p].consent] # Unrecorded
    <2>1. CASE call'[p] = call[p]
      BY <1>1, <1>3, <2>1, HandlerFields, Background
    <2>2. CASE call'[p] # call[p]
      <3>1. ASSUME NEW r \in Calls, CallStep(r)
            PROVE  \E c \in Consents : RevokeRead(p, c) \/ StatusRead(p, c)
        BY <1>3, <2>2, <3>1
        DEF CallStep, RevokeCommit, RevokeRead, StatusRead, StatusCommit, CallDies,
            PresentedTypeOK, IdleCall
      <3>2. ASSUME NEW w \in Sweeps, SweepStep(w) PROVE call' = call
        BY <3>2 DEF SweepStep, SweepStart, SweepSelect, SweepCommit, SweepDies
      <3>3. ASSUME NEW q \in Presentations, PresentationStep(q) PROVE call' = call
        BY <3>3, OnlyInsertRecords DEF Insert, Inserts, vars
      <3>4. PICK c \in Consents : RevokeRead(p, c) \/ StatusRead(p, c)
        BY <2>2, <3>1, <3>2, <3>3 DEF PresentedNext, everyVar, vars, Next, Tick
      <3>5. call'[p].consent = c /\ status[c] = "active" /\ status' = status
        BY <3>4 DEF RevokeRead, StatusRead, Expirable, PresentedTypeOK
      <3> QED
        BY <3>5 DEF Unrecorded
    <2> QED
      BY <2>1, <2>2
  <1>4. ASSUME NEW w \in Sweeps, sweep'[w].phase = "selected",
               NEW c \in sweep'[w].rows
        PROVE  status'[c] # Unrecorded
    <2>1. CASE sweep'[w] = sweep[w]
      <3>1. c \in Consents /\ status[c] # Unrecorded
        BY <1>1, <1>4, <2>1, HandlerFields
      <3> QED
        BY <3>1, Background
    <2>2. CASE sweep'[w] # sweep[w]
      <3>1. ASSUME NEW v \in Sweeps, SweepStep(v) PROVE SweepSelect(w)
        BY <1>4, <2>2, <3>1
        DEF SweepStep, SweepStart, SweepSelect, SweepCommit, SweepDies,
            PresentedTypeOK, IdleSweep
      <3>2. ASSUME NEW p \in Calls, CallStep(p) PROVE sweep' = sweep
        BY <3>2 DEF CallStep, RevokeRead, RevokeCommit, StatusRead, StatusCommit, CallDies
      <3>3. ASSUME NEW q \in Presentations, PresentationStep(q) PROVE sweep' = sweep
        BY <3>3, OnlyInsertRecords DEF Insert, Inserts, vars
      <3>4. SweepSelect(w)
        BY <2>2, <3>1, <3>2, <3>3 DEF PresentedNext, everyVar, vars, Next, Tick
      <3>5. status[c] = "active" /\ status' = status
        BY <1>4, <3>4 DEF SweepSelect, Expirable, PresentedTypeOK
      <3> QED
        BY <3>5 DEF Unrecorded
    <2> QED
      BY <2>1, <2>2
  <1>5. /\ artefact' = NoArtefact => \A c \in Consents : status'[c] = Unrecorded
        /\ artefact' # NoArtefact => artefact'.effective \subseteq Says[artefact'.of].scopes
    <2>1. ASSUME NEW q \in Presentations, Insert(q)
          PROVE  /\ artefact' # NoArtefact
                 /\ artefact'.effective \subseteq Says[artefact'.of].scopes
      <3>1. /\ presentation[q].consent \in Consents
            /\ presentation[q].effective \in SUBSET Scopes
            /\ presentation[q].effective \subseteq Says[presentation[q].consent].scopes
        BY <2>1, PresentationFields DEF Insert, PresentationSound, CallSound
      <3>2. artefact' \in Artefact
        BY <2>1, <3>1 DEF Insert, Inserts, Artefact, PresentedTypeOK
      <3> QED
        BY <2>1, <3>1, <3>2, NoArtefactAssumption DEF Insert, Inserts
    <2>2. CASE \A q \in Presentations : ~Insert(q)
      <3>1. artefact' = artefact
        BY <2>2, OnlyInsertRecords DEF PresentedNext, everyVar, presentedVars
      <3>2. ASSUME NEW c \in Consents, status[c] = Unrecorded,
                   artefact = NoArtefact
            PROVE  status'[c] = Unrecorded
        <4>1. \A p \in Calls : call[p].phase = "idle"
          BY <1>1, <3>2, HandlerFields
        <4>2. \A w \in Sweeps : sweep[w].phase = "selected" => c \notin sweep[w].rows
          BY <1>1, <3>2
        <4>3. ASSUME NEW p \in Calls, CallStep(p) PROVE status'[c] = status[c]
          BY <4>1, <4>3 DEF CallStep, RevokeRead, RevokeCommit, StatusRead,
                            StatusCommit, CallDies
        <4>4. ASSUME NEW w \in Sweeps, SweepStep(w) PROVE status'[c] = status[c]
          BY <4>2, <4>4 DEF SweepStep, SweepStart, SweepSelect, SweepCommit,
                            SweepDies, PresentedTypeOK
        <4> QED
          BY <2>2, <3>2, <4>3, <4>4, OnlyInsertRecords
          DEF PresentedNext, everyVar, vars, Next, Tick
      <3> QED
        BY <1>1, <3>1, <3>2 DEF PresentationSound, RecordedSound
    <2> QED
      BY <2>1, <2>2
  <1> QED
    BY <1>2, <1>3, <1>4, <1>5 DEF RecordedSound, Withdrawn

-----------------------------------------------------------------------------
(* What the calls in flight rely on *)

\* Whatever another call, a revocation or an expiry does, a call can go on
\* relying on what it found out.
LEMMA CallStays ==
    ASSUME PresentedTypeOK, PresentationSound, [PresentedNext]_everyVar,
           NEW q \in Presentations, presentation'[q] = presentation[q]
    PROVE  CallSound(q)'
  <1> DEFINE s == presentation[q]
  <1>1. CallSound(q)
    BY DEF PresentationSound
  <1>2. s.phase \notin {"new", "dead"} => s.now \in Nat /\ s.consent \in Consents
    BY PresentationFields, ConstantsAssumption DEF Times
  <1>3. clock \in Nat /\ clock' \in Nat /\ clock <= clock' /\ validUntil' = validUntil
    BY Background
  <1>4. s.phase \notin {"new", "dead"} => s.now <= clock /\ s.now <= clock'
    BY <1>1, <1>2, <1>3 DEF CallSound
  <1>5. s.phase = "evaluated" /\ artefact' # NoArtefact => s.now <= artefact'.created
    BY <1>1, <1>4, ArtefactStays DEF CallSound
  <1>6. s.phase = "lost" => artefact' # NoArtefact /\ s.now <= artefact'.created
    BY <1>1, ArtefactStays DEF CallSound
  <1>7. s.phase \in {"recorded", "permitted"} =>
            /\ artefact' = artefact
            /\ \A i \in 1..Len(revocations'[s.of]) : s.now <= revocations'[s.of][i]
    <2> SUFFICES ASSUME s.phase \in {"recorded", "permitted"}
                 PROVE  /\ artefact' = artefact
                        /\ \A i \in 1..Len(revocations'[s.of]) :
                                s.now <= revocations'[s.of][i]
      OBVIOUS
    <2>1. artefact' = artefact
      BY <1>1, ArtefactStays DEF CallSound
    <2>2. s.of \in Consents /\ s.now \in Nat /\ s.now <= clock
      BY <1>2, <1>4, PresentationFields
    <2>3. \A i \in 1..Len(revocations[s.of]) : s.now <= revocations[s.of][i]
      BY <1>1 DEF CallSound
    <2>4. \A i \in 1..Len(revocations'[s.of]) : s.now <= revocations'[s.of][i]
      <3> HIDE DEF s
      <3> QED
        BY <2>2, <2>3, OldTimeStaysOld
    <2> QED
      BY <2>1, <2>4
  <1> QED
    BY <1>1, <1>3, <1>4, <1>5, <1>6, <1>7 DEF CallSound

\* ReuseIsRefused, of one call.
ReuseRefused(q) ==
    Permitted(q) /\ presentation[q].now > artefact.created =>
        LET mine == Says[presentation[q].consent]
            its  == Says[presentation[q].of]
        IN  /\ mine.partner = its.partner /\ mine.idValue = its.idValue
            /\ presentation[q].consent \notin Tokens =>
                /\ mine.idType = its.idType
                /\ presentation[q].effective \subseteq mine.scopes

\* The heart of the argument. An artefact that is active has no revocation, so
\* none is older than the call; one that is not lapsed at the call's own time
\* outlives it; and the consents were compared, or the call came first.
LEMMA StoredAnswerKeeps ==
    ASSUME PresentedTypeOK, PresentationSound, NEW q \in Presentations,
           AnswerStored(q) \/ AnswerWinner(q)
    PROVE  CallSound(q)' /\ ReuseRefused(q)'
  <1> DEFINE s == presentation[q]
  <1>1. /\ CallSound(q)
        /\ s.phase \in {"authorised", "lost"}
        /\ presentation'[q] = StoredDecision(q)
        /\ UNCHANGED <<clock, validUntil, status, revocations, artefact>>
    BY MovesOne DEF AnswerStored, AnswerWinner, vars, PresentationSound
  <1>2. artefact # NoArtefact /\ artefact \in Artefact
    BY <1>1 DEF AnswerStored, AnswerWinner, CallSound, PresentedTypeOK
  <1>3. /\ s.now \in Nat /\ s.consent \in Consents /\ s.now <= clock
        /\ artefact.of \in Consents /\ artefact.created \in Nat
        /\ validUntil[artefact.of] \in Nat
    BY <1>1, <1>2, PresentationFields, ConstantsAssumption
    DEF Artefact, Times, CallSound, PresentedTypeOK
  <1>4. CASE ~Permits(s.now)
    <2>1. presentation'[q] = [phase |-> "denied", consent |-> s.consent, now |-> s.now]
      BY <1>1, <1>4 DEF StoredDecision, Denied
    <2> QED
      BY <1>1, <1>3, <2>1 DEF CallSound, ReuseRefused, Permitted
  <1>5. CASE Permits(s.now)
    <2>1. presentation'[q] =
            [phase |-> "permitted", consent |-> s.consent, now |-> s.now,
             of |-> artefact.of, effective |-> artefact.effective]
      BY <1>1, <1>5 DEF StoredDecision
    <2>2. revocations[artefact.of] = <<>>
      BY <1>3, <1>5 DEF Permits, PresentationSound, RecordedSound, Withdrawn
    <2>3. s.now <= validUntil[artefact.of]
      BY <1>3, <1>5 DEF Permits, Lapsed
    <2>4. s.consent \in Tokens => s.now < validUntil[s.consent]
      BY <1>1 DEF CallSound
    <2>5. CallSound(q)'
      BY <1>1, <1>2, <1>3, <2>1, <2>2, <2>3, <2>4 DEF CallSound
    <2>6. CASE s.phase = "lost"
      <3>1. ~(s.now > artefact.created)
        BY <1>1, <1>3, <2>6 DEF CallSound
      <3> QED
        BY <1>1, <2>1, <2>5, <3>1 DEF ReuseRefused
    <2>7. CASE s.phase = "authorised"
      <3>1. Matches(s.consent, artefact.of)
        BY <2>7 DEF AnswerStored, AnswerWinner
      <3>2. artefact.effective \subseteq Says[artefact.of].scopes
        BY <1>2 DEF PresentationSound, RecordedSound
      <3> QED
        BY <1>1, <2>1, <2>5, <3>1, <3>2
        DEF ReuseRefused, Matches, MatchesToken, MatchesSigned
    <2> QED
      BY <1>1, <2>6, <2>7
  <1> QED
    BY <1>4, <1>5

\* A call that records the artefact answers within it.
LEMMA InsertKeeps ==
    ASSUME PresentedTypeOK, PresentationSound, NEW q \in Presentations, Insert(q)
    PROVE  CallSound(q)' /\ ReuseRefused(q)'
  <1> DEFINE s == presentation[q]
  <1>1. /\ CallSound(q) /\ s.phase = "evaluated" /\ artefact = NoArtefact
        /\ s.consent \in Consents /\ s.now \in Times /\ s.effective \in SUBSET Scopes
    BY PresentationFields DEF Insert, PresentationSound
  <1>2. presentation'[q] =
            [phase |-> "recorded", consent |-> s.consent, now |-> s.now,
             of |-> s.consent, effective |-> s.effective]
    BY MovesOne DEF Insert, Inserts
  <1>3. /\ UNCHANGED <<clock, validUntil, revocations>>
        /\ artefact' = [of |-> s.consent, effective |-> s.effective, created |-> clock]
    BY DEF Insert, Inserts
  <1>4. artefact' \in Artefact
    BY <1>1, <1>3 DEF Artefact, PresentedTypeOK
  <1>5. revocations[s.consent] = <<>>
    BY <1>1 DEF PresentationSound, RecordedSound, Withdrawn
  <1>6. /\ s.now <= clock /\ s.now <= validUntil[s.consent]
        /\ s.consent \in Tokens => s.now < validUntil[s.consent]
    BY <1>1 DEF CallSound
  <1>7. CallSound(q)'
    BY <1>2, <1>3, <1>4, <1>5, <1>6, NoArtefactAssumption DEF CallSound
  <1>8. ~Permitted(q)'
    BY <1>2 DEF Permitted
  <1> QED
    BY <1>7, <1>8 DEF ReuseRefused

LEMMA CallKeeps ==
    ASSUME PresentedTypeOK, PresentationSound, NEW q \in Presentations,
           PresentationStep(q)
    PROVE  CallSound(q)' /\ ReuseRefused(q)'
  <1> DEFINE s == presentation[q]
  <1>1. CallSound(q)
    BY DEF PresentationSound
  <1>2. /\ s.phase \notin {"new", "dead"} => s.consent \in Consents /\ s.now \in Nat
        /\ clock \in Nat /\ clock <= clock
    BY PresentationFields, ConstantsAssumption DEF Times, PresentedTypeOK
  <1>3. ASSUME NEW c \in Consents, Present(q, c)
        PROVE  CallSound(q)' /\ ReuseRefused(q)'
    <2>1. presentation'[q] = [phase |-> "presented", consent |-> c, now |-> clock]
      BY <1>3, MovesOne DEF Present
    <2> QED
      BY <1>2, <1>3, <2>1 DEF Present, vars, CallSound, ReuseRefused, Permitted
  <1>4. CASE ReadPolicy(q)
    <2>1. presentation'[q] =
            [phase |-> "authorised", consent |-> s.consent, now |-> s.now]
      BY <1>4, MovesOne DEF ReadPolicy
    <2> QED
      BY <1>1, <1>4, <2>1 DEF ReadPolicy, vars, CallSound, ReuseRefused, Permitted
  <1>5. CASE Deny(q)
    <2>1. presentation'[q] = [phase |-> "denied", consent |-> s.consent, now |-> s.now]
      BY <1>5, MovesOne DEF Deny, Denied
    <2> QED
      BY <1>1, <1>5, <2>1 DEF Deny, vars, CallSound, ReuseRefused, Permitted
  <1>6. CASE Evaluate(q)
    <2>1. PICK effective \in SUBSET Says[s.consent].scopes :
            Moves(q, [phase |-> "evaluated", consent |-> s.consent,
                      now |-> s.now, effective |-> effective])
      BY <1>6 DEF Evaluate
    <2>2. presentation'[q] = [phase |-> "evaluated", consent |-> s.consent,
                              now |-> s.now, effective |-> effective]
      BY <2>1, MovesOne
    <2>3. s.phase = "authorised" /\ artefact = NoArtefact
            /\ UNCHANGED <<clock, validUntil, artefact>>
      BY <1>6 DEF Evaluate, vars
    <2>4. s.consent \in Consents /\ s.now \in Nat /\ s.now <= clock
            /\ validUntil[s.consent] \in Nat
      BY <1>1, <1>2, <2>3, ConstantsAssumption DEF CallSound, PresentedTypeOK, Times
    <2>5. s.now <= validUntil[s.consent]
      <3>1. CASE s.consent \in Tokens
        <4>1. s.now < validUntil[s.consent]
          BY <1>1, <2>3, <3>1 DEF CallSound
        <4> QED
          BY <2>4, <4>1
      <3>2. CASE s.consent \notin Tokens
        <4>1. ~(validUntil[s.consent] < clock)
          BY <1>6, <3>2 DEF Evaluate, Lapsed
        <4> QED
          BY <1>2, <2>4, <4>1
      <3> QED
        BY <3>1, <3>2
    <2> QED
      BY <1>1, <2>2, <2>3, <2>4, <2>5 DEF CallSound, ReuseRefused, Permitted
  <1>7. CASE InsertFails(q)
    <2>1. presentation'[q] = [phase |-> "lost", consent |-> s.consent, now |-> s.now]
      BY <1>7, MovesOne DEF InsertFails
    <2> QED
      BY <1>1, <1>7, <2>1 DEF InsertFails, vars, CallSound, ReuseRefused, Permitted
  <1>8. CASE AnswerRecorded(q)
    <2>1. presentation'[q] =
            [phase |-> "permitted", consent |-> s.consent, now |-> s.now,
             of |-> s.of, effective |-> s.effective]
      BY <1>8, MovesOne DEF AnswerRecorded
    <2>2. /\ s.phase = "recorded" /\ s.of = s.consent
          /\ artefact # NoArtefact /\ s.of = artefact.of
          /\ s.effective = artefact.effective
          /\ artefact.effective \subseteq Says[artefact.of].scopes
      BY <1>1, <1>8
      DEF AnswerRecorded, CallSound, PresentationSound, RecordedSound
    <2>3. CallSound(q)'
      BY <1>1, <1>8, <2>1, <2>2 DEF AnswerRecorded, vars, CallSound
    <2> QED
      BY <1>8, <2>1, <2>2, <2>3 DEF AnswerRecorded, vars, ReuseRefused
  <1>9. CASE PresentationDies(q)
    <2>1. presentation'[q] = [phase |-> "dead"]
      BY <1>9, MovesOne DEF PresentationDies
    <2> QED
      BY <2>1 DEF CallSound, ReuseRefused, Permitted
  <1> QED
    BY <1>3, <1>4, <1>5, <1>6, <1>7, <1>8, <1>9, StoredAnswerKeeps, InsertKeeps
    DEF PresentationStep

-----------------------------------------------------------------------------
(* The inductive step and the theorems *)

LEMMA LogStep ==
    ASSUME PresentedTypeOK, PermitLoggedOnce, [PresentedNext]_everyVar
    PROVE  PermitLoggedOnce'
  <1>1. CASE UNCHANGED <<artefact, decisions>>
    BY <1>1 DEF PermitLoggedOnce, PermitsLogged
  <1>2. ASSUME NEW q \in Presentations, Deny(q) PROVE PermitLoggedOnce'
    <2>1. PermitsLogged' = PermitsLogged /\ artefact' = artefact
      BY <1>2 DEF Deny, PermitsLogged
    <2> QED
      BY <2>1 DEF PermitLoggedOnce
  <1>3. ASSUME NEW q \in Presentations, Insert(q) PROVE PermitLoggedOnce'
    <2>1. PermitsLogged = {}
      BY <1>3 DEF Insert, PermitLoggedOnce
    <2>2. PermitsLogged' = {[call |-> q, decision |-> "permit"]}
      BY <1>3, <2>1 DEF Insert, Inserts, PermitsLogged
    <2>3. artefact' \in Artefact
      <3>1. /\ presentation[q].consent \in Consents /\ clock \in Times
            /\ presentation[q].effective \in SUBSET Scopes
        BY <1>3, PresentationFields DEF Insert, PresentedTypeOK
      <3> QED
        BY <1>3, <3>1 DEF Insert, Inserts, Artefact
    <2> QED
      BY <2>2, <2>3, NoArtefactAssumption DEF PermitLoggedOnce
  <1> QED
    BY <1>1, <1>2, <1>3
    DEF PresentedNext, everyVar, presentedVars, PresentationStep, Present,
        ReadPolicy, AnswerStored, Evaluate, InsertFails, AnswerWinner,
        AnswerRecorded, PresentationDies

LEMMA PresentedIInvInit == PresentedInit => PresentedIInv
  <1> SUFFICES ASSUME PresentedInit PROVE PresentedIInv
    OBVIOUS
  <1>1. \A q \in Presentations : presentation[q].phase = "new"
    BY DEF PresentedInit
  <1>2. RecordedSound
    BY DEF PresentedInit, RecordedSound, Withdrawn, IdleCall, IdleSweep
  <1> QED
    BY <1>1, <1>2, PresentedTypeInit
    DEF PresentedInit, PresentedIInv, PresentationSound, CallSound, ReuseIsRefused,
        Permitted, PermitLoggedOnce, PermitsLogged

LEMMA PresentedIInvStep ==
    PresentedIInv /\ [PresentedNext]_everyVar => PresentedIInv'
  <1> SUFFICES ASSUME PresentedIInv, [PresentedNext]_everyVar
               PROVE  PresentedIInv'
    OBVIOUS
  <1>1. PresentedTypeOK /\ PresentationSound /\ PermitLoggedOnce /\ ReuseIsRefused
    BY DEF PresentedIInv
  <1>2. PresentedTypeOK'
    <2>1. CASE UNCHANGED everyVar
      BY <1>1, <2>1 DEF everyVar, vars, presentedVars, PresentedTypeOK
    <2> QED
      BY <1>1, <2>1, StatusTypeStep, PresentationTypeStep DEF PresentedNext
  <1>3. ASSUME NEW r \in Presentations
        PROVE  CallSound(r)' /\ ReuseRefused(r)'
    <2>1. CASE PresentationStep(r)
      BY <1>1, <2>1, CallKeeps
    <2>2. CASE ~PresentationStep(r)
      <3>1. presentation'[r] = presentation[r]
        <4>1. ASSUME NEW q \in Presentations, q # r, PresentationStep(q)
              PROVE  presentation'[r] = presentation[r]
          BY <1>1, <4>1
          DEF PresentationStep, Present, ReadPolicy, Deny, AnswerStored, Evaluate,
              Insert, Inserts, InsertFails, AnswerWinner, AnswerRecorded,
              PresentationDies, Moves, PresentedTypeOK
        <4> QED
          BY <2>2, <4>1 DEF PresentedNext, everyVar, presentedVars
      <3>2. CallSound(r) /\ ReuseRefused(r)
        BY <1>1 DEF PresentationSound, ReuseIsRefused, ReuseRefused
      <3>3. Permitted(r) => artefact' = artefact
        BY <3>2, ArtefactStays DEF Permitted, CallSound
      <3> QED
        BY <1>1, <3>1, <3>2, <3>3, CallStays DEF ReuseRefused, Permitted
    <2> QED
      BY <2>1, <2>2
  <1>4. RecordedSound' /\ PermitLoggedOnce'
    BY <1>1, RecordedStep, LogStep
  <1> QED
    BY <1>2, <1>3, <1>4
    DEF PresentedIInv, PresentationSound, ReuseIsRefused, ReuseRefused

LEMMA PresentedIInvHolds == PresentedSpec => []PresentedIInv
  BY PresentedIInvInit, PresentedIInvStep, PTL DEF PresentedSpec

\* The columns, the calls' local state and the decision log keep their types.
THEOREM PresentedTypeCorrect == PresentedSpec => []PresentedTypeOK
  BY PresentedIInvHolds, PTL DEF PresentedIInv

\* What the calls in flight rely on holds in every behaviour.
THEOREM PresentationIsSound == PresentedSpec => []PresentationSound
  BY PresentedIInvHolds, PTL DEF PresentedIInv

\* A consent whose artefact was revoked is refused to every call that arrives
\* later, whatever races with the revocation.
THEOREM WithdrawnStaysRefusedCorrect == PresentedSpec => []WithdrawnStaysRefused
  <1>1. PresentedIInv => WithdrawnStaysRefused
    BY DEF PresentedIInv, PresentationSound, CallSound, WithdrawnStaysRefused, Permitted
  <1> QED
    BY <1>1, PresentedIInvHolds, PTL

\* A permit is of a call that came before the end of the artefact and of the
\* token.
THEOREM PermitWithinValidityCorrect == PresentedSpec => []PermitWithinValidity
  <1>1. PresentedIInv => PermitWithinValidity
    BY DEF PresentedIInv, PresentationSound, CallSound, PermitWithinValidity, Permitted
  <1> QED
    BY <1>1, PresentedIInvHolds, PTL

\* A call that comes after the artefact was recorded is permitted only for the
\* consent it was made of.
THEOREM ReuseIsRefusedCorrect == PresentedSpec => []ReuseIsRefused
  BY PresentedIInvHolds, PTL DEF PresentedIInv

\* All permits name the one artefact and carry its scopes.
THEOREM PermitsAgreeCorrect == PresentedSpec => []PermitsAgree
  <1>1. PresentedIInv => PermitsAgree
    BY DEF PresentedIInv, PresentationSound, RecordedSound, CallSound, PermitsAgree,
           Permitted
  <1> QED
    BY <1>1, PresentedIInvHolds, PTL

\* The log has one permit when there is an artefact and none before.
THEOREM PermitLoggedOnceCorrect == PresentedSpec => []PermitLoggedOnce
  BY PresentedIInvHolds, PTL DEF PresentedIInv

\* The artefact of a jti at a controller is never replaced.
THEOREM DecisionIsFinalCorrect == PresentedSpec => DecisionIsFinal
  <1>1. [PresentedNext]_everyVar => [artefact # NoArtefact => artefact' = artefact]_everyVar
    BY ArtefactStays
  <1> QED
    BY <1>1, PTL DEF PresentedSpec, DecisionIsFinal

-----------------------------------------------------------------------------
(* The promise about the decision *)

\* An expiry in flight is still of rows whose validity is over, also while
\* consents are recorded.
LEMMA ExpiryStep ==
    ASSUME PresentedTypeOK, PresentationSound, ExpiryInFlightJustified,
           [PresentedNext]_everyVar
    PROVE  ExpiryInFlightJustified'
  <1>1. /\ clock \in Nat /\ clock' \in Nat /\ clock <= clock'
        /\ validUntil' = validUntil /\ validUntil \in [Consents -> Nat]
    BY Background DEF PresentedTypeOK, Times
  <1>2. \A c \in Consents : Lapsed(c, clock) => validUntil'[c] < clock'
    BY <1>1 DEF Lapsed
  <1>3. ASSUME NEW p \in Calls
        PROVE  \/ call'[p] = call[p]
               \/ call'[p].phase # "lapsing"
               \/ call'[p].consent \in Consents /\ Lapsed(call'[p].consent, clock)
    <2>1. ASSUME NEW r \in Calls, CallStep(r)
          PROVE  \/ call'[p] = call[p]
                 \/ call'[p].phase # "lapsing"
                 \/ call'[p].consent \in Consents /\ Lapsed(call'[p].consent, clock)
      BY <2>1
      DEF CallStep, RevokeRead, StatusRead, RevokeCommit, StatusCommit, CallDies,
          IdleCall, Expirable, PresentedTypeOK
    <2>2. ASSUME NEW w \in Sweeps, SweepStep(w) PROVE call' = call
      BY <2>2 DEF SweepStep, SweepStart, SweepSelect, SweepCommit, SweepDies
    <2>3. ASSUME NEW q \in Presentations, PresentationStep(q) PROVE call' = call
      BY <2>3, OnlyInsertRecords DEF Insert, Inserts, vars
    <2> QED
      BY <2>1, <2>2, <2>3 DEF PresentedNext, Next, Tick, everyVar, vars
  <1>4. ASSUME NEW w \in Sweeps
        PROVE  \/ sweep'[w] = sweep[w]
               \/ sweep'[w].phase = "idle"
               \/ sweep'[w].phase = "started" /\ sweep'[w].now = clock
               \/ /\ sweep'[w].phase = "selected" /\ sweep[w].phase = "started"
                  /\ \A c \in sweep'[w].rows :
                        c \in Consents /\ Lapsed(c, sweep[w].now)
    <2>1. ASSUME NEW r \in Sweeps, SweepStep(r)
          PROVE  \/ sweep'[w] = sweep[w]
                 \/ sweep'[w].phase = "idle"
                 \/ sweep'[w].phase = "started" /\ sweep'[w].now = clock
                 \/ /\ sweep'[w].phase = "selected" /\ sweep[w].phase = "started"
                    /\ \A c \in sweep'[w].rows :
                          c \in Consents /\ Lapsed(c, sweep[w].now)
      BY <2>1
      DEF SweepStep, SweepStart, SweepSelect, SweepCommit, SweepDies, IdleSweep,
          Expirable, PresentedTypeOK
    <2>2. ASSUME NEW p \in Calls, CallStep(p) PROVE sweep' = sweep
      BY <2>2 DEF CallStep, RevokeRead, StatusRead, RevokeCommit, StatusCommit, CallDies
    <2>3. ASSUME NEW q \in Presentations, PresentationStep(q) PROVE sweep' = sweep
      BY <2>3, OnlyInsertRecords DEF Insert, Inserts, vars
    <2> QED
      BY <2>1, <2>2, <2>3 DEF PresentedNext, Next, Tick, everyVar, vars
  <1>5. ASSUME NEW p \in Calls, call'[p].phase = "lapsing"
        PROVE  validUntil'[call'[p].consent] < clock'
    BY <1>2, <1>3, <1>5, HandlerFields DEF ExpiryInFlightJustified
  <1>6. ASSUME NEW w \in Sweeps
        PROVE  /\ sweep'[w].phase = "started" => sweep'[w].now <= clock'
               /\ sweep'[w].phase = "selected" =>
                    \A c \in sweep'[w].rows : validUntil'[c] < clock'
    <2>1. /\ sweep[w].phase = "started" => sweep[w].now <= clock /\ sweep[w].now \in Nat
          /\ sweep[w].phase = "selected" =>
                \A c \in sweep[w].rows : c \in Consents /\ Lapsed(c, clock)
      BY HandlerFields DEF ExpiryInFlightJustified, Times
    <2>2. CASE sweep'[w] = sweep[w]
      BY <1>1, <1>2, <2>1, <2>2
    <2>3. CASE sweep'[w].phase = "started" /\ sweep'[w].now = clock
      BY <1>1, <2>3
    <2>4. CASE /\ sweep'[w].phase = "selected" /\ sweep[w].phase = "started"
               /\ \A c \in sweep'[w].rows : c \in Consents /\ Lapsed(c, sweep[w].now)
      BY <1>1, <2>1, <2>4 DEF Lapsed
    <2> QED
      BY <1>4, <2>2, <2>3, <2>4
  <1> QED
    BY <1>5, <1>6 DEF ExpiryInFlightJustified, Lapsed

\* An expiry expires no presented consent early, however late it commits.
LEMMA ExpiriesHold == PresentedSpec => []ExpiryInFlightJustified
  <1>1. PresentedInit => ExpiryInFlightJustified
    BY DEF PresentedInit, ExpiryInFlightJustified, IdleCall, IdleSweep
  <1>2. PresentedIInv /\ ExpiryInFlightJustified /\ [PresentedNext]_everyVar
        => ExpiryInFlightJustified'
    BY ExpiryStep DEF PresentedIInv
  <1> QED
    BY <1>1, <1>2, PresentedIInvHolds, PTL DEF PresentedSpec

\* What all the calls have come to, as the promise sees it.
Seen == [q \in Presentations |-> SeenAs(q)]

\* Moving one call moves it alone, as the promise sees it.
LEMMA SeenMoves ==
    ASSUME PresentedTypeOK, NEW q \in Presentations, NEW next, Moves(q, next)
    PROVE  Seen' = [Seen EXCEPT ![q] = SeenAs(q)']
  <1>1. ASSUME NEW r \in Presentations \ {q} PROVE SeenAs(r)' = SeenAs(r)
    BY <1>1, MovesOne DEF SeenAs, Decision
  <1> QED
    BY <1>1 DEF Seen

\* Unless it inserts, a call leaves the decision and its standing alone.
LEMMA DecisionStays ==
    ASSUME UNCHANGED <<vars, artefact>>
    PROVE  UNCHANGED <<clock, validUntil, TheDecision, TheStanding>>
  BY DEF vars, TheDecision, TheStanding, Decision, Standing, Withdrawn

\* A consent that is not withdrawn and is active stands.
LEMMA ActiveStands ==
    ASSUME NEW c \in Consents, ~Withdrawn(c), status[c] = "active"
    PROVE  Standing[c] = "given"
  BY DEF Standing

\* The first permit makes the decision, and the consent it is made of stands.
LEMMA InsertDecides ==
    ASSUME PresentedTypeOK, PresentationSound, NEW q \in Presentations, Insert(q)
    PROVE  Promise!Next
  <1> DEFINE s == presentation[q]
             d == Decision(s.consent, s.effective)
  <1>1. /\ s.phase = "evaluated" /\ artefact = NoArtefact
        /\ artefact' = [of |-> s.consent, effective |-> s.effective, created |-> clock]
        /\ status' = [status EXCEPT ![s.consent] = "active"]
        /\ Moves(q, [phase |-> "recorded", consent |-> s.consent, now |-> s.now,
                     of |-> s.consent, effective |-> s.effective])
        /\ UNCHANGED <<clock, validUntil, revocations>>
    BY DEF Insert, Inserts
  <1>2. /\ s.consent \in Consents /\ s.effective \in SUBSET Scopes
        /\ s.effective \subseteq Says[s.consent].scopes
        /\ s.now <= validUntil[s.consent] /\ clock \in Times
        /\ status[s.consent] = Unrecorded /\ ~Withdrawn(s.consent)
    BY <1>1, PresentationFields
    DEF PresentationSound, CallSound, RecordedSound, PresentedTypeOK
  <1>3. artefact' # NoArtefact
    BY <1>1, <1>2, NoArtefactAssumption DEF Artefact
  <1>4. TheDecision = NoArtefact /\ TheDecision' = d
    BY <1>1, <1>3 DEF TheDecision, Decision
  <1>5. d \in {e \in [of : Consents, effective : SUBSET Scopes] :
                e.effective \subseteq Says[e.of].scopes}
    BY <1>2 DEF Decision
  <1>6. TheStanding' = "given"
    <2>1. status'[s.consent] = "active" /\ revocations'[s.consent] = <<>>
      BY <1>1, <1>2 DEF Withdrawn, PresentedTypeOK
    <2>2. Standing'[s.consent] = "given"
      BY <1>2, <2>1 DEF Standing, Withdrawn
    <2> QED
      BY <1>1, <1>3, <2>2 DEF TheStanding
  <1>7. Seen[q] = [phase |-> "asked", at |-> s.now]
    BY <1>1 DEF Seen, SeenAs
  <1>8. SeenAs(q)' = [phase |-> "permitted", decision |-> d]
    BY <1>1, MovesOne DEF SeenAs, Decision
  <1>9. Seen' = [Seen EXCEPT ![q] = [phase |-> "permitted", decision |-> d]]
    BY <1>1, <1>8, SeenMoves
  <1>10. Promise!Decide(q, d)
    <2>1. d.of = s.consent
      BY DEF Decision
    <2> QED
      BY <1>1, <1>2, <1>4, <1>6, <1>7, <1>9, <2>1
      DEF Promise!Decide, Promise!Moves, Seen
  <1> QED
    BY <1>5, <1>10 DEF Promise!Next

\* An answer from the artefact finds the decision in force, or refuses.
LEMMA StoredAnswerAgrees ==
    ASSUME PresentedTypeOK, PresentationSound, NEW q \in Presentations,
           presentation[q].phase \in {"authorised", "lost"}, artefact # NoArtefact,
           Moves(q, StoredDecision(q)), UNCHANGED <<vars, artefact>>
    PROVE  Promise!Agree(q) \/ Promise!Refuse(q)
  <1> DEFINE s == presentation[q]
             d == Decision(artefact.of, artefact.effective)
  <1>1. Seen[q] = [phase |-> "asked", at |-> s.now]
    BY DEF Seen, SeenAs
  <1>2. UNCHANGED <<clock, validUntil, TheDecision, TheStanding>>
    BY DecisionStays
  <1>3. CASE Permits(s.now)
    <2>1. artefact.of \in Consents /\ status[artefact.of] = "active"
          /\ s.now <= validUntil[artefact.of]
      <3>1. artefact.of \in Consents /\ validUntil[artefact.of] \in Nat
        BY DEF PresentedTypeOK, Artefact, Times
      <3>2. s.now \in Nat
        BY PresentationFields DEF Times
      <3> QED
        BY <1>3, <3>1, <3>2 DEF Permits, Lapsed
    <2>2. TheStanding = "given" /\ TheDecision = d /\ d.of = artefact.of
      BY <2>1, ActiveStands
      DEF PresentationSound, RecordedSound, TheStanding, TheDecision, Decision
    <2>3. SeenAs(q)' = [phase |-> "answered", decision |-> d]
      BY <1>3, MovesOne DEF StoredDecision, SeenAs, Decision
    <2>4. Seen' = [Seen EXCEPT ![q] = [phase |-> "answered", decision |-> d]]
      BY <2>3, SeenMoves
    <2>5. Promise!Agree(q)
      BY <1>1, <1>2, <2>1, <2>2, <2>4 DEF Promise!Agree, Promise!Moves, Seen
    <2> QED
      BY <2>5
  <1>4. CASE ~Permits(s.now)
    <2>1. SeenAs(q)' = [phase |-> "refused"]
      BY <1>4, MovesOne DEF StoredDecision, Denied, SeenAs
    <2>2. Seen' = [Seen EXCEPT ![q] = [phase |-> "refused"]]
      BY <2>1, SeenMoves
    <2>3. Promise!Refuse(q)
      BY <1>1, <1>2, <2>2 DEF Promise!Refuse, Promise!Moves, Seen
    <2> QED
      BY <2>3
  <1> QED
    BY <1>3, <1>4

\* Every step of a call is one of the promise, or is not seen.
LEMMA CallKeepsPromise ==
    ASSUME PresentedTypeOK, PresentationSound, NEW q \in Presentations,
           PresentationStep(q)
    PROVE  Promise!Next \/ UNCHANGED Promise!vars
  <1> DEFINE s == presentation[q]
  <1>1. CASE Insert(q)
    BY <1>1, InsertDecides
  <1>2. CASE ~Insert(q)
    <2>0. UNCHANGED <<vars, artefact>>
          /\ UNCHANGED <<clock, validUntil, TheDecision, TheStanding>>
      BY <1>2, OnlyInsertRecords, DecisionStays
    <2>1. ASSUME NEW c \in Consents, Present(q, c) PROVE Promise!Ask(q)
      <3>1. SeenAs(q)' = [phase |-> "asked", at |-> clock]
            /\ Seen[q] = [phase |-> "new"]
        BY <2>1, MovesOne DEF Present, SeenAs, Seen
      <3>2. Seen' = [Seen EXCEPT ![q] = [phase |-> "asked", at |-> clock]]
        BY <2>1, <3>1, SeenMoves DEF Present
      <3> QED
        BY <2>0, <3>1, <3>2 DEF Promise!Ask, Promise!Moves, Seen
    <2>2. CASE ReadPolicy(q) \/ Evaluate(q) \/ InsertFails(q)
      <3>1. PICK next : Moves(q, next)
                        /\ next.phase \in {"authorised", "evaluated", "lost"}
                        /\ next.now = s.now
        <4>1. CASE ReadPolicy(q)
          BY <4>1 DEF ReadPolicy
        <4>2. CASE Evaluate(q)
          BY <4>2 DEF Evaluate
        <4>3. CASE InsertFails(q)
          BY <4>3 DEF InsertFails
        <4> QED
          BY <2>2, <4>1, <4>2, <4>3
      <3>2. SeenAs(q)' = SeenAs(q)
        BY <2>2, <3>1, MovesOne DEF SeenAs, ReadPolicy, Evaluate, InsertFails
      <3>3. Seen' = Seen
        BY <3>1, <3>2, SeenMoves DEF Seen
      <3> QED
        BY <2>0, <3>3 DEF Promise!vars, Seen
    <2>3. CASE Deny(q)
      <3>1. SeenAs(q)' = [phase |-> "refused"] /\ Seen[q].phase = "asked"
        BY <2>3, MovesOne DEF Deny, Denied, SeenAs, Seen
      <3>2. Seen' = [Seen EXCEPT ![q] = [phase |-> "refused"]]
        BY <2>3, <3>1, SeenMoves DEF Deny
      <3>3. Promise!Refuse(q)
        BY <2>0, <3>1, <3>2 DEF Promise!Refuse, Promise!Moves, Seen
      <3> QED
        BY <3>3 DEF Promise!Next
    <2>4. CASE AnswerStored(q) \/ AnswerWinner(q)
      <3>1. artefact # NoArtefact
        BY <2>4 DEF AnswerStored, AnswerWinner, PresentationSound, CallSound
      <3>2. Promise!Agree(q) \/ Promise!Refuse(q)
        BY <2>0, <2>4, <3>1, StoredAnswerAgrees DEF AnswerStored, AnswerWinner
      <3> QED
        BY <3>2 DEF Promise!Next
    <2>5. CASE AnswerRecorded(q)
      <3>1. SeenAs(q)' = [phase |-> "answered", decision |-> Decision(s.of, s.effective)]
            /\ Seen[q].phase = "permitted"
            /\ Seen[q].decision = Decision(s.of, s.effective)
        BY <2>5, MovesOne DEF AnswerRecorded, SeenAs, Seen, Decision
      <3>2. Seen' = [Seen EXCEPT ![q] =
                        [phase |-> "answered", decision |-> Decision(s.of, s.effective)]]
        BY <2>5, <3>1, SeenMoves DEF AnswerRecorded
      <3>3. Promise!Tell(q)
        BY <2>0, <3>1, <3>2 DEF Promise!Tell, Promise!Moves, Seen
      <3> QED
        BY <3>3 DEF Promise!Next
    <2>6. CASE PresentationDies(q)
      <3>1. s.phase \in {"presented", "authorised", "evaluated", "lost", "recorded"}
        BY <2>6 DEF PresentationDies, PresentedTypeOK, PresentationState
      <3>2. SeenAs(q)' = [phase |-> "failed"]
            /\ Seen[q].phase \in {"asked", "permitted"}
        BY <2>6, <3>1, MovesOne DEF PresentationDies, SeenAs, Seen
      <3>3. Seen' = [Seen EXCEPT ![q] = [phase |-> "failed"]]
        BY <2>6, <3>2, SeenMoves DEF PresentationDies
      <3>4. Promise!Fail(q)
        BY <2>0, <3>2, <3>3 DEF Promise!Fail, Promise!Moves, Seen
      <3> QED
        BY <3>4 DEF Promise!Next
    <2> QED
      BY <1>2, <2>1, <2>2, <2>3, <2>4, <2>5, <2>6 DEF PresentationStep, Promise!Next
  <1> QED
    BY <1>1, <1>2

\* What the standing of a consent is, case by case.
LEMMA StandingCases ==
    ASSUME NEW c \in Consents
    PROVE  /\ Withdrawn(c) => Standing[c] = "withdrawn"
           /\ ~Withdrawn(c) /\ status[c] = "expired" => Standing[c] = "lapsed"
           /\ ~Withdrawn(c) /\ status[c] # "expired" => Standing[c] = "given"
  BY DEF Standing

LEMMA StandingCasesNext ==
    ASSUME NEW c \in Consents
    PROVE  /\ revocations'[c] # <<>> => Standing'[c] = "withdrawn"
           /\ revocations'[c] = <<>> /\ status'[c] = "expired" => Standing'[c] = "lapsed"
           /\ revocations'[c] = <<>> /\ status'[c] # "expired" => Standing'[c] = "given"
  BY DEF Standing, Withdrawn

\* A revocation withdraws the decision when it is of the consent it was made of.
LEMMA RevocationOfDecision ==
    ASSUME PresentedTypeOK, artefact # NoArtefact, UNCHANGED presentedVars,
           NEW p \in Calls, RevokeCommit(p)
    PROVE  Promise!Withdraw \/ UNCHANGED Promise!vars
  <1> DEFINE a == artefact.of
  <1>1. a \in Consents /\ artefact' = artefact
        /\ call[p].consent \in Consents
        /\ revocations[a] \in Seq(Times) /\ clock \in Times
    BY HandlerFields DEF PresentedTypeOK, Artefact, presentedVars, RevokeCommit
  <1>2. /\ UNCHANGED <<clock, validUntil, TheDecision>> /\ Seen' = Seen
        /\ TheStanding = Standing[a] /\ TheStanding' = Standing'[a]
    BY <1>1
    DEF RevokeCommit, presentedVars, TheDecision, TheStanding, Decision, Seen, SeenAs
  <1>3. CASE call[p].consent = a
    <2>1. revocations'[a] = Append(revocations[a], clock)
      BY <1>1, <1>3 DEF RevokeCommit, PresentedTypeOK
    <2>2. revocations'[a] # <<>>
      BY <1>1, <2>1, AppendProperties
    <2>3. TheStanding' = "withdrawn"
      BY <1>1, <1>2, <2>2, StandingCasesNext
    <2>4. TheStanding \in {"given", "lapsed", "withdrawn"}
      BY <1>1, <1>2, StandingCases
    <2> QED
      BY <1>2, <2>3, <2>4 DEF Promise!Withdraw, Promise!vars, Seen
  <1>4. CASE call[p].consent # a
    <2>1. revocations'[a] = revocations[a] /\ status'[a] = status[a]
      BY <1>1, <1>4 DEF RevokeCommit, PresentedTypeOK
    <2>2. TheStanding' = TheStanding
      BY <1>1, <1>2, <2>1 DEF Standing, Withdrawn
    <2> QED
      BY <1>2, <2>2 DEF Promise!vars, Seen
  <1> QED
    BY <1>3, <1>4

\* An expiry makes the decision lapse when its consent is among the rows.
LEMMA ExpiryOfDecision ==
    ASSUME PresentedTypeOK, ExpiryInFlightJustified, artefact # NoArtefact,
           UNCHANGED presentedVars,
           \/ \E p \in Calls : StatusCommit(p)
           \/ \E w \in Sweeps : SweepCommit(w)
    PROVE  Promise!Lapse \/ UNCHANGED Promise!vars
  <1> DEFINE a == artefact.of
  <1>1. a \in Consents /\ artefact' = artefact
    BY DEF PresentedTypeOK, Artefact, presentedVars
  <1>2. UNCHANGED <<clock, validUntil, revocations>>
    BY DEF StatusCommit, SweepCommit
  <1>3. /\ UNCHANGED <<clock, validUntil, TheDecision>> /\ Seen' = Seen
        /\ TheStanding = Standing[a] /\ TheStanding' = Standing'[a]
        /\ TheDecision.of = a
    BY <1>1, <1>2
    DEF presentedVars, TheDecision, TheStanding, Decision, Seen, SeenAs
  <1>4. status'[a] = status[a] \/ (status'[a] = "expired" /\ Lapsed(a, clock))
    BY <1>1 DEF StatusCommit, SweepCommit, PresentedTypeOK, ExpiryInFlightJustified
  <1>5. CASE Standing'[a] = Standing[a]
    BY <1>3, <1>5 DEF Promise!vars, Seen
  <1>6. CASE Standing'[a] # Standing[a]
    <2>1. /\ Standing[a] = "given" /\ Standing'[a] = "lapsed"
          /\ Lapsed(a, clock)
      BY <1>1, <1>2, <1>4, <1>6, StandingCases, StandingCasesNext DEF Withdrawn
    <2> QED
      BY <1>3, <2>1 DEF Promise!Lapse, Lapsed, Seen
  <1> QED
    BY <1>5, <1>6

\* The writers of the status column keep the promise too.
LEMMA HandlersKeepPromise ==
    ASSUME PresentedTypeOK, ExpiryInFlightJustified, Next, UNCHANGED presentedVars
    PROVE  Promise!Next \/ UNCHANGED Promise!vars
  <1>1. UNCHANGED <<artefact, TheDecision>> /\ Seen' = Seen
    BY DEF presentedVars, TheDecision, Decision, Seen, SeenAs
  <1>2. CASE Tick
    <2>1. UNCHANGED TheStanding
      BY <1>1, <1>2 DEF Tick, TheStanding, Standing, Withdrawn
    <2>2. Promise!Tick
      BY <1>1, <1>2, <2>1 DEF Tick, Promise!Tick, Seen
    <2> QED
      BY <2>2 DEF Promise!Next
  <1>3. CASE ~Tick
    <2>1. UNCHANGED <<clock, validUntil>>
      BY <1>3
      DEF Next, CallStep, SweepStep, RevokeRead, StatusRead, RevokeCommit,
          StatusCommit, CallDies, SweepStart, SweepSelect, SweepCommit, SweepDies
    <2>2. CASE artefact = NoArtefact
      BY <1>1, <2>1, <2>2 DEF TheStanding, Promise!vars, Seen
    <2>3. CASE artefact # NoArtefact
      <3>1. ASSUME NEW p \in Calls, RevokeCommit(p)
            PROVE  Promise!Withdraw \/ UNCHANGED Promise!vars
        BY <2>3, <3>1, RevocationOfDecision
      <3>2. CASE \/ \E p \in Calls : StatusCommit(p)
                 \/ \E w \in Sweeps : SweepCommit(w)
        BY <2>3, <3>2, ExpiryOfDecision DEF Promise!Next
      <3>3. CASE UNCHANGED <<status, revocations>>
        BY <1>1, <2>1, <3>3 DEF TheStanding, Standing, Withdrawn, Promise!vars, Seen
      <3> QED
        BY <1>3, <3>1, <3>2, <3>3
        DEF Next, CallStep, SweepStep, RevokeRead, StatusRead, CallDies, SweepStart,
            SweepSelect, SweepDies, Promise!Next
    <2> QED
      BY <2>2, <2>3
  <1> QED
    BY <1>2, <1>3

\* However calls race to look for, insert and answer from the artefact, while it
\* is revoked and expires, they make and are told one decision, each permit at
\* a moment at which the consent stood: the calls are linearizable.
THEOREM ImplementsDecision == PresentedSpec => DecisionRefined
  <1>1. PresentedInit => Promise!Init
    BY DEF PresentedInit, Promise!Init, TheDecision, TheStanding, SeenAs
  <1>2. PresentedIInv /\ ExpiryInFlightJustified /\ [PresentedNext]_everyVar
        => [Promise!Next]_Promise!vars
    <2> SUFFICES ASSUME PresentedIInv, ExpiryInFlightJustified,
                        [PresentedNext]_everyVar
                 PROVE  Promise!Next \/ UNCHANGED Promise!vars
      OBVIOUS
    <2>1. PresentedTypeOK /\ PresentationSound
      BY DEF PresentedIInv
    <2>2. CASE UNCHANGED everyVar
      BY <2>2
      DEF everyVar, vars, presentedVars, Promise!vars, TheDecision, TheStanding,
          Decision, Standing, Withdrawn, SeenAs
    <2>3. CASE Next /\ UNCHANGED presentedVars
      BY <2>1, <2>3, HandlersKeepPromise
    <2>4. ASSUME NEW q \in Presentations, PresentationStep(q)
          PROVE  Promise!Next \/ UNCHANGED Promise!vars
      BY <2>1, <2>4, CallKeepsPromise
    <2> QED
      BY <2>2, <2>3, <2>4 DEF PresentedNext
  <1> QED
    BY <1>1, <1>2, PresentedIInvHolds, ExpiriesHold, PTL
    DEF PresentedSpec, DecisionRefined, Promise!Spec
=============================================================================
