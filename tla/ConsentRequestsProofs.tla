------------------------ MODULE ConsentRequestsProofs ------------------------
(* Theorems of ConsentRequests, for every value of the constants. *)
EXTENDS ConsentRequests, FiniteSetTheorems, SequenceTheorems, TLAPS

-----------------------------------------------------------------------------
(* Type correctness *)

\* No operation is of two kinds.
LEMMA OpsDisjoint ==
    /\ "idle" \notin PlainOps \cup LockedOps \cup FileOps \cup LoginOps
    /\ (PlainOps \cup LockedOps) \cap (FileOps \cup LoginOps) = {}
    /\ FileOps \cap LoginOps = {}
  BY DEF PlainOps, LockedOps, FileOps, LoginOps

\* The fields that a call's operation says it has.
LEMMA CallFields ==
    ASSUME NEW c \in RequestCall
    PROVE  /\ c.op \in FileOps => c.file \in Files
           /\ c.op \in LoginOps => c.login \in Logins
  <1>1. CASE c = Idle
    <2>1. c.op = "idle"
      BY <1>1 DEF Idle
    <2> QED
      BY <2>1, OpsDisjoint
  <1>2. CASE c \in [op : PlainOps \cup LockedOps]
    <2>1. c.op \in PlainOps \cup LockedOps
      BY <1>2
    <2> QED
      BY <2>1, OpsDisjoint
  <1>3. CASE c \in [op : FileOps, file : Files]
    <2>1. c.op \in FileOps /\ c.file \in Files
      BY <1>3
    <2> QED
      BY <2>1, OpsDisjoint
  <1>4. CASE c \in [op : LoginOps, login : Logins]
    <2>1. c.op \in LoginOps /\ c.login \in Logins
      BY <1>4
    <2> QED
      BY <2>1, OpsDisjoint
  <1> QED
    BY <1>1, <1>2, <1>3, <1>4 DEF RequestCall

\* A call moves without disturbing the others.
LEMMA BecomesCall ==
    ASSUME call \in [Calls -> RequestCall], NEW p \in Calls,
           NEW next \in RequestCall, Becomes(p, next)
    PROVE  /\ call' \in [Calls -> RequestCall]
           /\ call'[p] = next
           /\ \A q \in Calls : q # p => call'[q] = call[q]
  <1>1. call' = [call EXCEPT ![p] = next]
    BY DEF Becomes
  <1> QED
    BY <1>1

LEMMA Moves ==
    ASSUME RequestTypeOK, NEW p \in Calls, NEW next, Becomes(p, next)
    PROVE  \A q \in Calls : call'[q] = IF q = p THEN next ELSE call[q]
  <1>1. call \in [Calls -> RequestCall] /\ call' = [call EXCEPT ![p] = next]
    BY DEF RequestTypeOK, Becomes
  <1> QED
    BY <1>1

LEMMA TypeInit == RequestInit => RequestTypeOK
  <1> SUFFICES ASSUME RequestInit PROVE RequestTypeOK
    OBVIOUS
  <1>1. artefacts \in Seq(Artefact)
    BY EmptySeq DEF RequestInit
  <1>2. call \in [Calls -> RequestCall]
    BY DEF RequestInit, RequestCall
  <1>3. login \in [Logins -> LoginStatus]
    BY DEF RequestInit, LoginStatus
  <1> QED
    BY <1>1, <1>2, <1>3 DEF RequestInit, RequestTypeOK, RequestStatus

LEMMA IdleCallTyped == Idle \in RequestCall
  BY DEF RequestCall

\* A login step records a login state and moves its call.
LEMMA LoginStepType ==
    ASSUME RequestTypeOK, NEW p \in Calls, LoginStep(p)
    PROVE  RequestTypeOK'
  <1>1. call[p] \in RequestCall
    BY DEF RequestTypeOK
  <1> USE DEF RequestTypeOK
  <1>2. ASSUME NEW l \in Logins, StartRead(p, l)
        PROVE  RequestTypeOK'
    <2>1. [op |-> "starting", login |-> l] \in RequestCall
      BY DEF RequestCall, LoginOps
    <2> QED
      BY <1>2, <2>1, BecomesCall DEF StartRead, requestVars, evidenceVars, loginVars
  <1>3. ASSUME NEW l \in Logins, Claim(p, l)
        PROVE  RequestTypeOK'
    <2>1. [op |-> "claimed", login |-> l] \in RequestCall
      BY DEF RequestCall, LoginOps
    <2> QED
      BY <1>3, <2>1, BecomesCall DEF Claim, requestVars, evidenceVars, LoginStatus
  <1>4. CASE OpenRead(p)
    <2>1. [op |-> "verifying", login |-> call[p].login] \in RequestCall
      BY <1>1, <1>4, CallFields DEF OpenRead, RequestCall, LoginOps
    <2> QED
      BY <1>4, <2>1, BecomesCall DEF OpenRead, requestVars, evidenceVars, loginVars
  <1>5. CASE StartCommit(p) \/ LoginSucceeds(p) \/ LoginFails(p)
    BY <1>5, IdleCallTyped, BecomesCall
    DEF StartCommit, LoginSucceeds, LoginFails, requestVars, evidenceVars, LoginStatus
  <1> QED
    BY <1>2, <1>3, <1>4, <1>5 DEF LoginStep

\* A lifecycle or assisted step writes a status, and may append an artefact.
LEMMA DecisionStepType ==
    ASSUME RequestTypeOK, NEW p \in Calls,
           LifecycleStep(p) \/ AssistedStep(p) \/ Ends(p)
    PROVE  RequestTypeOK'
  <1> USE DEF RequestTypeOK
  <1>1. ASSUME NEW op \in PlainOps \cup LockedOps, PlainRead(p, op) \/ LockedRead(p, op)
        PROVE  RequestTypeOK'
    <2>1. [op |-> op] \in RequestCall
      BY DEF RequestCall
    <2> QED
      BY <1>1, <2>1, BecomesCall
      DEF PlainRead, LockedRead, Locks, requestVars, evidenceVars, loginVars
  <1>2. CASE AuthenticateCommit(p) \/ DenyCommit(p) \/ Ends(p)
    BY <1>2, IdleCallTyped, BecomesCall
    DEF AuthenticateCommit, DenyCommit, Ends, Unlocks, requestVars, evidenceVars,
        loginVars, RequestStatus
  <1>3. CASE \/ Submit(p) \/ Close(p, "cancel", "cancelled")
             \/ Close(p, "reject", "rejected")
    BY <1>3, IdleCallTyped, BecomesCall
    DEF Submit, Close, Unlocks, evidenceVars, loginVars, RequestStatus
  <1>4. CASE SubjectApproveCommit(p)
    <2>1. [by |-> "subject", evidence |-> {}, login |-> FALSE] \in Artefact
      BY DEF Artefact
    <2>2. artefacts' \in Seq(Artefact)
      BY <1>4, <2>1, AppendProperties DEF SubjectApproveCommit
    <2> QED
      BY <1>4, <2>2, IdleCallTyped, BecomesCall
      DEF SubjectApproveCommit, evidenceVars, loginVars, RequestStatus
  <1>5. CASE StaffApprove(p)
    <2>1. [by |-> "staff", evidence |-> Kinds, login |-> LoggedIn] \in Artefact
      BY DEF Artefact, Kinds, Kind, LoggedIn
    <2>2. artefacts' \in Seq(Artefact)
      BY <1>5, <2>1, AppendProperties DEF StaffApprove
    <2> QED
      BY <1>5, <2>2, IdleCallTyped, BecomesCall
      DEF StaffApprove, Unlocks, evidenceVars, loginVars, RequestStatus
  <1> QED
    BY <1>1, <1>2, <1>3, <1>4, <1>5 DEF LifecycleStep, AssistedStep

\* An evidence step moves one file between the sets, and its call on.
LEMMA EvidenceStepType ==
    ASSUME RequestTypeOK, NEW p \in Calls, EvidenceStep(p)
    PROVE  RequestTypeOK'
  <1>1. call[p] \in RequestCall
    BY DEF RequestTypeOK
  <1> USE DEF RequestTypeOK
  <1>2. ASSUME NEW f \in Files, NEW op \in FileOps
        PROVE  [op |-> op, file |-> f] \in RequestCall
    BY DEF RequestCall
  <1>3. ASSUME NEW f \in Files, UploadRead(p, f) \/ DeleteLock(p, f)
        PROVE  RequestTypeOK'
    BY <1>2, <1>3, BecomesCall
    DEF UploadRead, DeleteLock, Locks, requestVars, evidenceVars, loginVars, FileOps
  <1>4. ASSUME call[p].op \in FileOps, NEW op \in FileOps
        PROVE  /\ call[p].file \in Files
               /\ [op |-> op, file |-> call[p].file] \in RequestCall
    BY <1>1, <1>2, <1>4, CallFields
  <1>5. CASE UploadPut(p) \/ UploadLock(p) \/ UploadCommit(p)
    BY <1>4, <1>5, BecomesCall
    DEF UploadPut, UploadLock, UploadCommit, Locks, Unlocks, requestVars,
        evidenceVars, loginVars, FileOps
  <1>6. CASE UploadFails(p) \/ DeleteCommit(p)
    BY <1>4, <1>6, BecomesCall
    DEF UploadFails, DeleteCommit, Unlocks, requestVars, evidenceVars, loginVars, FileOps
  <1>7. CASE UploadAnswer(p) \/ Discard(p)
    BY <1>4, <1>7, IdleCallTyped, BecomesCall
    DEF UploadAnswer, Discard, requestVars, evidenceVars, loginVars, FileOps
  <1> QED
    BY <1>3, <1>5, <1>6, <1>7 DEF EvidenceStep

LEMMA TypeStep == RequestTypeOK /\ [RequestNext]_reqVars => RequestTypeOK'
  <1> SUFFICES ASSUME RequestTypeOK, [RequestNext]_reqVars PROVE RequestTypeOK'
    OBVIOUS
  <1>1. CASE UNCHANGED reqVars
    BY <1>1 DEF reqVars, requestVars, evidenceVars, loginVars, RequestTypeOK
  <1>2. ASSUME NEW l \in Logins, LoginExpires(l) PROVE RequestTypeOK'
    BY <1>2 DEF LoginExpires, requestVars, evidenceVars, RequestTypeOK
  <1> QED
    BY <1>1, <1>2, LoginStepType, DecisionStepType, EvidenceStepType DEF RequestNext

\* Every reachable state is of its type, for any calls, files and logins.
THEOREM RequestTypeCorrect == RequestSpec => []RequestTypeOK
  BY TypeInit, TypeStep, PTL DEF RequestSpec

-----------------------------------------------------------------------------
(* Logins *)

\* Steps of the other handlers leave the logins and the login calls alone.
LEMMA OthersLeaveLogins ==
    ASSUME RequestTypeOK, NEW p \in Calls,
           LifecycleStep(p) \/ AssistedStep(p) \/ EvidenceStep(p) \/ Ends(p)
    PROVE  /\ login' = login
           /\ \A q \in Calls : call'[q] = call[q] \/ call'[q].op \notin LoginOps
  <1> DEFINE Left == /\ login' = login
                     /\ \A q \in Calls : call'[q] = call[q] \/ call'[q].op \notin LoginOps
  <1>0. /\ Idle.op \notin LoginOps
        /\ \A op \in PlainOps \cup LockedOps : [op |-> op].op \notin LoginOps
        /\ \A op \in FileOps : \A f : [op |-> op, file |-> f].op \notin LoginOps
    BY OpsDisjoint DEF Idle, LoginOps
  <1>1. CASE LifecycleStep(p)
    <2>1. login' = login
      BY <1>1 DEF LifecycleStep, PlainRead, AuthenticateCommit,
                  SubjectApproveCommit, DenyCommit, loginVars
    <2>2. \E next : Becomes(p, next) /\ next \in {Idle} \cup {[op |-> op] : op \in PlainOps}
      BY <1>1 DEF LifecycleStep, PlainRead, AuthenticateCommit,
                  SubjectApproveCommit, DenyCommit
    <2> QED
      BY <1>0, <2>1, <2>2, Moves
  <1>2. CASE AssistedStep(p)
    <2>1. login' = login
      BY <1>2 DEF AssistedStep, LockedRead, Submit, Close, StaffApprove, loginVars
    <2>2. \E next : Becomes(p, next) /\ next \in {Idle} \cup {[op |-> op] : op \in LockedOps}
      BY <1>2 DEF AssistedStep, LockedRead, Submit, Close, StaffApprove
    <2> QED
      BY <1>0, <2>1, <2>2, Moves
  <1>3. CASE EvidenceStep(p)
    <2>1. login' = login
      BY <1>3 DEF EvidenceStep, UploadRead, UploadPut, UploadLock, UploadCommit,
                  UploadAnswer, UploadFails, DeleteLock, DeleteCommit, Discard, loginVars
    <2>2. \/ Becomes(p, Idle)
          \/ \E op \in FileOps : \E f : Becomes(p, [op |-> op, file |-> f])
      BY <1>3 DEF EvidenceStep, UploadRead, UploadPut, UploadLock, UploadCommit,
                  UploadAnswer, UploadFails, DeleteLock, DeleteCommit, Discard, FileOps
    <2>3. CASE Becomes(p, Idle)
      BY <1>0, <2>1, <2>3, Moves
    <2>4. ASSUME NEW op \in FileOps, NEW f, Becomes(p, [op |-> op, file |-> f])
          PROVE  Left
      BY <1>0, <2>1, <2>4, Moves
    <2> QED
      BY <2>2, <2>3, <2>4
  <1>4. CASE Ends(p)
    BY <1>4, Moves DEF Ends, LoginOps, Idle, loginVars
  <1> QED
    BY <1>1, <1>2, <1>3, <1>4

LEMMA LoginsInit == RequestInit => LoginsInHand /\ OneCallbackPerLogin
  BY DEF RequestInit, LoginsInHand, OneCallbackPerLogin, Idle

LEMMA LoginsStep ==
    RequestTypeOK /\ LoginsInHand /\ OneCallbackPerLogin /\ [RequestNext]_reqVars
        => LoginsInHand' /\ OneCallbackPerLogin'
  <1> SUFFICES ASSUME RequestTypeOK, LoginsInHand, OneCallbackPerLogin,
                      [RequestNext]_reqVars
               PROVE  LoginsInHand' /\ OneCallbackPerLogin'
    OBVIOUS
  <1>1. CASE UNCHANGED reqVars
    BY <1>1 DEF reqVars, loginVars, LoginsInHand, OneCallbackPerLogin
  <1>2. ASSUME NEW l \in Logins, LoginExpires(l)
        PROVE  LoginsInHand' /\ OneCallbackPerLogin'
    BY <1>2 DEF LoginExpires, LoginsInHand, OneCallbackPerLogin
  <1>3. ASSUME NEW p \in Calls,
               LifecycleStep(p) \/ AssistedStep(p) \/ EvidenceStep(p) \/ Ends(p)
        PROVE  LoginsInHand' /\ OneCallbackPerLogin'
    BY <1>3, OthersLeaveLogins DEF LoginsInHand, OneCallbackPerLogin, LoginOps
  <1>4. ASSUME NEW p \in Calls, LoginStep(p)
        PROVE  LoginsInHand' /\ OneCallbackPerLogin'
    <2>0. login \in [Logins -> LoginStatus]
      BY DEF RequestTypeOK
    <2> USE DEF LoginsInHand, OneCallbackPerLogin
    <2>1. ASSUME NEW l \in Logins, StartRead(p, l)
          PROVE  LoginsInHand' /\ OneCallbackPerLogin'
      BY <2>1, Moves DEF StartRead, loginVars
    <2>2. ASSUME NEW l \in Logins, Claim(p, l)
          PROVE  LoginsInHand' /\ OneCallbackPerLogin'
      BY <2>0, <2>2, Moves DEF Claim
    <2>3. CASE OpenRead(p)
      BY <2>3, Moves DEF OpenRead, loginVars
    <2>4. CASE StartCommit(p)
      BY <2>0, <2>4, Moves DEF StartCommit, Idle
    <2>5. CASE LoginSucceeds(p) \/ LoginFails(p)
      <3>1. /\ call[p].op \in {"claimed", "verifying"}
            /\ \A q \in Calls : call'[q] = IF q = p THEN Idle ELSE call[q]
            /\ \A l \in Logins : l # call[p].login => login'[l] = login[l]
        BY <2>0, <2>5, Moves DEF LoginSucceeds, LoginFails
      <3>2. \A q \in Calls : call[q].op \in LoginOps => call[q].login \in Logins
        BY CallFields DEF RequestTypeOK
      <3>3. \A q \in Calls : q # p /\ call[q].op \in LoginOps =>
                call[q].login # call[p].login
        BY <3>1 DEF LoginOps
      <3> QED
        BY <3>1, <3>2, <3>3 DEF Idle, LoginOps
    <2> QED
      BY <1>4, <2>1, <2>2, <2>3, <2>4, <2>5 DEF LoginStep
  <1> QED
    BY <1>1, <1>2, <1>3, <1>4 DEF RequestNext

-----------------------------------------------------------------------------
(* The row lock, the status, and the number of files *)

\* What the lock and the status it protects give every call.
StatusInv ==
    /\ LockInHand
    /\ request = "pending" => ~submitted
    /\ request = "pending_verification" => submitted
    /\ NoConsentUnlessDecided
    /\ IsFiniteSet(files)
    /\ FilesWithinLimit

\* The stages at which a call holds the lock.
Held == LockedOps \cup {"recording", "deleting"}

LEMMA StatusInit == RequestInit => StatusInv
  <1> SUFFICES ASSUME RequestInit PROVE StatusInv
    OBVIOUS
  <1>1. \A q \in Calls : call[q].op = "idle"
    BY DEF RequestInit, Idle
  <1>2. LockInHand
    BY <1>1 DEF LockInHand, LockedOps
  <1>3. IsFiniteSet(files) /\ Cardinality(files) <= MaxFiles
    <2>1. IsFiniteSet(files) /\ Cardinality(files) = 0
      BY FS_EmptySet DEF RequestInit
    <2> QED
      BY <2>1, RequestAssumption
  <1> QED
    BY <1>2, <1>3 DEF RequestInit, StatusInv, NoConsentUnlessDecided, FilesWithinLimit

\* A call that may write the request is the only one that can hold its lock.
LEMMA OneHolder ==
    ASSUME LockInHand, NEW p \in Calls, lock \in {p, Nobody}
    PROVE  \A q \in Calls : q # p => call[q].op \notin Held
  BY RequestAssumption DEF LockInHand, Held

LEMMA HolderHasLock ==
    ASSUME LockInHand, NEW p \in Calls, call[p].op \in Held
    PROVE  lock = p
  BY DEF LockInHand, Held

\* Steps that write none of it, and neither take a lock nor free another's.
LEMMA StatusFrame ==
    ASSUME StatusInv, UNCHANGED <<request, submitted, artefacts, files>>,
           \A q \in Calls : \/ call'[q].op \notin Held
                            \/ call'[q] = call[q] /\ (lock = q => lock' = q)
    PROVE  StatusInv'
  <1>1. LockInHand'
    BY DEF StatusInv, LockInHand, Held
  <1> QED
    BY <1>1 DEF StatusInv, NoConsentUnlessDecided, FilesWithinLimit

\* Steps that write the status while no other call can rely on it.
LEMMA StatusWrite ==
    ASSUME StatusInv, UNCHANGED files, NEW p \in Calls, lock \in {p, Nobody},
           call'[p].op \notin Held,
           \A q \in Calls : q # p => call'[q] = call[q],
           request' = "pending" => ~submitted',
           request' = "pending_verification" => submitted',
           NoConsentUnlessDecided'
    PROVE  StatusInv'
  <1>1. \A q \in Calls : call'[q].op \notin Held
    BY OneHolder DEF StatusInv
  <1>2. LockInHand'
    BY <1>1 DEF LockInHand, Held
  <1> QED
    BY <1>2 DEF StatusInv, FilesWithinLimit

\* Taking the lock.
LEMMA StatusLock ==
    ASSUME StatusInv, NEW p \in Calls, Locks(p),
           UNCHANGED <<request, submitted, artefacts, files>>,
           \A q \in Calls : q # p => call'[q] = call[q],
           call'[p].op \in LockedOps => request \in Accepts(call'[p].op),
           call'[p].op \in {"recording", "deleting"} => request = "pending",
           call'[p].op = "recording" => Cardinality(files) < MaxFiles
    PROVE  StatusInv'
  <1>1. \A q \in Calls : q # p => call'[q].op \notin Held
    BY OneHolder DEF StatusInv, Locks
  <1>2. LockInHand'
    BY <1>1 DEF LockInHand, Held, Locks, Accepts
  <1> QED
    BY <1>2 DEF StatusInv, NoConsentUnlessDecided, FilesWithinLimit

LEMMA StatusLoginStep ==
    ASSUME RequestTypeOK, StatusInv, NEW p \in Calls, LoginStep(p)
    PROVE  StatusInv'
  <1>1. UNCHANGED <<request, submitted, artefacts, files, lock>>
    BY DEF LoginStep, StartRead, Claim, StartCommit, OpenRead, LoginSucceeds,
           LoginFails, requestVars, evidenceVars
  <1>2. \/ Becomes(p, Idle)
        \/ \E op \in LoginOps : \E l : Becomes(p, [op |-> op, login |-> l])
    BY DEF LoginStep, StartRead, Claim, StartCommit, OpenRead, LoginSucceeds,
           LoginFails, LoginOps
  <1>3. /\ Idle.op \notin Held
        /\ \A op \in LoginOps : \A l : [op |-> op, login |-> l].op \notin Held
    BY DEF Idle, LoginOps, Held, LockedOps
  <1>4. CASE Becomes(p, Idle)
    BY <1>1, <1>3, <1>4, Moves, StatusFrame
  <1>5. ASSUME NEW op \in LoginOps, NEW l, Becomes(p, [op |-> op, login |-> l])
        PROVE  StatusInv'
    BY <1>1, <1>3, <1>5, Moves, StatusFrame
  <1> QED
    BY <1>2, <1>4, <1>5

LEMMA StatusLifecycleStep ==
    ASSUME RequestTypeOK, StatusInv, NEW p \in Calls, LifecycleStep(p)
    PROVE  StatusInv'
  <1>1. ASSUME NEW op \in PlainOps, PlainRead(p, op)
        PROVE  StatusInv'
    <2>1. [op |-> op].op \notin Held
      BY DEF PlainOps, Held, LockedOps
    <2> QED
      BY <1>1, <2>1, Moves, StatusFrame DEF PlainRead, requestVars, evidenceVars
  <1>2. Idle.op \notin Held
    BY DEF Idle, Held, LockedOps
  <1>3. CASE AuthenticateCommit(p)
    BY <1>2, <1>3, Moves, StatusFrame DEF AuthenticateCommit, requestVars, evidenceVars
  <1>4. CASE SubjectApproveCommit(p)
    <2>1. NoConsentUnlessDecided'
      BY <1>4 DEF SubjectApproveCommit, NoConsentUnlessDecided
    <2>2. /\ UNCHANGED files /\ lock \in {p, Nobody}
          /\ request' = "approved" /\ Becomes(p, Idle)
      BY <1>4 DEF SubjectApproveCommit, MayWrite, evidenceVars
    <2> QED
      BY <1>2, <2>1, <2>2, Moves, StatusWrite
  <1>5. CASE DenyCommit(p)
    <2>1. NoConsentUnlessDecided'
      BY <1>5 DEF DenyCommit, NoConsentUnlessDecided
    <2> QED
      BY <1>2, <1>5, <2>1, Moves, StatusWrite DEF DenyCommit, MayWrite, evidenceVars
  <1> QED
    BY <1>1, <1>3, <1>4, <1>5 DEF LifecycleStep

LEMMA StatusAssistedStep ==
    ASSUME RequestTypeOK, StatusInv, NEW p \in Calls, AssistedStep(p)
    PROVE  StatusInv'
  <1>1. ASSUME NEW op \in LockedOps, LockedRead(p, op)
        PROVE  StatusInv'
    <2>1. call'[p].op = op /\ \A q \in Calls : q # p => call'[q] = call[q]
      BY <1>1, Moves DEF LockedRead
    <2>2. op \notin {"recording", "deleting"}
      BY DEF LockedOps
    <2> QED
      BY <1>1, <2>1, <2>2, StatusLock DEF LockedRead, requestVars, evidenceVars
  <1>2. Idle.op \notin Held
    BY DEF Idle, Held, LockedOps
  <1>3. CASE Submit(p)
    <2>1. request = "pending" /\ artefacts = <<>>
      BY <1>3 DEF Submit, StatusInv, LockInHand, Accepts, LockedOps, NoConsentUnlessDecided
    <2>2. NoConsentUnlessDecided'
      BY <1>3, <2>1 DEF Submit, NoConsentUnlessDecided
    <2> QED
      BY <1>2, <1>3, <2>2, Moves, StatusWrite DEF Submit, MayWrite, evidenceVars
  <1>4. CASE Close(p, "cancel", "cancelled") \/ Close(p, "reject", "rejected")
    <2>1. request \in {"pending", "pending_verification"}
      BY <1>4 DEF Close, StatusInv, LockInHand, Accepts, LockedOps
    <2>2. NoConsentUnlessDecided'
      BY <1>4, <2>1 DEF Close, StatusInv, NoConsentUnlessDecided
    <2> QED
      BY <1>2, <1>4, <2>2, Moves, StatusWrite DEF Close, MayWrite, evidenceVars
  <1>5. CASE StaffApprove(p)
    <2>1. NoConsentUnlessDecided'
      BY <1>5 DEF StaffApprove, NoConsentUnlessDecided
    <2>2. /\ UNCHANGED files /\ lock \in {p, Nobody}
          /\ request' = "approved" /\ Becomes(p, Idle)
      BY <1>5 DEF StaffApprove, MayWrite, evidenceVars
    <2> QED
      BY <1>2, <2>1, <2>2, Moves, StatusWrite
  <1> QED
    BY <1>1, <1>3, <1>4, <1>5 DEF AssistedStep

LEMMA StatusEvidenceStep ==
    ASSUME RequestTypeOK, StatusInv, NEW p \in Calls, EvidenceStep(p)
    PROVE  StatusInv'
  <1>0. /\ Idle.op \notin Held
        /\ \A op \in {"putting", "stored", "recorded", "discarding"} : op \notin Held
    BY DEF Idle, Held, LockedOps
  <1>1. ASSUME NEW f \in Files, UploadRead(p, f)
        PROVE  StatusInv'
    BY <1>0, <1>1, Moves, StatusFrame DEF UploadRead, requestVars, evidenceVars
  <1>2. CASE UploadPut(p) \/ UploadAnswer(p) \/ Discard(p)
    BY <1>0, <1>2, Moves, StatusFrame DEF UploadPut, UploadAnswer, Discard, requestVars
  <1>3. CASE UploadFails(p)
    <2>1. /\ call'[p].op = "discarding"
          /\ \A q \in Calls : q # p => call'[q] = call[q]
      BY <1>3, Moves DEF UploadFails
    <2>2. \A q \in Calls : q # p /\ lock = q => lock' = q
      BY <1>3 DEF UploadFails, Unlocks
    <2>3. \A q \in Calls : \/ call'[q].op \notin Held
                           \/ call'[q] = call[q] /\ (lock = q => lock' = q)
      BY <1>0, <2>1, <2>2
    <2> QED
      BY <1>3, <2>3, StatusFrame DEF UploadFails, requestVars, evidenceVars
  <1>4. CASE UploadLock(p)
    <2>1. call'[p].op = "recording" /\ \A q \in Calls : q # p => call'[q] = call[q]
      BY <1>4, Moves DEF UploadLock
    <2> QED
      BY <1>4, <2>1, StatusLock DEF UploadLock, LockedOps, requestVars, evidenceVars
  <1>5. ASSUME NEW f \in Files, DeleteLock(p, f)
        PROVE  StatusInv'
    <2>1. call'[p].op = "deleting" /\ \A q \in Calls : q # p => call'[q] = call[q]
      BY <1>5, Moves DEF DeleteLock
    <2> QED
      BY <1>5, <2>1, StatusLock DEF DeleteLock, LockedOps, requestVars, evidenceVars
  <1>6. CASE UploadCommit(p) \/ DeleteCommit(p)
    <2>1. call[p].op \in {"recording", "deleting"} /\ lock = p
      BY <1>6 DEF UploadCommit, DeleteCommit, StatusInv, LockInHand
    <2>2. /\ call'[p].op \in {"recorded", "discarding"}
          /\ \A q \in Calls : q # p => call'[q] = call[q]
      BY <1>6, Moves DEF UploadCommit, DeleteCommit
    <2>3. \A q \in Calls : call'[q].op \notin Held
      BY <1>0, <2>1, <2>2, OneHolder DEF StatusInv
    <2>4. LockInHand'
      BY <2>3 DEF LockInHand, Held
    <2>5. IsFiniteSet(files') /\ Cardinality(files') <= MaxFiles
      <3>0. IsFiniteSet(files) /\ Cardinality(files) \in Nat /\ MaxFiles \in Nat
        BY FS_CardinalityType, RequestAssumption DEF StatusInv
      <3>1. CASE UploadCommit(p)
        <4>1. Cardinality(files) < MaxFiles /\ files' = files \cup {call[p].file}
          BY <3>1 DEF UploadCommit, StatusInv, LockInHand
        <4>2. /\ IsFiniteSet(files')
              /\ Cardinality(files') \in {Cardinality(files), Cardinality(files) + 1}
          BY <3>0, <4>1, FS_AddElement
        <4> QED
          BY <3>0, <4>1, <4>2
      <3>2. CASE DeleteCommit(p)
        <4>1. files' = files \ {call[p].file}
          BY <3>2 DEF DeleteCommit
        <4>2. IsFiniteSet(files') /\ Cardinality(files') <= Cardinality(files)
          BY <3>0, <4>1, FS_Subset
        <4> QED
          BY <3>0, <4>2, FS_CardinalityType DEF StatusInv, FilesWithinLimit
      <3> QED
        BY <1>6, <3>1, <3>2
    <2>6. UNCHANGED <<request, submitted, artefacts>>
      BY <1>6 DEF UploadCommit, DeleteCommit, requestVars
    <2> QED
      BY <2>4, <2>5, <2>6 DEF StatusInv, FilesWithinLimit, NoConsentUnlessDecided
  <1> QED
    BY <1>1, <1>2, <1>3, <1>4, <1>5, <1>6 DEF EvidenceStep

LEMMA StatusStep ==
    RequestTypeOK /\ StatusInv /\ [RequestNext]_reqVars => StatusInv'
  <1> SUFFICES ASSUME RequestTypeOK, StatusInv, [RequestNext]_reqVars
               PROVE  StatusInv'
    OBVIOUS
  <1>1. CASE UNCHANGED reqVars
    BY <1>1, StatusFrame DEF reqVars, requestVars, evidenceVars
  <1>2. ASSUME NEW l \in Logins, LoginExpires(l)
        PROVE  StatusInv'
    BY <1>2, StatusFrame DEF LoginExpires, requestVars, evidenceVars
  <1>3. ASSUME NEW p \in Calls, Ends(p)
        PROVE  StatusInv'
    <2>1. Idle.op \notin Held
      BY DEF Idle, Held, LockedOps
    <2>2. call'[p].op \notin Held /\ \A q \in Calls : q # p => call'[q] = call[q]
      BY <1>3, <2>1, Moves DEF Ends
    <2>3. \A q \in Calls : q # p /\ lock = q => lock' = q
      BY <1>3 DEF Ends, Unlocks
    <2>4. \A q \in Calls : \/ call'[q].op \notin Held
                           \/ call'[q] = call[q] /\ (lock = q => lock' = q)
      BY <2>2, <2>3
    <2> QED
      BY <1>3, <2>4, StatusFrame DEF Ends, requestVars, evidenceVars
  <1> QED
    BY <1>1, <1>2, <1>3, StatusLoginStep, StatusLifecycleStep,
       StatusAssistedStep, StatusEvidenceStep
    DEF RequestNext

\* Every state of the specification has them.
LEMMA StatusCorrect == RequestSpec => []StatusInv
  <1> USE DEF RequestSpec
  <1>1. RequestSpec => []RequestTypeOK
    BY RequestTypeCorrect
  <1> QED
    BY <1>1, StatusInit, StatusStep, PTL

\* A request that is open, cancelled or rejected has produced no consent.
THEOREM NoConsentUnlessDecidedCorrect == RequestSpec => []NoConsentUnlessDecided
  BY StatusCorrect, PTL DEF StatusInv

\* The limit on evidence files holds, however many uploads race.
THEOREM FilesWithinLimitCorrect == RequestSpec => []FilesWithinLimit
  BY StatusCorrect, PTL DEF StatusInv

-----------------------------------------------------------------------------
(* Rows and bytes *)

FilesInv == FilesInHand /\ UploadedHasBytes

LEMMA FilesInit == RequestInit => FilesInv
  <1> SUFFICES ASSUME RequestInit PROVE FilesInv
    OBVIOUS
  <1>1. \A q \in Calls : call[q].op = "idle"
    BY DEF RequestInit, Idle
  <1> QED
    BY <1>1 DEF RequestInit, FilesInv, FilesInHand, UploadedHasBytes

\* A step that leaves rows and bytes alone, and begins no upload or deletion.
LEMMA FilesFrame ==
    ASSUME FilesInv, UNCHANGED evidenceVars,
           \A q \in Calls : call'[q].op \in FileOps => call'[q] = call[q]
    PROVE  FilesInv'
  BY DEF FilesInv, FilesInHand, UploadedHasBytes, evidenceVars, FileOps

LEMMA OthersLeaveFiles ==
    ASSUME RequestTypeOK, NEW p \in Calls,
           LoginStep(p) \/ LifecycleStep(p) \/ AssistedStep(p) \/ Ends(p)
    PROVE  /\ UNCHANGED evidenceVars
           /\ \A q \in Calls : call'[q].op \in FileOps => call'[q] = call[q]
  <1>1. UNCHANGED evidenceVars
    BY DEF LoginStep, StartRead, Claim, StartCommit, OpenRead, LoginSucceeds,
           LoginFails, LifecycleStep, PlainRead, AuthenticateCommit,
           SubjectApproveCommit, DenyCommit, AssistedStep, LockedRead, Submit,
           Close, StaffApprove, Ends
  <1>2. \/ Becomes(p, Idle)
        \/ \E op \in PlainOps \cup LockedOps : Becomes(p, [op |-> op])
        \/ \E op \in LoginOps : \E l : Becomes(p, [op |-> op, login |-> l])
    BY DEF LoginStep, StartRead, Claim, StartCommit, OpenRead, LoginSucceeds,
           LoginFails, LoginOps, LifecycleStep, PlainRead, AuthenticateCommit,
           SubjectApproveCommit, DenyCommit, AssistedStep, LockedRead, Submit,
           Close, StaffApprove, Ends
  <1>3. CASE Becomes(p, Idle)
    <2>1. Idle.op \notin FileOps
      BY DEF Idle, FileOps
    <2> QED
      BY <1>1, <1>3, <2>1, Moves
  <1>4. ASSUME NEW op \in PlainOps \cup LockedOps, Becomes(p, [op |-> op])
        PROVE  \A q \in Calls : call'[q].op \in FileOps => call'[q] = call[q]
    <2>1. [op |-> op].op \notin FileOps
      BY OpsDisjoint
    <2> QED
      BY <1>4, <2>1, Moves
  <1>5. ASSUME NEW op \in LoginOps, NEW l, Becomes(p, [op |-> op, login |-> l])
        PROVE  \A q \in Calls : call'[q].op \in FileOps => call'[q] = call[q]
    <2>1. [op |-> op, login |-> l].op \notin FileOps
      BY OpsDisjoint
    <2> QED
      BY <1>5, <2>1, Moves
  <1> QED
    BY <1>1, <1>2, <1>3, <1>4, <1>5

LEMMA FilesEvidenceStep ==
    ASSUME RequestTypeOK, FilesInv, NEW p \in Calls, EvidenceStep(p)
    PROVE  FilesInv'
  <1> USE DEF FilesInv, FilesInHand, UploadedHasBytes, FileOps
  <1>1. ASSUME NEW f \in Files, UploadRead(p, f)
        PROVE  FilesInv'
    BY <1>1, Moves DEF UploadRead, Fresh, evidenceVars
  <1>2. ASSUME NEW f \in Files, DeleteLock(p, f)
        PROVE  FilesInv'
    BY <1>2, Moves DEF DeleteLock, evidenceVars
  <1>3. CASE UploadPut(p)
    BY <1>3, Moves DEF UploadPut
  <1>4. CASE UploadLock(p)
    BY <1>4, Moves DEF UploadLock, evidenceVars
  <1>5. CASE UploadCommit(p)
    BY <1>5, Moves DEF UploadCommit
  <1>6. CASE UploadAnswer(p)
    <2>1. Idle.op = "idle"
      BY DEF Idle
    <2> QED
      BY <1>6, <2>1, Moves DEF UploadAnswer
  <1>7. CASE UploadFails(p)
    BY <1>7, Moves DEF UploadFails, evidenceVars
  <1>8. CASE DeleteCommit(p)
    BY <1>8, Moves DEF DeleteCommit
  <1>9. CASE Discard(p)
    <2>1. Idle.op = "idle"
      BY DEF Idle
    <2> QED
      BY <1>9, <2>1, Moves DEF Discard
  <1> QED
    BY <1>1, <1>2, <1>3, <1>4, <1>5, <1>6, <1>7, <1>8, <1>9 DEF EvidenceStep

LEMMA FilesStep ==
    RequestTypeOK /\ FilesInv /\ [RequestNext]_reqVars => FilesInv'
  <1> SUFFICES ASSUME RequestTypeOK, FilesInv, [RequestNext]_reqVars
               PROVE  FilesInv'
    OBVIOUS
  <1>1. CASE UNCHANGED reqVars
    BY <1>1, FilesFrame DEF reqVars
  <1>2. ASSUME NEW l \in Logins, LoginExpires(l)
        PROVE  FilesInv'
    BY <1>2, FilesFrame DEF LoginExpires
  <1>3. ASSUME NEW p \in Calls,
               LoginStep(p) \/ LifecycleStep(p) \/ AssistedStep(p) \/ Ends(p)
        PROVE  FilesInv'
    BY <1>3, OthersLeaveFiles, FilesFrame
  <1> QED
    BY <1>1, <1>2, <1>3, FilesEvidenceStep DEF RequestNext

\* Evidence whose upload was acknowledged can be downloaded while it is on file.
THEOREM UploadedHasBytesCorrect == RequestSpec => []UploadedHasBytes
  <1>1. RequestSpec => []RequestTypeOK
    BY RequestTypeCorrect
  <1>2. FilesInv => UploadedHasBytes
    BY DEF FilesInv
  <1> QED
    BY <1>1, <1>2, FilesInit, FilesStep, PTL DEF RequestSpec

-----------------------------------------------------------------------------
(* What a submitted request and a staff approval rest on *)

LEMMA LoginsCorrect == RequestSpec => [](LoginsInHand /\ OneCallbackPerLogin)
  <1> USE DEF RequestSpec
  <1>1. RequestSpec => []RequestTypeOK
    BY RequestTypeCorrect
  <1> QED
    BY <1>1, LoginsInit, LoginsStep, PTL

\* At most one callback works on a login, and nothing undoes what it recorded.
THEOREM OneCallbackPerLoginCorrect == RequestSpec => []OneCallbackPerLogin
  BY LoginsCorrect, PTL

\* A subject who has logged in stays logged in.
LEMMA LoggedInStays ==
    ASSUME RequestTypeOK, LoginsInHand, [RequestNext]_reqVars, LoggedIn
    PROVE  LoggedIn'
  <1>1. PICK s \in Logins : login[s] = "success"
    BY DEF LoggedIn
  <1>2. SUFFICES login'[s] = "success"
    BY DEF LoggedIn
  <1>3. login \in [Logins -> LoginStatus]
    BY DEF RequestTypeOK
  <1>4. CASE UNCHANGED reqVars
    BY <1>1, <1>4 DEF reqVars, loginVars
  <1>5. ASSUME NEW l \in Logins, LoginExpires(l)
        PROVE  login'[s] = "success"
    BY <1>1, <1>5 DEF LoginExpires
  <1>6. ASSUME NEW p \in Calls,
               LifecycleStep(p) \/ AssistedStep(p) \/ EvidenceStep(p) \/ Ends(p)
        PROVE  login'[s] = "success"
    BY <1>1, <1>6, OthersLeaveLogins
  <1>7. ASSUME NEW p \in Calls, LoginStep(p)
        PROVE  login'[s] = "success"
    BY <1>1, <1>3, <1>7
    DEF LoginStep, StartRead, Claim, StartCommit, OpenRead, LoginSucceeds,
        LoginFails, LoginsInHand, loginVars
  <1> QED
    BY <1>4, <1>5, <1>6, <1>7 DEF RequestNext

\* Rows come and go only while the request is pending, hence not submitted.
LEMMA FilesMoveWhilePending ==
    ASSUME StatusInv, [RequestNext]_reqVars
    PROVE  files' = files \/ ~submitted
  <1>1. ASSUME NEW p \in Calls, UploadCommit(p) \/ DeleteCommit(p)
        PROVE  ~submitted
    BY <1>1 DEF UploadCommit, DeleteCommit, StatusInv, LockInHand
  <1>2. ASSUME NEW p \in Calls,
               LoginStep(p) \/ LifecycleStep(p) \/ AssistedStep(p) \/ Ends(p)
        PROVE  files' = files
    BY <1>2
    DEF LoginStep, StartRead, Claim, StartCommit, OpenRead, LoginSucceeds,
        LoginFails, LifecycleStep, PlainRead, AuthenticateCommit,
        SubjectApproveCommit, DenyCommit, AssistedStep, LockedRead, Submit,
        Close, StaffApprove, Ends, evidenceVars
  <1>3. ASSUME NEW p \in Calls, EvidenceStep(p), ~UploadCommit(p), ~DeleteCommit(p)
        PROVE  files' = files
    BY <1>3 DEF EvidenceStep, UploadRead, UploadPut, UploadLock, UploadAnswer,
                UploadFails, DeleteLock, Discard, evidenceVars
  <1>4. ASSUME NEW l \in Logins, LoginExpires(l)
        PROVE  files' = files
    BY <1>4 DEF LoginExpires, evidenceVars
  <1>5. CASE UNCHANGED reqVars
    BY <1>5 DEF reqVars, evidenceVars
  <1> QED
    BY <1>1, <1>2, <1>3, <1>4, <1>5 DEF RequestNext

\* The evidence of a submitted request is frozen, uploads in flight included.
THEOREM EvidenceIsFrozenCorrect == RequestSpec => EvidenceIsFrozen
  <1>1. StatusInv /\ [RequestNext]_reqVars => [submitted => files' = files]_reqVars
    BY FilesMoveWhilePending
  <1> QED
    BY <1>1, StatusCorrect, PTL DEF RequestSpec, EvidenceIsFrozen

\* What is submitted is backed, and so is what staff approved of it, once.
BackedInv ==
    /\ SubmittedIsBacked
    /\ StaffConsentIsBacked
    /\ StaffApproveOnce

LEMMA BackedInit == RequestInit => BackedInv
  BY DEF RequestInit, BackedInv, SubmittedIsBacked, StaffConsentIsBacked, StaffApproveOnce

\* No step but submit and the two approvals writes what BackedInv speaks of.
LEMMA OnlyThreeDecide ==
    ASSUME [RequestNext]_reqVars
    PROVE  \/ UNCHANGED <<submitted, artefacts>>
           \/ \E p \in Calls : Submit(p) \/ SubjectApproveCommit(p) \/ StaffApprove(p)
  <1> DEFINE Kept == UNCHANGED <<submitted, artefacts>>
  <1>1. ASSUME NEW p \in Calls, LoginStep(p) PROVE Kept
    BY <1>1 DEF LoginStep, StartRead, StartCommit, Claim, OpenRead, LoginSucceeds,
                LoginFails, requestVars
  <1>2. ASSUME NEW p \in Calls, LifecycleStep(p) PROVE Kept \/ SubjectApproveCommit(p)
    BY <1>2 DEF LifecycleStep, PlainRead, AuthenticateCommit, DenyCommit, requestVars
  <1>3. ASSUME NEW p \in Calls, AssistedStep(p) PROVE Kept \/ Submit(p) \/ StaffApprove(p)
    BY <1>3 DEF AssistedStep, LockedRead, Close, requestVars
  <1>4. ASSUME NEW p \in Calls, EvidenceStep(p) PROVE Kept
    BY <1>4 DEF EvidenceStep, UploadRead, UploadPut, UploadLock, UploadCommit,
                UploadAnswer, UploadFails, DeleteLock, DeleteCommit, Discard, requestVars
  <1>5. ASSUME NEW p \in Calls, Ends(p) PROVE Kept
    BY <1>5 DEF Ends, requestVars
  <1>6. CASE (\E l \in Logins : LoginExpires(l)) \/ UNCHANGED reqVars
    BY <1>6 DEF LoginExpires, requestVars, reqVars
  <1>7. CASE \E p \in Calls : LoginStep(p) \/ LifecycleStep(p) \/ AssistedStep(p)
                                \/ EvidenceStep(p) \/ Ends(p)
    <2>1. PICK p \in Calls : LoginStep(p) \/ LifecycleStep(p) \/ AssistedStep(p)
                                \/ EvidenceStep(p) \/ Ends(p)
      BY <1>7
    <2>2. Kept \/ Submit(p) \/ SubjectApproveCommit(p) \/ StaffApprove(p)
      BY <1>1, <1>2, <1>3, <1>4, <1>5, <2>1
    <2> QED
      BY <2>2
  <1>8. RequestNext \/ UNCHANGED reqVars
    OBVIOUS
  <1> QED
    BY <1>6, <1>7, <1>8 DEF RequestNext

LEMMA BackedStep ==
    ASSUME RequestTypeOK, LoginsInHand, StatusInv, BackedInv, [RequestNext]_reqVars
    PROVE  BackedInv'
  <1>1. LoggedIn => LoggedIn'
    BY LoggedInStays
  <1>2. LoginSettled => LoginSettled'
    BY <1>1 DEF LoginSettled
  <1>3. submitted => files' = files /\ FormOnFile' = FormOnFile /\ Kinds' = Kinds
    BY FilesMoveWhilePending DEF FormOnFile, Kinds
  <1>4. ASSUME UNCHANGED <<submitted, artefacts>>
        PROVE  BackedInv'
    BY <1>2, <1>3, <1>4
    DEF BackedInv, SubmittedIsBacked, StaffConsentIsBacked, StaffApproveOnce
  <1>5. ASSUME NEW p \in Calls, Submit(p)
        PROVE  BackedInv'
    <2>1. artefacts = <<>>
      BY <1>5 DEF Submit, StatusInv, LockInHand, Accepts, LockedOps, NoConsentUnlessDecided
    <2>2. artefacts' = <<>> /\ FormOnFile' /\ LoginSettled'
      BY <1>2, <1>5, <2>1 DEF Submit, FormOnFile, evidenceVars
    <2> QED
      BY <2>2 DEF BackedInv, SubmittedIsBacked, StaffConsentIsBacked, StaffApproveOnce
  <1>6. ASSUME NEW p \in Calls, SubjectApproveCommit(p)
        PROVE  BackedInv'
    <2> DEFINE new == [by |-> "subject", evidence |-> {}, login |-> FALSE]
    <2>1. artefacts' = Append(artefacts, new) /\ submitted' = submitted
      BY <1>6 DEF SubjectApproveCommit
    <2>2. /\ Len(artefacts) \in Nat
          /\ Len(artefacts') = Len(artefacts) + 1
          /\ \A i \in 1..Len(artefacts) : artefacts'[i] = artefacts[i]
          /\ artefacts'[Len(artefacts) + 1].by # "staff"
      <3>1. new \in Artefact /\ new.by = "subject"
        BY DEF Artefact
      <3> QED
        BY <2>1, <3>1, AppendProperties, LenProperties DEF RequestTypeOK
    <2>3. \A i \in 1..Len(artefacts') : artefacts'[i].by = "staff" =>
              i \in 1..Len(artefacts) /\ artefacts'[i] = artefacts[i]
      BY <2>2
    <2> QED
      BY <1>2, <1>3, <2>1, <2>3
      DEF BackedInv, SubmittedIsBacked, StaffConsentIsBacked, StaffApproveOnce
  <1>7. ASSUME NEW p \in Calls, StaffApprove(p)
        PROVE  BackedInv'
    <2> DEFINE new == [by |-> "staff", evidence |-> Kinds, login |-> LoggedIn]
    <2>1. request = "pending_verification"
      BY <1>7 DEF StaffApprove, StatusInv, LockInHand, Accepts, LockedOps
    <2>2. submitted /\ artefacts = <<>>
      BY <2>1 DEF StatusInv, NoConsentUnlessDecided
    <2>3. artefacts' = <<new>> /\ submitted' = submitted /\ LoginSettled
      <3>1. artefacts' = Append(artefacts, new) /\ submitted' = submitted /\ LoginSettled
        BY <1>7 DEF StaffApprove
      <3>2. \A x : Append(<<>>, x) = <<x>>
        OBVIOUS
      <3> HIDE DEF new
      <3> QED
        BY <2>2, <3>1, <3>2
    <2>4. /\ new.evidence = Kinds
          /\ AuthEnabled => new.login
      BY <2>3 DEF LoginSettled
    <2>5. \A i \in 1..Len(artefacts') : i = 1 /\ artefacts'[i] = new
      BY <2>3
    <2> HIDE DEF new
    <2>6. StaffConsentIsBacked'
      BY <1>3, <2>2, <2>3, <2>4, <2>5 DEF StaffConsentIsBacked
    <2> QED
      BY <1>2, <1>3, <2>2, <2>3, <2>5, <2>6
      DEF BackedInv, SubmittedIsBacked, StaffApproveOnce
  <1> QED
    BY <1>4, <1>5, <1>6, <1>7, OnlyThreeDecide

LEMMA BackedCorrect == RequestSpec => []BackedInv
  <1>1. RequestSpec => []RequestTypeOK
    BY RequestTypeCorrect
  <1>2. RequestSpec => []StatusInv
    BY StatusCorrect
  <1>3. RequestSpec => []LoginsInHand
    BY LoginsCorrect, PTL
  <1>4. RequestTypeOK /\ LoginsInHand /\ StatusInv /\ BackedInv /\ [RequestNext]_reqVars
            => BackedInv'
    BY BackedStep
  <1> QED
    BY <1>1, <1>2, <1>3, <1>4, BackedInit, PTL DEF RequestSpec

\* A submitted request has its signed form, and its login, for good.
THEOREM SubmittedIsBackedCorrect == RequestSpec => []SubmittedIsBacked
  BY BackedCorrect, PTL DEF BackedInv

\* What a staff approval recorded as its assurance is on file for good.
THEOREM StaffConsentIsBackedCorrect == RequestSpec => []StaffConsentIsBacked
  BY BackedCorrect, PTL DEF BackedInv

\* One request is approved by staff at most once.
THEOREM StaffApproveOnceCorrect == RequestSpec => []StaffApproveOnce
  BY BackedCorrect, PTL DEF BackedInv

\* What the calls in flight rely on, all of it at once, is invariant.
THEOREM CallsInFlightCorrect == RequestSpec => []CallsInFlightSound
  <1>1. RequestSpec => []RequestTypeOK
    BY RequestTypeCorrect
  <1>2. RequestSpec => []FilesInv
    BY <1>1, FilesInit, FilesStep, PTL DEF RequestSpec
  <1>3. (LoginsInHand /\ OneCallbackPerLogin) /\ StatusInv /\ FilesInv
            => CallsInFlightSound
    BY DEF StatusInv, FilesInv, CallsInFlightSound
  <1> QED
    BY <1>2, <1>3, LoginsCorrect, StatusCorrect, PTL

-----------------------------------------------------------------------------
(* The handlers decide a request as if each did it in one step *)

\* The abstract state: what a step leaves alone is not seen to change.
LEMMA NotSeen ==
    ASSUME UNCHANGED <<request, artefacts, files>>, LoggedIn' = LoggedIn
    PROVE  UNCHANGED Promise!vars
  BY DEF Stage, Promise!vars

LEMMA LoginRefines ==
    ASSUME RequestTypeOK, LoginsInHand, NEW p \in Calls, LoginStep(p)
    PROVE  Promise!LogIn \/ UNCHANGED Promise!vars
  <1>1. UNCHANGED <<request, artefacts, files>>
    BY DEF LoginStep, StartRead, Claim, StartCommit, OpenRead, LoginSucceeds,
           LoginFails, requestVars, evidenceVars
  <1>2. LoggedIn => LoggedIn'
    BY LoggedInStays DEF RequestNext
  <1>3. CASE LoggedIn' = LoggedIn
    BY <1>1, <1>3, NotSeen
  <1>4. CASE LoggedIn' # LoggedIn
    <2>1. LoggedIn' = TRUE
      BY <1>2, <1>4 DEF LoggedIn
    <2> QED
      BY <1>1, <2>1 DEF Promise!LogIn, Stage
  <1> QED
    BY <1>3, <1>4

LEMMA LifecycleRefines ==
    ASSUME RequestTypeOK, NEW p \in Calls, LifecycleStep(p)
    PROVE  Promise!Next \/ UNCHANGED Promise!vars
  <1>1. LoggedIn' = LoggedIn
    BY OthersLeaveLogins DEF LoggedIn
  <1>2. CASE SubjectApproveCommit(p)
    BY <1>1, <1>2
    DEF SubjectApproveCommit, evidenceVars, Stage, Promise!SubjectConsent, Promise!Next
  <1>3. CASE DenyCommit(p)
    BY <1>1, <1>3 DEF DenyCommit, evidenceVars, Stage, Promise!Close, Promise!Next
  <1>4. CASE AuthenticateCommit(p) \/ \E op \in PlainOps : PlainRead(p, op)
    BY <1>1, <1>4, NotSeen DEF AuthenticateCommit, PlainRead, requestVars, evidenceVars
  <1> QED
    BY <1>2, <1>3, <1>4 DEF LifecycleStep

\* What a handler found under the row lock is so when it writes.
LEMMA AssistedRefines ==
    ASSUME RequestTypeOK, StatusInv, NEW p \in Calls, AssistedStep(p)
    PROVE  Promise!Next \/ UNCHANGED Promise!vars
  <1>1. LoggedIn' = LoggedIn
    BY OthersLeaveLogins DEF LoggedIn
  <1>2. ASSUME NEW op \in LockedOps, LockedRead(p, op)
        PROVE  UNCHANGED Promise!vars
    BY <1>1, <1>2, NotSeen DEF LockedRead, requestVars, evidenceVars
  <1>3. CASE Submit(p)
    <2>1. request = "pending"
      BY <1>3 DEF Submit, StatusInv, LockInHand, Accepts, LockedOps
    <2>2. Promise!Submit
      BY <1>1, <1>3, <2>1
      DEF Submit, FormOnFile, LoginSettled, evidenceVars, Stage, Promise!Submit,
          Promise!LoginSettled
    <2> QED
      BY <2>2 DEF Promise!Next
  <1>4. CASE Close(p, "cancel", "cancelled") \/ Close(p, "reject", "rejected")
    BY <1>1, <1>4 DEF Close, evidenceVars, Stage, Promise!Close, Promise!Next
  <1>5. CASE StaffApprove(p)
    <2>1. request = "pending_verification"
      BY <1>5 DEF StaffApprove, StatusInv, LockInHand, Accepts, LockedOps
    <2>2. Promise!Kinds = Kinds
      BY DEF Promise!Kinds, Kinds, Kind
    <2>3. Promise!StaffConsent
      BY <1>1, <1>5, <2>1, <2>2
      DEF StaffApprove, LoginSettled, evidenceVars, Stage, Promise!StaffConsent,
          Promise!LoginSettled
    <2> QED
      BY <2>3 DEF Promise!Next
  <1> QED
    BY <1>2, <1>3, <1>4, <1>5 DEF AssistedStep

\* A row is written while the lock keeps the request pending.
LEMMA EvidenceRefines ==
    ASSUME RequestTypeOK, StatusInv, NEW p \in Calls, EvidenceStep(p)
    PROVE  Promise!Next \/ UNCHANGED Promise!vars
  <1>1. LoggedIn' = LoggedIn
    BY OthersLeaveLogins DEF LoggedIn
  <1>2. call[p].op \in FileOps => call[p].file \in Files
    BY CallFields DEF RequestTypeOK
  <1>3. CASE UploadCommit(p)
    <2>1. /\ request = "pending" /\ Cardinality(files) < MaxFiles
          /\ call[p].file \in Files
      BY <1>2, <1>3 DEF UploadCommit, StatusInv, LockInHand, FileOps
    <2>2. Promise!Collect(call[p].file)
      <3>1. Promise!Cardinality(files) = Cardinality(files)
        BY DEF Promise!Cardinality, Cardinality
      <3>2. /\ Stage = "collecting" /\ files' = files \cup {call[p].file}
            /\ UNCHANGED <<Stage, LoggedIn, artefacts>>
        BY <1>1, <1>3, <2>1 DEF UploadCommit, requestVars, Stage
      <3> QED
        BY <2>1, <3>1, <3>2 DEF Promise!Collect
    <2> QED
      BY <2>1, <2>2 DEF Promise!Next
  <1>4. CASE DeleteCommit(p)
    <2>1. request = "pending" /\ call[p].file \in Files
      BY <1>2, <1>4 DEF DeleteCommit, StatusInv, LockInHand, FileOps
    <2>2. Promise!Remove(call[p].file)
      BY <1>1, <1>4, <2>1 DEF DeleteCommit, requestVars, Stage, Promise!Remove
    <2> QED
      BY <2>1, <2>2 DEF Promise!Next
  <1>5. CASE ~UploadCommit(p) /\ ~DeleteCommit(p)
    <2>1. UNCHANGED <<request, artefacts, files>>
      BY <1>5 DEF EvidenceStep, UploadRead, UploadPut, UploadLock, UploadAnswer,
                  UploadFails, DeleteLock, Discard, requestVars, evidenceVars
    <2> QED
      BY <1>1, <2>1, NotSeen
  <1> QED
    BY <1>3, <1>4, <1>5

\* Together, however they race, the handlers of a request keep the promise.
THEOREM ImplementsDecision == RequestSpec => RequestRefined
  <1>1. RequestInit => Promise!Init
    BY DEF RequestInit, Promise!Init, Stage, LoggedIn
  <1>2. RequestTypeOK /\ LoginsInHand /\ StatusInv /\ [RequestNext]_reqVars
            => [Promise!Next]_Promise!vars
    <2> SUFFICES ASSUME RequestTypeOK, LoginsInHand, StatusInv,
                        [RequestNext]_reqVars
                 PROVE  Promise!Next \/ UNCHANGED Promise!vars
      OBVIOUS
    <2>1. CASE UNCHANGED reqVars
      BY <2>1, NotSeen DEF reqVars, requestVars, evidenceVars, loginVars, LoggedIn
    <2>2. ASSUME NEW l \in Logins, LoginExpires(l)
          PROVE  UNCHANGED Promise!vars
      BY <2>2, NotSeen DEF LoginExpires, requestVars, evidenceVars, LoggedIn
    <2>3. ASSUME NEW p \in Calls, LoginStep(p)
          PROVE  Promise!Next \/ UNCHANGED Promise!vars
      BY <2>3, LoginRefines DEF Promise!Next
    <2>4. ASSUME NEW p \in Calls, Ends(p)
          PROVE  UNCHANGED Promise!vars
      BY <2>4, NotSeen DEF Ends, requestVars, evidenceVars, loginVars, LoggedIn
    <2> QED
      BY <2>1, <2>2, <2>3, <2>4, LifecycleRefines, AssistedRefines, EvidenceRefines
      DEF RequestNext
  <1>3. RequestSpec => []LoginsInHand
    BY LoginsCorrect, PTL
  <1> QED
    BY <1>1, <1>2, <1>3, RequestTypeCorrect, StatusCorrect, PTL
    DEF RequestSpec, RequestRefined, Promise!Spec
=============================================================================
