--------------------------- MODULE ConsentRequests ---------------------------
(***************************************************************************)
(* One consent request, from its creation to its decision, and everything  *)
(* recorded with it: the evidence files (rows in the database, bytes in    *)
(* the object store), the subject's national-ID logins, and the consent    *)
(* artefacts that approving it creates.                                    *)
(*                                                                         *)
(*   services/lifecycle_service.py     authenticate, approve, deny         *)
(*   services/assisted_service.py      submit, cancel, add_evidence,       *)
(*                                     delete_evidence, approve, reject    *)
(*   services/subject_auth_service.py  start, complete, _finish            *)
(*                                                                         *)
(* Assisted handlers read the request FOR UPDATE and hold the row lock     *)
(* until they commit or roll back; lifecycle handlers read it plainly, and *)
(* their UPDATE waits for a lock held by another call and then overwrites. *)
(* Requests share no state, so one request stands for all. Which scopes    *)
(* are granted, and who may see the request, are left out: an answer that  *)
(* depends on them is Refused or not, nondeterministically.                *)
(***************************************************************************)
EXTENDS Naturals, Sequences, FiniteSets

CONSTANTS
    Calls,        \* API calls in flight at once, over all pods
    Nobody,       \* the holder of a free row lock
    Files,        \* evidence files, each with its own id
    Forms,        \* those uploaded as a signed form
    Logins,       \* national-ID logins of the subject
    MaxFiles,     \* evidence_max_files_per_request
    AuthEnabled   \* subject_auth_enabled

ASSUME RequestAssumption ==
    /\ Nobody \notin Calls
    /\ Forms \subseteq Files
    /\ MaxFiles \in Nat \ {0}
    /\ AuthEnabled \in BOOLEAN

VARIABLES
    assisted,    \* whether the request's method is assisted
    request,     \* the request's status column
    lock,        \* the call that holds the request's row lock
    submitted,   \* whether submitted_at is set
    artefacts,   \* the consent artefacts created from the request
    identified,  \* whether authenticate recorded an AuthContext
    files,       \* the evidence rows
    objects,     \* the evidence files whose bytes are in the object store
    uploaded,    \* the files whose uploader was told they are stored
    login,       \* login[l]: the status column of login session l
    overdue,     \* the logins whose expires_at has passed
    call         \* call[p]: what call p is doing

requestVars == <<request, submitted, artefacts>>
evidenceVars == <<files, objects, uploaded>>
loginVars == <<login, overdue>>
reqVars == <<assisted, requestVars, lock, identified, evidenceVars,
             loginVars, call>>

RequestStatus == {"pending", "approved", "denied", "pending_verification",
                  "rejected", "cancelled"}

LoginStatus == {"none", "pending", "processing", "success", "failed"}

Kind(f) == IF f \in Forms THEN "signed_form" ELSE "other"

Kinds == {Kind(f) : f \in files}

\* The parts of an artefact the properties tell apart: who approved it and
\* the assurance recorded with it.
Artefact == [by : {"subject", "staff"},
             evidence : SUBSET {"signed_form", "other"},
             login : BOOLEAN]

Idle == [op |-> "idle"]

\* Handlers that decide on the request row alone.
PlainOps == {"authenticate", "subject approve", "deny"}
LockedOps == {"submit", "cancel", "staff approve", "reject"}

\* The stages of an upload and of a deletion.
FileOps == {"putting", "stored", "recording", "recorded", "deleting",
            "discarding"}

\* The stages of a login: begun by start, claimed and verified by a callback.
LoginOps == {"starting", "claimed", "verifying"}

RequestCall == {Idle} \cup [op : PlainOps \cup LockedOps]
                      \cup [op : FileOps, file : Files]
                      \cup [op : LoginOps, login : Logins]

RequestInit ==
    /\ assisted \in BOOLEAN
    /\ request = "pending"
    /\ lock = Nobody
    /\ submitted = FALSE
    /\ artefacts = <<>>
    /\ identified = FALSE
    /\ files = {}
    /\ objects = {}
    /\ uploaded = {}
    /\ login = [l \in Logins |-> "none"]
    /\ overdue = {}
    /\ call = [p \in Calls |-> Idle]

-----------------------------------------------------------------------------
(* The row lock *)

\* Reading FOR UPDATE waits until the lock is free, and takes it.
Locks(p) == lock = Nobody /\ lock' = p

\* An UPDATE waits for another call's lock; ending a transaction frees one's own.
MayWrite(p) == lock \in {p, Nobody}

Unlocks(p) == lock' = IF lock = p THEN Nobody ELSE lock

Becomes(p, state) == call' = [call EXCEPT ![p] = state]

\* A call that ends without a trace: it is refused (404, 409, 422, 503), the
\* policy source fails, or its pod dies; an open transaction rolls back.
Ends(p) ==
    /\ call[p] # Idle
    /\ Becomes(p, Idle)
    /\ Unlocks(p)
    /\ UNCHANGED <<assisted, requestVars, identified, evidenceVars, loginVars>>

-----------------------------------------------------------------------------
(* The subject's national-ID logins, and who the subject is known to be. *)

LoggedIn == \E l \in Logins : login[l] = "success"

\* Any AuthContext of the request, whether authenticate or a login made it.
Identified == identified \/ LoggedIn

\* start finds the request pending, then inserts the session row.
StartRead(p, l) ==
    /\ AuthEnabled
    /\ call[p] = Idle
    /\ request = "pending"
    /\ login[l] = "none"
    /\ \A q \in Calls : call[q].op = "starting" => call[q].login # l
    /\ Becomes(p, [op |-> "starting", login |-> l])
    /\ UNCHANGED <<assisted, requestVars, lock, identified, evidenceVars, loginVars>>

StartCommit(p) ==
    /\ call[p].op = "starting"
    /\ login' = [login EXCEPT ![call[p].login] = "pending"]
    /\ Becomes(p, Idle)
    /\ UNCHANGED <<assisted, requestVars, lock, identified, evidenceVars, overdue>>

LoginExpires(l) ==
    /\ login[l] # "none"
    /\ l \notin overdue
    /\ overdue' = overdue \cup {l}
    /\ UNCHANGED <<assisted, requestVars, lock, identified, evidenceVars, login, call>>

\* Slip: the UPDATE that claims a login does not ask that it is still pending.
ClaimAgain(p, l) ==
    /\ call[p] = Idle
    /\ login[l] # "none"
    /\ l \notin overdue
    /\ login' = [login EXCEPT ![l] = "processing"]
    /\ Becomes(p, [op |-> "claimed", login |-> l])
    /\ UNCHANGED <<assisted, requestVars, lock, identified, evidenceVars, overdue>>

\* complete claims the session in one UPDATE ... WHERE status = 'pending'.
Claim(p, l) ==
    /\ call[p] = Idle
    /\ login[l] = "pending"
    /\ l \notin overdue
    /\ login' = [login EXCEPT ![l] = "processing"]
    /\ Becomes(p, [op |-> "claimed", login |-> l])
    /\ UNCHANGED <<assisted, requestVars, lock, identified, evidenceVars, overdue>>

\* _authenticate finds the request still open and goes to the provider.
OpenRead(p) ==
    /\ call[p].op = "claimed"
    /\ request = "pending"
    /\ Becomes(p, [op |-> "verifying", login |-> call[p].login])
    /\ UNCHANGED <<assisted, requestVars, lock, identified, evidenceVars, loginVars>>

\* _finish records the outcome. It does not look at the request again.
LoginSucceeds(p) ==
    /\ call[p].op = "verifying"
    /\ login' = [login EXCEPT ![call[p].login] = "success"]
    /\ Becomes(p, Idle)
    /\ UNCHANGED <<assisted, requestVars, lock, identified, evidenceVars, overdue>>

LoginFails(p) ==
    /\ call[p].op \in {"claimed", "verifying"}
    /\ login' = [login EXCEPT ![call[p].login] = "failed"]
    /\ Becomes(p, Idle)
    /\ UNCHANGED <<assisted, requestVars, lock, identified, evidenceVars, overdue>>

-----------------------------------------------------------------------------
(* The lifecycle handlers: read, then write, without the row lock. *)

\* Each finds the request pending; approve also finds an AuthContext.
PlainRead(p, op) ==
    /\ call[p] = Idle
    /\ request = "pending"
    /\ op = "subject approve" => Identified
    /\ Becomes(p, [op |-> op])
    /\ UNCHANGED <<assisted, requestVars, lock, identified, evidenceVars, loginVars>>

\* authenticate inserts an AuthContext; the request row is not written.
AuthenticateCommit(p) ==
    /\ call[p].op = "authenticate"
    /\ identified' = TRUE
    /\ Becomes(p, Idle)
    /\ UNCHANGED <<assisted, requestVars, lock, evidenceVars, loginVars>>

\* approve commits the artefact, its receipt and the status together.
SubjectApproveCommit(p) ==
    /\ call[p].op = "subject approve"
    /\ MayWrite(p)
    /\ request' = "approved"
    /\ artefacts' = Append(artefacts,
            [by |-> "subject", evidence |-> {}, login |-> FALSE])
    /\ Becomes(p, Idle)
    /\ UNCHANGED <<assisted, submitted, lock, identified, evidenceVars, loginVars>>

DenyCommit(p) ==
    /\ call[p].op = "deny"
    /\ MayWrite(p)
    /\ request' = "denied"
    /\ Becomes(p, Idle)
    /\ UNCHANGED <<assisted, submitted, artefacts, lock, identified, evidenceVars, loginVars>>

-----------------------------------------------------------------------------
(* The assisted handlers: each decides and writes under the row lock. *)

\* The status a handler accepts the request in.
Accepts(op) ==
    CASE op = "submit" -> {"pending"}
      [] op = "cancel" -> {"pending", "pending_verification"}
      [] op \in {"staff approve", "reject"} -> {"pending_verification"}

\* Slip: with_for_update is forgotten.
LockedReadPlain(p, op) ==
    /\ assisted
    /\ call[p] = Idle
    /\ request \in Accepts(op)
    /\ Becomes(p, [op |-> op])
    /\ UNCHANGED <<assisted, requestVars, lock, identified, evidenceVars, loginVars>>

LockedRead(p, op) ==
    /\ assisted
    /\ call[p] = Idle
    /\ request \in Accepts(op)
    /\ Locks(p)
    /\ Becomes(p, [op |-> op])
    /\ UNCHANGED <<assisted, requestVars, identified, evidenceVars, loginVars>>

\* With national ID enabled, the subject must have logged in.
LoginSettled == AuthEnabled => LoggedIn

FormOnFile == files \cap Forms # {}

\* Slip: any file counts, whatever its kind.
SubmitAnyFile(p) ==
    /\ call[p].op = "submit"
    /\ MayWrite(p)
    /\ files # {}
    /\ LoginSettled
    /\ request' = "pending_verification"
    /\ submitted' = TRUE
    /\ Unlocks(p)
    /\ Becomes(p, Idle)
    /\ UNCHANGED <<assisted, artefacts, identified, evidenceVars, loginVars>>

Submit(p) ==
    /\ call[p].op = "submit"
    /\ MayWrite(p)
    /\ FormOnFile
    /\ LoginSettled
    /\ request' = "pending_verification"
    /\ submitted' = TRUE
    /\ Unlocks(p)
    /\ Becomes(p, Idle)
    /\ UNCHANGED <<assisted, artefacts, identified, evidenceVars, loginVars>>

\* cancel and reject write the status alone.
Close(p, op, status) ==
    /\ call[p].op = op
    /\ MayWrite(p)
    /\ request' = status
    /\ Unlocks(p)
    /\ Becomes(p, Idle)
    /\ UNCHANGED <<assisted, submitted, artefacts, identified, evidenceVars, loginVars>>

\* approve narrows the grants to the policy as it is now, holding the lock over
\* those requests, then commits artefact, receipt and status together.
StaffApprove(p) ==
    /\ call[p].op = "staff approve"
    /\ MayWrite(p)
    /\ LoginSettled
    /\ request' = "approved"
    /\ artefacts' = Append(artefacts,
            [by |-> "staff", evidence |-> Kinds, login |-> LoggedIn])
    /\ Unlocks(p)
    /\ Becomes(p, Idle)
    /\ UNCHANGED <<assisted, submitted, identified, evidenceVars, loginVars>>

-----------------------------------------------------------------------------
(* Evidence: bytes first, then the row; deleted in the other order. *)

\* A new evidence id, in nobody's hands.
Fresh(f) ==
    /\ f \notin files \cup objects \cup uploaded
    /\ \A q \in Calls : call[q].op \in FileOps => call[q].file # f

UploadRead(p, f) ==
    /\ assisted
    /\ call[p] = Idle
    /\ request = "pending"
    /\ Fresh(f)
    /\ Becomes(p, [op |-> "putting", file |-> f])
    /\ UNCHANGED <<assisted, requestVars, lock, identified, evidenceVars, loginVars>>

UploadPut(p) ==
    /\ call[p].op = "putting"
    /\ objects' = objects \cup {call[p].file}
    /\ Becomes(p, [op |-> "stored", file |-> call[p].file])
    /\ UNCHANGED <<assisted, requestVars, lock, identified, files, uploaded, loginVars>>

\* Slip: the status seen before the upload is trusted.
UploadLockTrusting(p) ==
    /\ call[p].op = "stored"
    /\ Locks(p)
    /\ Cardinality(files) < MaxFiles
    /\ Becomes(p, [op |-> "recording", file |-> call[p].file])
    /\ UNCHANGED <<assisted, requestVars, identified, evidenceVars, loginVars>>

\* Slip: one file too many.
UploadLockOneMore(p) ==
    /\ call[p].op = "stored"
    /\ Locks(p)
    /\ request = "pending"
    /\ Cardinality(files) <= MaxFiles
    /\ Becomes(p, [op |-> "recording", file |-> call[p].file])
    /\ UNCHANGED <<assisted, requestVars, identified, evidenceVars, loginVars>>

\* The second look at the request, under its lock, and at the number of files.
UploadLock(p) ==
    /\ call[p].op = "stored"
    /\ Locks(p)
    /\ request = "pending"
    /\ Cardinality(files) < MaxFiles
    /\ Becomes(p, [op |-> "recording", file |-> call[p].file])
    /\ UNCHANGED <<assisted, requestVars, identified, evidenceVars, loginVars>>

UploadCommit(p) ==
    /\ call[p].op = "recording"
    /\ files' = files \cup {call[p].file}
    /\ Unlocks(p)
    /\ Becomes(p, [op |-> "recorded", file |-> call[p].file])
    /\ UNCHANGED <<assisted, requestVars, identified, objects, uploaded, loginVars>>

\* The row is read back after the commit, and the uploader gets its answer.
UploadAnswer(p) ==
    /\ call[p].op = "recorded"
    /\ call[p].file \in files
    /\ uploaded' = uploaded \cup {call[p].file}
    /\ Becomes(p, Idle)
    /\ UNCHANGED <<assisted, requestVars, lock, identified, files, objects, loginVars>>

\* Whatever goes wrong once the bytes are stored (refused, too many files, the
\* database gone, even after the commit), the bytes are discarded.
UploadFails(p) ==
    /\ call[p].op \in {"stored", "recording", "recorded"}
    /\ Unlocks(p)
    /\ Becomes(p, [op |-> "discarding", file |-> call[p].file])
    /\ UNCHANGED <<assisted, requestVars, identified, evidenceVars, loginVars>>

\* Slip: the request's status is not looked at.
DeleteLockAnyTime(p, f) ==
    /\ assisted
    /\ call[p] = Idle
    /\ Locks(p)
    /\ f \in files
    /\ Becomes(p, [op |-> "deleting", file |-> f])
    /\ UNCHANGED <<assisted, requestVars, identified, evidenceVars, loginVars>>

\* Slip: the bytes go first, in the transaction that will delete the row.
DeleteLockBytesFirst(p, f) ==
    /\ assisted
    /\ call[p] = Idle
    /\ Locks(p)
    /\ request = "pending"
    /\ f \in files
    /\ objects' = objects \ {f}
    /\ Becomes(p, [op |-> "deleting", file |-> f])
    /\ UNCHANGED <<assisted, requestVars, identified, files, uploaded, loginVars>>

DeleteLock(p, f) ==
    /\ assisted
    /\ call[p] = Idle
    /\ Locks(p)
    /\ request = "pending"
    /\ f \in files
    /\ Becomes(p, [op |-> "deleting", file |-> f])
    /\ UNCHANGED <<assisted, requestVars, identified, evidenceVars, loginVars>>

DeleteCommit(p) ==
    /\ call[p].op = "deleting"
    /\ files' = files \ {call[p].file}
    /\ Unlocks(p)
    /\ Becomes(p, [op |-> "discarding", file |-> call[p].file])
    /\ UNCHANGED <<assisted, requestVars, identified, objects, uploaded, loginVars>>

\* delete_object; that it may fail, unnoticed by its caller, is in Ends.
Discard(p) ==
    /\ call[p].op = "discarding"
    /\ objects' = objects \ {call[p].file}
    /\ Becomes(p, Idle)
    /\ UNCHANGED <<assisted, requestVars, lock, identified, files, uploaded, loginVars>>

-----------------------------------------------------------------------------

LoginStep(p) ==
    \/ \E l \in Logins : StartRead(p, l) \/ Claim(p, l)
    \/ StartCommit(p)
    \/ OpenRead(p)
    \/ LoginSucceeds(p)
    \/ LoginFails(p)

LifecycleStep(p) ==
    \/ \E op \in PlainOps : PlainRead(p, op)
    \/ AuthenticateCommit(p)
    \/ SubjectApproveCommit(p)
    \/ DenyCommit(p)

AssistedStep(p) ==
    \/ \E op \in LockedOps : LockedRead(p, op)
    \/ Submit(p)
    \/ Close(p, "cancel", "cancelled")
    \/ Close(p, "reject", "rejected")
    \/ StaffApprove(p)

EvidenceStep(p) ==
    \/ \E f \in Files : UploadRead(p, f) \/ DeleteLock(p, f)
    \/ UploadPut(p)
    \/ UploadLock(p)
    \/ UploadCommit(p)
    \/ UploadAnswer(p)
    \/ UploadFails(p)
    \/ DeleteCommit(p)
    \/ Discard(p)

RequestNext ==
    \/ \E l \in Logins : LoginExpires(l)
    \/ \E p \in Calls :
        LoginStep(p) \/ LifecycleStep(p) \/ AssistedStep(p)
            \/ EvidenceStep(p) \/ Ends(p)

RequestSpec == RequestInit /\ [][RequestNext]_reqVars

-----------------------------------------------------------------------------
(* Properties *)

RequestTypeOK ==
    /\ assisted \in BOOLEAN
    /\ request \in RequestStatus
    /\ lock \in Calls \cup {Nobody}
    /\ submitted \in BOOLEAN
    /\ artefacts \in Seq(Artefact)
    /\ identified \in BOOLEAN
    /\ files \subseteq Files
    /\ objects \subseteq Files
    /\ uploaded \subseteq Files
    /\ login \in [Logins -> LoginStatus]
    /\ overdue \subseteq Logins
    /\ call \in [Calls -> RequestCall]

\* A request that was submitted has its signed form on file and, where national
\* ID is enabled, a subject who logged in: whatever uploads, deletions and
\* logins were in flight when it was submitted, and ever after.
SubmittedIsBacked == submitted => FormOnFile /\ LoginSettled

\* A staff approval is of a submitted request, and its assurance says what is on
\* file to this day: the kinds of evidence and whether the subject logged in.
StaffConsentIsBacked ==
    \A i \in 1..Len(artefacts) : artefacts[i].by = "staff" =>
        /\ submitted
        /\ artefacts[i].evidence = Kinds
        /\ AuthEnabled => artefacts[i].login

\* Once a request is submitted, nobody adds or removes evidence, not even a
\* call that found it pending before.
EvidenceIsFrozen == [][submitted => files' = files]_reqVars

\* evidence_max_files_per_request bounds the rows, however uploads race.
FilesWithinLimit == Cardinality(files) <= MaxFiles

\* A file on file whose uploader was told it is stored can be downloaded: bytes
\* are written before the row and deleted after it, and a failed upload
\* discards only bytes nobody was promised.
UploadedHasBytes == uploaded \cap files \subseteq objects

\* A request that is still open, was cancelled or was rejected has produced no
\* consent. The subject's approve never takes the row lock: it relies on its
\* UPDATE waiting for the staff's and overwriting what it finds.
NoConsentUnlessDecided ==
    request \in {"pending", "pending_verification", "cancelled", "rejected"}
        => artefacts = <<>>

\* Two staff approvals of one request never both succeed, even with the row
\* lock held over the calls that each makes in between.
StaffApproveOnce ==
    \A i, j \in 1..Len(artefacts) :
        artefacts[i].by = "staff" /\ artefacts[j].by = "staff" => i = j

\* A login link is used once: at most one callback works on a session, and what
\* a callback has recorded is not changed by another.
OneCallbackPerLogin ==
    \A p, q \in Calls :
        /\ call[p].op \in {"claimed", "verifying"}
        /\ call[q].op \in {"claimed", "verifying"}
        /\ call[p].login = call[q].login
        => p = q /\ login[call[p].login] = "processing"

\* What a login call in flight relies on: a session being started is not there
\* yet and is started once, one being worked on is claimed.
LoginsInHand ==
    \A p \in Calls :
        /\ call[p].op = "starting" =>
            /\ login[call[p].login] = "none"
            /\ \A q \in Calls : call[q].op = "starting" =>
                q = p \/ call[q].login # call[p].login
        /\ call[p].op \in {"claimed", "verifying"} =>
            login[call[p].login] = "processing"

\* What a call that holds the lock relies on: what it read still stands.
LockInHand ==
    \A p \in Calls :
        /\ call[p].op \in LockedOps => lock = p /\ request \in Accepts(call[p].op)
        /\ call[p].op \in {"recording", "deleting"} => lock = p /\ request = "pending"
        /\ call[p].op = "recording" => Cardinality(files) < MaxFiles

\* What an upload or a deletion relies on: before its row is there, nobody else
\* handles the file; its bytes are there while its row is; and bytes about to
\* be discarded are of no row, or of a row nobody was promised.
FilesInHand ==
    \A p \in Calls :
        /\ call[p].op \in {"putting", "stored", "recording"} =>
            /\ call[p].file \notin files \cup uploaded
            /\ \A q \in Calls : call[q].op \in FileOps =>
                q = p \/ call[q].file # call[p].file
        /\ call[p].op \in {"stored", "recording"} => call[p].file \in objects
        /\ call[p].op = "recorded" =>
            /\ call[p].file \in files => call[p].file \in objects
            /\ call[p].file \notin uploaded
            /\ \A q \in Calls : call[q].op = "recorded" =>
                q = p \/ call[q].file # call[p].file
        /\ call[p].op = "discarding" /\ call[p].file \in files =>
            /\ call[p].file \notin uploaded
            /\ \A q \in Calls : call[q].op = "recorded" =>
                call[q].file # call[p].file

\* Together, and with what submitted_at says of the status, what makes the
\* properties above inductive.
CallsInFlightSound ==
    /\ LoginsInHand
    /\ LockInHand
    /\ FilesInHand
    /\ request = "pending" => ~submitted
    /\ request = "pending_verification" => submitted

Stage ==
    CASE request = "pending" -> "collecting"
      [] request = "pending_verification" -> "submitted"
      [] OTHER -> "decided"

Promise == INSTANCE RequestDecision WITH
    stage    <- Stage,
    evidence <- files,
    loggedIn <- LoggedIn,
    consents <- artefacts

\* Handlers that lock the row and handlers that do not, each in several steps,
\* together decide a request as if each did it in one: evidence comes and goes
\* only before the request is submitted or decided, and neither is undone.
RequestRefined == Promise!Spec

\* models/consent.py: "one artefact per approved request".
OneArtefactPerRequest == Len(artefacts) <= 1
=============================================================================
