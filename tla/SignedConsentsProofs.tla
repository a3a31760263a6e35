------------------------ MODULE SignedConsentsProofs ------------------------
(***************************************************************************)
(* What SignedConsents says of a consent that a partner signed, proved for *)
(* any number of controllers, use cases and calls.                         *)
(***************************************************************************)
EXTENDS SignedConsents, TLAPS

-----------------------------------------------------------------------------
(* Types *)

\* What the record of a call has, in each phase.
LEMMA StateFields ==
    ASSUME NEW s \in CallState
    PROVE  /\ s.phase \in {"presented", "looking", "recording", "found", "signing", "answered"}
              => s.begun \in Begun
           /\ s.phase \in {"presented", "looking", "recording"} => s.done \in SUBSET Controllers
           /\ s.phase \in {"looking", "recording"} => s.at \in Controllers /\ s.now \in Times
           /\ s.phase = "found" => s.of \in Controllers
           /\ s.phase \in {"signing", "answered"} =>
                /\ s.how \in {"presented", "lookup"}
                /\ s.grants \in SUBSET Grant /\ s.todo \in SUBSET Grant
  BY DEF CallState

LEMMA StatesTyped ==
    /\ Refused \in CallState
    /\ [phase |-> "dead"] \in CallState
    /\ \A b \in Begun, done \in SUBSET Controllers :
         [phase |-> "presented", begun |-> b, done |-> done] \in CallState
    /\ \A ph \in {"looking", "recording"}, b \in Begun, done \in SUBSET Controllers,
          c \in Controllers, now \in Times :
         [phase |-> ph, begun |-> b, done |-> done, at |-> c, now |-> now] \in CallState
    /\ \A b \in Begun, c \in Controllers :
         [phase |-> "found", begun |-> b, of |-> c] \in CallState
    /\ \A ph \in {"signing", "answered"}, how \in {"presented", "lookup"}, b \in Begun,
          grants \in SUBSET Grant, todo \in SUBSET Grant :
         [phase |-> ph, how |-> how, begun |-> b, grants |-> grants, todo |-> todo] \in CallState
  BY DEF CallState, Refused

LEMMA BeginsTyped ==
    ASSUME SignedTypeOK, NEW u \in MaybeUseCase, NEW issue \in {"tokens", "none"},
           NEW asked \in Askable
    PROVE  Begins(u, issue, asked) \in Begun
  BY DEF SignedTypeOK, Askable, Begins, Begun

LEMMA InitTyped == SignedInit => SignedTypeOK
  BY DEF SignedInit, SignedTypeOK, Times, Artefact, CallState

\* A step of a call that changes no record.
LEMMA CallMoves ==
    ASSUME SignedTypeOK, UNCHANGED records, NEW p \in Calls, NEW s \in CallState, Moves(p, s)
    PROVE  SignedTypeOK'
  BY DEF SignedTypeOK, records, Moves

LEMMA StoredDecisionTyped ==
    ASSUME SignedTypeOK, NEW p \in Calls, call[p].phase \in {"looking", "recording"}
    PROVE  /\ Permitted(p) \in CallState /\ DecisionFromArtefact(p) \in CallState
  <1>1. call[p].begun \in Begun /\ call[p].done \cup {call[p].at} \in SUBSET Controllers
    BY StateFields DEF SignedTypeOK
  <1>2. Permitted(p) \in CallState
    BY <1>1, StatesTyped DEF Permitted
  <1> QED
    BY <1>2, StatesTyped DEF DecisionFromArtefact

LEMMA SigningTyped ==
    ASSUME SignedTypeOK, NEW p \in Calls, call[p].phase \in {"presented", "found"},
           NEW how \in {"presented", "lookup"}, NEW grants \in SUBSET Grant
    PROVE  Signing(p, how, grants) \in CallState
  <1>1. call[p].begun \in Begun
    BY StateFields DEF SignedTypeOK
  <1> DEFINE todo == IF call[p].begun.issue = "tokens" THEN grants ELSE {}
  <1>2. todo \in SUBSET Grant
    OBVIOUS
  <1> HIDE DEF todo
  <1>3. [phase |-> "signing", how |-> how, begun |-> call[p].begun, grants |-> grants,
         todo |-> todo] \in CallState
    BY <1>1, <1>2, StatesTyped
  <1> QED
    BY <1>3 DEF Signing, todo

LEMMA EndsTyped ==
    ASSUME SignedTypeOK, Lapse \/ \E c \in Controllers : Revoke(c) \/ Expire(c)
    PROVE  SignedTypeOK'
  <1>1. CASE Lapse
    BY <1>1 DEF Lapse, SignedTypeOK, Times
  <1>2. ASSUME NEW c \in Controllers, Revoke(c) PROVE SignedTypeOK'
    BY <1>2 DEF Revoke, Recorded, SetStatus, SignedTypeOK, Artefact
  <1>3. ASSUME NEW c \in Controllers, Expire(c) PROVE SignedTypeOK'
    BY <1>3 DEF Expire, Recorded, SetStatus, SignedTypeOK, Artefact
  <1> QED
    BY <1>1, <1>2, <1>3

LEMMA CallStepTyped ==
    ASSUME SignedTypeOK, NEW p \in Calls, CallStep(p) PROVE SignedTypeOK'
  <1>0. call[p] \in CallState
    BY DEF SignedTypeOK
  <1>1. ASSUME NEW u \in MaybeUseCase, NEW issue \in {"tokens", "none"}, NEW asked \in Askable,
               Present(p, u, issue, asked)
        PROVE  SignedTypeOK'
    BY <1>1, BeginsTyped, StatesTyped, CallMoves DEF Present
  <1>2. ASSUME NEW u \in MaybeUseCase, NEW issue \in {"tokens", "none"}, NEW asked \in Askable,
               NEW c \in Controllers, LookUp(p, u, issue, asked, c)
        PROVE  SignedTypeOK'
    BY <1>2, BeginsTyped, StatesTyped, CallMoves DEF LookUp
  <1>3. ASSUME NEW c \in Controllers, Validate(p, c) PROVE SignedTypeOK'
    <2>1. [phase |-> "looking", begun |-> call[p].begun, done |-> call[p].done,
           at |-> c, now |-> time] \in CallState
      BY <1>0, <1>3, StateFields, StatesTyped DEF Validate, SignedTypeOK
    <2> QED
      BY <1>3, <2>1, CallMoves DEF Validate
  <1>4. ASSUME NEW grants \in SUBSET Grant, GatherGrants(p, grants) PROVE SignedTypeOK'
    BY <1>4, SigningTyped, CallMoves DEF GatherGrants
  <1>5. ASSUME NEW grant \in Grant, Issue(p, grant) PROVE SignedTypeOK'
    <2>1. [call[p] EXCEPT !.todo = call[p].todo \ {grant}] \in CallState
      BY <1>0, <1>5 DEF Issue, CallState
    <2>2. [call |-> p, controller |-> grant.controller, consent |-> grant.consent] \in Token
      BY DEF Grant, Token
    <2> QED
      BY <1>5, <2>1, <2>2 DEF Issue, Moves, SignedTypeOK
  <1>6. CASE AnswerStored(p)
    BY <1>6, StoredDecisionTyped, CallMoves DEF AnswerStored
  <1>7. CASE Evaluate(p)
    <2>1. [call[p] EXCEPT !.phase = "recording"] \in CallState
      BY <1>0, <1>7 DEF Evaluate, CallState
    <2> QED
      BY <1>7, <2>1, CallMoves DEF Evaluate
  <1>8. CASE Record(p)
    <2>1. call[p].begun \in Begun /\ call[p].at \in Controllers /\ Permitted(p) \in CallState
      BY <1>0, <1>8, StateFields, StoredDecisionTyped DEF Record
    <2>2. [useCase |-> call[p].begun.useCase, status |-> "active"] \in Artefact
      BY <2>1 DEF Begun, Artefact
    <2> QED
      BY <1>8, <2>1, <2>2 DEF Record, Moves, SignedTypeOK
  <1>9. CASE RecordedByOther(p)
    BY <1>9, StoredDecisionTyped, CallMoves DEF RecordedByOther
  <1>10. CASE Refuse(p)
    BY <1>10, StatesTyped, CallMoves DEF Refuse
  <1>11. CASE SignAll(p)
    <2>1. {[controller |-> c, consent |-> c] : c \in call[p].done} \in SUBSET Grant
      BY <1>0, <1>11, StateFields DEF SignAll, Grant
    <2> QED
      BY <1>11, <2>1, SigningTyped, CallMoves DEF SignAll
  <1>12. CASE Answer(p)
    <2>1. [call[p] EXCEPT !.phase = "answered"] \in CallState
      BY <1>0, <1>12 DEF Answer, CallState
    <2> QED
      BY <1>12, <2>1, CallMoves DEF Answer
  <1>13. CASE Die(p)
    BY <1>13, StatesTyped, CallMoves DEF Die
  <1> QED
    BY <1>1, <1>2, <1>3, <1>4, <1>5, <1>6, <1>7, <1>8, <1>9, <1>10, <1>11, <1>12, <1>13
       DEF CallStep

LEMMA StepTyped == SignedTypeOK /\ [SignedNext]_signedVars => SignedTypeOK'
  <1> SUFFICES ASSUME SignedTypeOK, [SignedNext]_signedVars PROVE SignedTypeOK'
    OBVIOUS
  <1>1. CASE UNCHANGED signedVars
    BY <1>1 DEF signedVars, SignedTypeOK
  <1> QED
    BY <1>1, EndsTyped, CallStepTyped DEF SignedNext

\* What SignedTypeOK says holds for every value of the constants.
THEOREM SignedTypeCorrect == SignedSpec => []SignedTypeOK
  BY InitTyped, StepTyped, PTL DEF SignedSpec

-----------------------------------------------------------------------------
(* The invariant. What a call has of an artefact when it moves on, it never   *)
(* reads again: the artefact stays, and stays with its use case, while its    *)
(* revocation, when later, is found by receipt_status alone.                  *)

ArtefactsSound ==
    \A c \in Controllers :
        /\ c \in withdrawn => Recorded(c) /\ artefact[c].status \in {"revoked", "expired"}
        /\ Recorded(c) /\ c \notin withdrawn /\ time = "valid" => artefact[c].status = "active"

\* The controllers of which the call is sure.
Sure(c, s, art) == art[c] # NoArtefact /\ c \notin s.begun.before

\* State s of call p is sound with these records.
StateSound(p, s, art, gone, toks) ==
    /\ s.phase \notin {"new", "refused", "dead"} => s.begun.before \subseteq gone
    /\ s.phase \in {"presented", "looking", "recording"} => \A c \in s.done : Sure(c, s, art)
    /\ s.phase = "found" => art[s.of] # NoArtefact /\ art[s.of].useCase = s.begun.useCase
    /\ s.phase \in {"signing", "answered"} =>
        /\ s.todo \subseteq s.grants
        /\ \A g \in s.grants :
            /\ g.consent = g.controller /\ Sure(g.controller, s, art)
            /\ s.how = "lookup" => art[g.controller].useCase = s.begun.useCase
            /\ s.begun.issue = "tokens" /\ g \notin s.todo =>
                [call |-> p, controller |-> g.controller, consent |-> g.consent] \in toks
        /\ s.how = "presented" => {g.controller : g \in s.grants} = s.begun.asked
    /\ s.phase = "answered" => s.todo = {}

TokenSound(t) ==
    /\ t.consent = t.controller /\ Recorded(t.controller)
    /\ call[t.call].phase \in {"signing", "answered", "dead"}
    /\ call[t.call].phase # "dead" => \E g \in call[t.call].grants : g.controller = t.controller

CallSound(p) == StateSound(p, call[p], artefact, withdrawn, tokens)

SignedIInv ==
    /\ SignedTypeOK
    /\ ArtefactsSound
    /\ \A p \in Calls : CallSound(p)
    /\ \A t \in tokens : TokenSound(t)

\* What no step undoes.
RecordsGrow ==
    /\ withdrawn \subseteq withdrawn' /\ tokens \subseteq tokens'
    /\ \A c \in Controllers : Recorded(c) =>
        artefact'[c] # NoArtefact /\ artefact'[c].useCase = artefact[c].useCase

LEMMA SureStays ==
    ASSUME RecordsGrow, NEW c \in Controllers, NEW s, Sure(c, s, artefact)
    PROVE  Sure(c, s, artefact')
  BY DEF RecordsGrow, Sure, Recorded

LEMMA StateStays ==
    ASSUME RecordsGrow, NEW p \in Calls, NEW s \in CallState,
           StateSound(p, s, artefact, withdrawn, tokens)
    PROVE  StateSound(p, s, artefact', withdrawn', tokens')
  <1>1. s.phase \in {"presented", "looking", "recording"}
          => \A c \in s.done : Sure(c, s, artefact')
    BY StateFields, SureStays DEF StateSound
  <1>2. s.phase = "found"
          => artefact'[s.of] # NoArtefact /\ artefact'[s.of].useCase = s.begun.useCase
    BY StateFields DEF StateSound, RecordsGrow, Recorded
  <1>3. ASSUME s.phase \in {"signing", "answered"}, NEW g \in s.grants
        PROVE  /\ g.consent = g.controller /\ Sure(g.controller, s, artefact')
               /\ s.how = "lookup" => artefact'[g.controller].useCase = s.begun.useCase
               /\ s.begun.issue = "tokens" /\ g \notin s.todo =>
                [call |-> p, controller |-> g.controller, consent |-> g.consent] \in tokens'
    <2>1. g.controller \in Controllers
      BY <1>3, StateFields DEF Grant
    <2>2. g.consent = g.controller /\ Sure(g.controller, s, artefact)
      BY <1>3 DEF StateSound
    <2>3. artefact'[g.controller].useCase = artefact[g.controller].useCase
      BY <2>1, <2>2 DEF Sure, RecordsGrow, Recorded
    <2>4. s.how = "lookup" => artefact[g.controller].useCase = s.begun.useCase
      BY <1>3 DEF StateSound
    <2>5. s.begun.issue = "tokens" /\ g \notin s.todo =>
                [call |-> p, controller |-> g.controller, consent |-> g.consent] \in tokens
      BY <1>3 DEF StateSound
    <2> QED
      BY <2>1, <2>2, <2>3, <2>4, <2>5, SureStays DEF RecordsGrow
  <1>4. s.phase \notin {"new", "refused", "dead"} => s.begun.before \subseteq withdrawn'
    BY DEF StateSound, RecordsGrow
  <1> QED
    BY <1>1, <1>2, <1>3, <1>4 DEF StateSound

\* The end of the consent, or of an artefact, disturbs no call.
LEMMA RecordsMove ==
    ASSUME SignedIInv, SignedTypeOK', RecordsGrow, ArtefactsSound', UNCHANGED <<call, tokens>>
    PROVE  SignedIInv'
  <1>1. ASSUME NEW p \in Calls PROVE CallSound(p)'
    BY StateStays DEF SignedIInv, SignedTypeOK, CallSound
  <1>2. ASSUME NEW t \in tokens PROVE TokenSound(t)'
    BY DEF SignedIInv, SignedTypeOK, Token, TokenSound, RecordsGrow, Recorded
  <1> QED
    BY <1>1, <1>2 DEF SignedIInv

LEMMA LapseSound == ASSUME SignedIInv, Lapse PROVE SignedIInv'
  <1>1. SignedTypeOK' /\ UNCHANGED <<call, tokens>>
    BY EndsTyped DEF SignedIInv, Lapse
  <1>2. RecordsGrow
    BY DEF Lapse, RecordsGrow, Recorded
  <1>3. ArtefactsSound'
    BY DEF Lapse, SignedIInv, ArtefactsSound, Recorded
  <1> QED
    BY <1>1, <1>2, <1>3, RecordsMove

\* What becomes of an artefact whose status is set.
LEMMA StatusSet ==
    ASSUME SignedTypeOK, NEW c \in Controllers, Recorded(c), NEW status, SetStatus(c, status)
    PROVE  /\ artefact'[c] = [artefact[c] EXCEPT !.status = status]
           /\ artefact'[c].status = status
           /\ \A d \in Controllers : d # c => artefact'[d] = artefact[d]
           /\ \A d \in Controllers : artefact[d] # NoArtefact =>
                artefact'[d].useCase = artefact[d].useCase
  BY DEF SignedTypeOK, Recorded, SetStatus, Artefact

LEMMA RevokeSound == ASSUME SignedIInv, NEW c \in Controllers, Revoke(c) PROVE SignedIInv'
  <1>1. SignedTypeOK /\ SignedTypeOK' /\ UNCHANGED <<call, tokens>>
    BY EndsTyped DEF SignedIInv, Revoke
  <1>2. /\ artefact'[c].status = "revoked"
        /\ \A d \in Controllers : d # c => artefact'[d] = artefact[d]
        /\ \A d \in Controllers : artefact[d] # NoArtefact =>
             artefact'[d].useCase = artefact[d].useCase
    BY <1>1, StatusSet DEF Revoke
  <1>3. artefact'[c] # NoArtefact
    BY <1>1, StatusSet, SignedAssumption DEF Revoke, SignedTypeOK, Recorded, Artefact
  <1>4. RecordsGrow
    BY <1>2, <1>3 DEF Revoke, RecordsGrow, Recorded
  <1>5. ArtefactsSound'
    BY <1>1, <1>2, <1>3 DEF Revoke, SignedIInv, ArtefactsSound, Recorded
  <1> QED
    BY <1>1, <1>4, <1>5, RecordsMove

LEMMA ExpireSound == ASSUME SignedIInv, NEW c \in Controllers, Expire(c) PROVE SignedIInv'
  <1>1. SignedTypeOK /\ SignedTypeOK' /\ UNCHANGED <<call, tokens>>
    BY EndsTyped DEF SignedIInv, Expire
  <1>2. /\ artefact'[c].status = "expired" /\ time' = "over"
        /\ \A d \in Controllers : d # c => artefact'[d] = artefact[d]
        /\ \A d \in Controllers : artefact[d] # NoArtefact =>
             artefact'[d].useCase = artefact[d].useCase
    BY <1>1, StatusSet DEF Expire
  <1>3. artefact'[c] # NoArtefact
    BY <1>1, StatusSet, SignedAssumption DEF Expire, SignedTypeOK, Recorded, Artefact
  <1>4. RecordsGrow
    BY <1>2, <1>3 DEF Expire, RecordsGrow, Recorded
  <1>5. ArtefactsSound'
    BY <1>1, <1>2, <1>3 DEF Expire, SignedIInv, ArtefactsSound, Recorded
  <1> QED
    BY <1>1, <1>4, <1>5, RecordsMove

-----------------------------------------------------------------------------
(* The steps of a call *)

\* A step of a call that changes no record: a call that has issued tokens keeps
\* its grants, or dies.
LEMMA CallMovesSound ==
    ASSUME SignedIInv, UNCHANGED records, NEW p \in Calls, NEW s \in CallState, Moves(p, s),
           StateSound(p, s, artefact, withdrawn, tokens),
           call[p].phase \notin {"answered", "dead"},
           call[p].phase = "signing" =>
             s.phase = "dead" \/ (s.phase = "answered" /\ s.grants = call[p].grants)
    PROVE  SignedIInv'
  <1>1. SignedTypeOK /\ SignedTypeOK'
    BY CallMoves DEF SignedIInv
  <1>2. /\ time' = time /\ artefact' = artefact /\ withdrawn' = withdrawn /\ tokens' = tokens
        /\ \A q \in Calls : call'[q] = IF q = p THEN s ELSE call[q]
    BY <1>1 DEF records, Moves, SignedTypeOK
  <1>3. ArtefactsSound'
    BY <1>2 DEF SignedIInv, ArtefactsSound, Recorded
  <1>4. ASSUME NEW q \in Calls PROVE CallSound(q)'
    BY <1>2 DEF SignedIInv, CallSound
  <1>5. ASSUME NEW t \in tokens PROVE TokenSound(t)'
    <2>1. TokenSound(t) /\ t.call \in Calls
      BY <1>1 DEF SignedIInv, SignedTypeOK, Token
    <2>2. CASE t.call # p
      BY <1>2, <2>1, <2>2 DEF TokenSound, Recorded
    <2>3. CASE t.call = p
      <3>1. call[p].phase = "signing"
        BY <2>1, <2>3 DEF TokenSound
      <3> QED
        BY <1>2, <2>1, <2>3, <3>1 DEF TokenSound, Recorded
    <2> QED
      BY <2>2, <2>3
  <1> QED
    BY <1>1, <1>2, <1>3, <1>4, <1>5 DEF SignedIInv

\* A call about which nothing is claimed.
LEMMA EndedSound ==
    ASSUME NEW p, NEW s, s.phase \in {"new", "refused", "dead"}
    PROVE  StateSound(p, s, artefact, withdrawn, tokens)
  BY DEF StateSound

LEMMA BeginsSound ==
    ASSUME SignedIInv, NEW p \in Calls, NEW u \in MaybeUseCase, NEW issue \in {"tokens", "none"},
           NEW asked \in Askable,
           Present(p, u, issue, asked) \/ \E c \in Controllers : LookUp(p, u, issue, asked, c)
    PROVE  SignedIInv'
  <1>1. Begins(u, issue, asked) \in Begun /\ Begins(u, issue, asked).before = withdrawn
        /\ Begins(u, issue, asked).useCase = u
    BY BeginsTyped DEF SignedIInv, Begins
  <1>2. CASE Present(p, u, issue, asked)
    <2> DEFINE s == [phase |-> "presented", begun |-> Begins(u, issue, asked), done |-> {}]
    <2>1. s \in CallState
      BY <1>1, StatesTyped
    <2>2. StateSound(p, s, artefact, withdrawn, tokens)
      BY <1>1 DEF StateSound
    <2>3. Moves(p, s) /\ UNCHANGED records /\ call[p].phase = "new"
      BY <1>2 DEF Present
    <2> HIDE DEF s
    <2> QED
      BY <2>1, <2>2, <2>3, CallMovesSound
  <1>3. ASSUME NEW c \in Controllers, LookUp(p, u, issue, asked, c) PROVE SignedIInv'
    <2> DEFINE s == [phase |-> "found", begun |-> Begins(u, issue, asked), of |-> c]
    <2>1. s \in CallState
      BY <1>1, StatesTyped
    <2>2. StateSound(p, s, artefact, withdrawn, tokens)
      BY <1>1, <1>3 DEF StateSound, LookUp, Recorded
    <2>3. Moves(p, s) /\ UNCHANGED records /\ call[p].phase = "new"
      BY <1>3 DEF LookUp
    <2> HIDE DEF s
    <2> QED
      BY <2>1, <2>2, <2>3, CallMovesSound
  <1> QED
    BY <1>2, <1>3

LEMMA ValidateSound ==
    ASSUME SignedIInv, NEW p \in Calls, NEW c \in Controllers, Validate(p, c) PROVE SignedIInv'
  <1> DEFINE s == [phase |-> "looking", begun |-> call[p].begun, done |-> call[p].done,
                   at |-> c, now |-> time]
  <1>1. s \in CallState
    BY StateFields, StatesTyped DEF Validate, SignedIInv, SignedTypeOK
  <1>2. StateSound(p, s, artefact, withdrawn, tokens)
    BY DEF Validate, SignedIInv, CallSound, StateSound, Sure
  <1>3. Moves(p, s) /\ UNCHANGED records /\ call[p].phase = "presented"
    BY DEF Validate
  <1> HIDE DEF s
  <1> QED
    BY <1>1, <1>2, <1>3, CallMovesSound

\* The controller that is looked at, is done.
LEMMA PermittedSound ==
    ASSUME SignedIInv, NEW p \in Calls, call[p].phase \in {"looking", "recording"},
           NEW art, Sure(call[p].at, call[p], art),
           \A c \in call[p].done : Sure(c, call[p], art)
    PROVE  StateSound(p, Permitted(p), art, withdrawn, tokens)
  BY DEF SignedIInv, CallSound, StateSound, Permitted, Sure

LEMMA StoredSound ==
    ASSUME SignedIInv, NEW p \in Calls, AnswerStored(p) \/ RecordedByOther(p)
    PROVE  SignedIInv'
  <1>1. /\ call[p].phase \in {"looking", "recording"} /\ Recorded(call[p].at)
        /\ UNCHANGED records /\ Moves(p, DecisionFromArtefact(p))
    BY DEF AnswerStored, RecordedByOther
  <1>2. DecisionFromArtefact(p) \in CallState
    BY <1>1, StoredDecisionTyped DEF SignedIInv
  <1>3. StateSound(p, DecisionFromArtefact(p), artefact, withdrawn, tokens)
    <2>1. CASE DecisionFromArtefact(p) = Refused
      BY <2>1, EndedSound DEF Refused
    <2>2. CASE DecisionFromArtefact(p) # Refused
      <3>1. DecisionFromArtefact(p) = Permitted(p) /\ artefact[call[p].at].status = "active"
        BY <2>2 DEF DecisionFromArtefact
      <3>0. call[p].at \in Controllers
        BY <1>1, StateFields DEF SignedIInv, SignedTypeOK
      <3>2. call[p].at \notin withdrawn /\ call[p].begun.before \subseteq withdrawn
        BY <1>1, <3>0, <3>1 DEF SignedIInv, ArtefactsSound, CallSound, StateSound
      <3>3. Sure(call[p].at, call[p], artefact)
            /\ \A c \in call[p].done : Sure(c, call[p], artefact)
        BY <1>1, <3>2 DEF Sure, Recorded, SignedIInv, CallSound, StateSound
      <3> QED
        BY <1>1, <3>1, <3>3, PermittedSound
    <2> QED
      BY <2>1, <2>2
  <1> QED
    BY <1>1, <1>2, <1>3, CallMovesSound

LEMMA EvaluateSound ==
    ASSUME SignedIInv, NEW p \in Calls, Evaluate(p) PROVE SignedIInv'
  <1> DEFINE s == [call[p] EXCEPT !.phase = "recording"]
  <1>1. call[p] \in CallState /\ call[p].phase = "looking"
        /\ Moves(p, s) /\ UNCHANGED records
    BY DEF SignedIInv, SignedTypeOK, Evaluate
  <1>2. s \in CallState /\ s.phase = "recording" /\ s.begun = call[p].begun
        /\ s.done = call[p].done
    BY <1>1 DEF CallState
  <1>3. StateSound(p, s, artefact, withdrawn, tokens)
    BY <1>1, <1>2 DEF SignedIInv, CallSound, StateSound, Sure
  <1> HIDE DEF s
  <1> QED
    BY <1>1, <1>2, <1>3, CallMovesSound

LEMMA GatherSound ==
    ASSUME SignedIInv, NEW p \in Calls, NEW grants \in SUBSET Grant, GatherGrants(p, grants)
    PROVE  SignedIInv'
  <1>1. /\ call[p] \in CallState /\ call[p].phase = "found" /\ UNCHANGED records
        /\ Moves(p, Signing(p, "lookup", grants))
    BY DEF GatherGrants, SignedIInv, SignedTypeOK
  <1>2. Signing(p, "lookup", grants) \in CallState
    BY <1>1, SigningTyped DEF SignedIInv
  <1>3. /\ call[p].begun.before \subseteq withdrawn
        /\ artefact[call[p].of].useCase = call[p].begun.useCase
    BY <1>1 DEF SignedIInv, CallSound, StateSound
  <1>4. ASSUME NEW g \in grants
        PROVE  /\ g.consent = g.controller /\ g.controller \in Controllers
               /\ artefact[g.controller] # NoArtefact
               /\ artefact[g.controller].useCase = call[p].begun.useCase
               /\ g.controller \notin withdrawn
    <2>1. PICK d \in call[p].begun.asked :
            /\ g = [controller |-> d, consent |-> d] /\ Recorded(d)
            /\ artefact[d].useCase = artefact[call[p].of].useCase
            /\ artefact[d].status = "active"
      BY DEF GatherGrants, StoredGrants
    <2>2. g.controller = d /\ g.consent = d /\ d \in Controllers
      BY <2>1 DEF Grant
    <2> QED
      BY <1>3, <2>1, <2>2 DEF Recorded, SignedIInv, ArtefactsSound
  <1> DEFINE s == Signing(p, "lookup", grants)
  <1>5. /\ s.phase = "signing" /\ s.how = "lookup" /\ s.begun = call[p].begun /\ s.grants = grants
        /\ s.todo \subseteq grants /\ (s.begun.issue = "tokens" => s.todo = grants)
    BY DEF Signing
  <1> HIDE DEF s
  <1>6. StateSound(p, s, artefact, withdrawn, tokens)
    BY <1>3, <1>4, <1>5 DEF StateSound, Sure
  <1> QED
    BY <1>1, <1>2, <1>6, CallMovesSound DEF s

LEMMA SignAllSound ==
    ASSUME SignedIInv, NEW p \in Calls, SignAll(p) PROVE SignedIInv'
  <1> DEFINE grants == {[controller |-> c, consent |-> c] : c \in call[p].done}
             s == Signing(p, "presented", grants)
  <1>1. /\ call[p] \in CallState /\ call[p].phase = "presented" /\ UNCHANGED records
        /\ Moves(p, s) /\ call[p].done = call[p].begun.asked
    BY DEF SignAll, SignedIInv, SignedTypeOK
  <1>2. grants \in SUBSET Grant
    BY <1>1, StateFields DEF Grant
  <1>3. s \in CallState
    BY <1>1, <1>2, SigningTyped DEF SignedIInv
  <1>4. /\ call[p].begun.before \subseteq withdrawn
        /\ \A c \in call[p].done : Sure(c, call[p], artefact)
    BY <1>1 DEF SignedIInv, CallSound, StateSound
  <1>a. \A g \in grants : g.consent = g.controller /\ g.controller \in call[p].done
    OBVIOUS
  <1>b. ASSUME NEW c \in call[p].done PROVE \E g \in grants : g.controller = c
    <2>1. [controller |-> c, consent |-> c] \in grants
      OBVIOUS
    <2> QED
      BY <2>1
  <1> HIDE DEF grants
  <1>5. /\ \A g \in grants : g.consent = g.controller /\ g.controller \in call[p].done
        /\ {g.controller : g \in grants} = call[p].done
    BY <1>a, <1>b
  <1>6. /\ s.phase = "signing" /\ s.how = "presented" /\ s.begun = call[p].begun
        /\ s.grants = grants
        /\ s.todo \subseteq grants /\ (s.begun.issue = "tokens" => s.todo = grants)
    BY DEF Signing
  <1> HIDE DEF s
  <1>7. StateSound(p, s, artefact, withdrawn, tokens)
    BY <1>1, <1>4, <1>5, <1>6 DEF StateSound, Sure
  <1> QED
    BY <1>1, <1>3, <1>7, CallMovesSound

LEMMA AnswerSound ==
    ASSUME SignedIInv, NEW p \in Calls, Answer(p) PROVE SignedIInv'
  <1> DEFINE s == [call[p] EXCEPT !.phase = "answered"]
  <1>1. call[p] \in CallState /\ call[p].phase = "signing" /\ call[p].todo = {}
        /\ Moves(p, s) /\ UNCHANGED records
    BY DEF SignedIInv, SignedTypeOK, Answer
  <1>2. s \in CallState /\ s.phase = "answered" /\ s.begun = call[p].begun
        /\ s.grants = call[p].grants /\ s.todo = call[p].todo /\ s.how = call[p].how
    BY <1>1 DEF CallState
  <1>3. StateSound(p, s, artefact, withdrawn, tokens)
    BY <1>1, <1>2 DEF SignedIInv, CallSound, StateSound, Sure
  <1> HIDE DEF s
  <1> QED
    BY <1>1, <1>2, <1>3, CallMovesSound

\* Calls that do not move when a record is written.
LEMMA RecordSound == ASSUME SignedIInv, NEW p \in Calls, Record(p) PROVE SignedIInv'
  <1> DEFINE c == call[p].at
  <1>0. SignedTypeOK /\ SignedTypeOK'
    <2>1. CallStep(p)
      BY DEF CallStep
    <2> QED
      BY <2>1, CallStepTyped DEF SignedIInv
  <1>1. /\ call[p].phase = "recording" /\ c \in Controllers /\ ~Recorded(c)
        /\ time' = time /\ withdrawn' = withdrawn /\ tokens' = tokens
        /\ \A q \in Calls : call'[q] = IF q = p THEN Permitted(p) ELSE call[q]
    BY <1>0, StateFields DEF Record, Moves, SignedTypeOK
  <1>2. /\ artefact'[c] = [useCase |-> call[p].begun.useCase, status |-> "active"]
        /\ \A d \in Controllers : d # c => artefact'[d] = artefact[d]
    BY <1>0, <1>1 DEF Record, SignedTypeOK
  <1>3. artefact'[c] # NoArtefact /\ artefact'[c].status = "active"
    <2>1. artefact'[c] \in Artefact
      BY <1>0, <1>1, <1>2, StateFields DEF SignedTypeOK, Begun, Artefact
    <2> QED
      BY <1>2, <2>1, SignedAssumption
  <1>4. RecordsGrow
    BY <1>1, <1>2 DEF RecordsGrow, Recorded
  <1>5. ArtefactsSound'
    BY <1>1, <1>2, <1>3 DEF SignedIInv, ArtefactsSound, Recorded
  <1>6. CallSound(p)'
    <2>1. call[p].begun.before \subseteq withdrawn
          /\ \A d \in call[p].done : Sure(d, call[p], artefact)
      BY <1>1 DEF SignedIInv, CallSound, StateSound
    <2>2. c \notin withdrawn
      BY <1>1 DEF SignedIInv, ArtefactsSound
    <2>3. \A d \in call[p].done : Sure(d, call[p], artefact')
      BY <1>0, <1>1, <1>4, <2>1, SureStays, StateFields DEF SignedTypeOK
    <2>4. Sure(c, call[p], artefact')
      BY <1>3, <2>1, <2>2 DEF Sure
    <2>5. StateSound(p, Permitted(p), artefact', withdrawn, tokens)
      BY <1>1, <2>3, <2>4, PermittedSound
    <2> QED
      BY <1>1, <2>5 DEF CallSound
  <1>7. ASSUME NEW q \in Calls, q # p PROVE CallSound(q)'
    <2>1. call[q] \in CallState /\ call'[q] = call[q]
      BY <1>0, <1>1, <1>7 DEF SignedTypeOK
    <2> QED
      BY <1>4, <2>1, StateStays DEF SignedIInv, CallSound
  <1>8. ASSUME NEW t \in tokens PROVE TokenSound(t)'
    <2>1. TokenSound(t) /\ t.call \in Calls /\ t.controller \in Controllers
      BY <1>0 DEF SignedIInv, SignedTypeOK, Token
    <2>2. t.call # p
      BY <1>1, <2>1 DEF TokenSound
    <2> QED
      BY <1>1, <1>4, <2>1, <2>2 DEF TokenSound, RecordsGrow, Recorded
  <1> QED
    BY <1>0, <1>1, <1>5, <1>6, <1>7, <1>8 DEF SignedIInv

LEMMA IssueSound ==
    ASSUME SignedIInv, NEW p \in Calls, NEW grant \in Grant, Issue(p, grant) PROVE SignedIInv'
  <1> DEFINE s == [call[p] EXCEPT !.todo = call[p].todo \ {grant}]
             token == [call |-> p, controller |-> grant.controller, consent |-> grant.consent]
  <1>0. SignedTypeOK /\ SignedTypeOK' /\ call[p] \in CallState /\ token \in Token
    <2>1. CallStep(p)
      BY DEF CallStep
    <2> QED
      BY <2>1, CallStepTyped DEF SignedIInv, SignedTypeOK, Grant, Token
  <1>1. /\ call[p].phase = "signing" /\ grant \in call[p].todo
        /\ time' = time /\ withdrawn' = withdrawn /\ artefact' = artefact
        /\ tokens' = tokens \cup {token}
        /\ \A q \in Calls : call'[q] = IF q = p THEN s ELSE call[q]
    BY <1>0 DEF Issue, Moves, SignedTypeOK
  <1>2. s \in CallState /\ s.phase = "signing" /\ s.begun = call[p].begun
        /\ s.grants = call[p].grants /\ s.todo = call[p].todo \ {grant} /\ s.how = call[p].how
    BY <1>0, <1>1 DEF CallState
  <1>3. RecordsGrow /\ ArtefactsSound'
    BY <1>1 DEF RecordsGrow, Recorded, SignedIInv, ArtefactsSound
  <1>4. /\ token.call = p /\ token.controller = grant.controller
        /\ token.consent = grant.consent
    OBVIOUS
  <1>5. /\ call[p].todo \subseteq call[p].grants
        /\ \A g \in call[p].grants :
            /\ g.consent = g.controller /\ Sure(g.controller, call[p], artefact)
            /\ call[p].how = "lookup" =>
                artefact[g.controller].useCase = call[p].begun.useCase
            /\ call[p].begun.issue = "tokens" /\ g \notin call[p].todo =>
                [call |-> p, controller |-> g.controller, consent |-> g.consent] \in tokens
        /\ call[p].how = "presented" =>
            {g.controller : g \in call[p].grants} = call[p].begun.asked
        /\ call[p].begun.before \subseteq withdrawn
    BY <1>1 DEF SignedIInv, CallSound, StateSound
  <1>6. \A g \in call[p].grants : call[p].begun.issue = "tokens" /\ g \notin s.todo =>
          [call |-> p, controller |-> g.controller, consent |-> g.consent]
            \in tokens \cup {token}
    BY <1>2, <1>5
  <1> HIDE DEF s, token
  <1>7. StateSound(p, s, artefact, withdrawn, tokens \cup {token})
    BY <1>2, <1>5, <1>6 DEF StateSound, Sure
  <1>8. ASSUME NEW q \in Calls PROVE CallSound(q)'
    <2>1. CASE q = p
      BY <1>1, <1>7, <2>1 DEF CallSound
    <2>2. CASE q # p
      <3>1. call[q] \in CallState /\ call'[q] = call[q]
        BY <1>0, <1>1, <2>2 DEF SignedTypeOK
      <3> QED
        BY <1>3, <3>1, StateStays DEF SignedIInv, CallSound
    <2> QED
      BY <2>1, <2>2
  <1>9. ASSUME NEW t \in tokens' PROVE TokenSound(t)'
    <2>1. CASE t \in tokens
      <3>1. TokenSound(t) /\ t.call \in Calls
        BY <1>0, <2>1 DEF SignedIInv, SignedTypeOK, Token
      <3> QED
        BY <1>1, <1>2, <3>1 DEF TokenSound, Recorded
    <2>2. CASE t = token
      <3>1. grant \in call[p].grants
        BY <1>1, <1>5
      <3>2. /\ grant.consent = grant.controller
            /\ artefact[grant.controller] # NoArtefact
        BY <1>5, <3>1 DEF Sure
      <3>3. /\ t.call = p /\ t.controller = grant.controller
            /\ t.consent = t.controller
        BY <1>4, <2>2, <3>2
      <3>4. Recorded(t.controller)'
        BY <1>1, <3>2, <3>3 DEF Recorded
      <3>5. call'[t.call] = s
        BY <1>1, <3>3
      <3>6. \E g \in s.grants : g.controller = t.controller
        BY <1>2, <3>1, <3>3
      <3> QED
        BY <1>2, <3>3, <3>4, <3>5, <3>6 DEF TokenSound
    <2> QED
      BY <1>1, <2>1, <2>2
  <1> QED
    BY <1>0, <1>3, <1>8, <1>9 DEF SignedIInv

LEMMA CallStepSound == ASSUME SignedIInv, NEW p \in Calls, CallStep(p) PROVE SignedIInv'
  <1>1. CASE Refuse(p)
    <2>1. call[p].phase \in {"looking", "found"} /\ Moves(p, Refused) /\ UNCHANGED records
      BY <1>1 DEF Refuse
    <2>2. StateSound(p, Refused, artefact, withdrawn, tokens)
      BY EndedSound DEF Refused
    <2> QED
      BY <2>1, <2>2, StatesTyped, CallMovesSound
  <1>2. CASE Die(p)
    <2> DEFINE dead == [phase |-> "dead"]
    <2>1. /\ call[p].phase \notin {"answered", "dead"} /\ Moves(p, dead) /\ UNCHANGED records
          /\ dead \in CallState /\ dead.phase = "dead"
      BY <1>2, StatesTyped DEF Die
    <2> HIDE DEF dead
    <2>2. StateSound(p, dead, artefact, withdrawn, tokens)
      BY <2>1, EndedSound
    <2> QED
      BY <2>1, <2>2, CallMovesSound
  <1> QED
    BY <1>1, <1>2, BeginsSound, ValidateSound, StoredSound, EvaluateSound, RecordSound,
       GatherSound, SignAllSound, IssueSound, AnswerSound DEF CallStep

-----------------------------------------------------------------------------
(* The theorems *)

LEMMA InitSound == SignedInit => SignedIInv
  <1> SUFFICES ASSUME SignedInit PROVE SignedIInv
    OBVIOUS
  <1>1. SignedTypeOK /\ tokens = {}
    BY InitTyped DEF SignedInit
  <1>2. ArtefactsSound
    BY DEF SignedInit, ArtefactsSound, Recorded
  <1>3. ASSUME NEW p \in Calls PROVE CallSound(p)
    BY EndedSound DEF SignedInit, CallSound
  <1> QED
    BY <1>1, <1>2, <1>3 DEF SignedIInv

LEMMA StepSound == SignedIInv /\ [SignedNext]_signedVars => SignedIInv'
  <1> SUFFICES ASSUME SignedIInv, [SignedNext]_signedVars PROVE SignedIInv'
    OBVIOUS
  <1>1. CASE UNCHANGED signedVars
    <2>1. RecordsGrow /\ ArtefactsSound' /\ SignedTypeOK'
      BY <1>1, StepTyped DEF signedVars, SignedIInv, RecordsGrow, ArtefactsSound, Recorded
    <2> QED
      BY <1>1, <2>1, RecordsMove DEF signedVars
  <1> QED
    BY <1>1, LapseSound, RevokeSound, ExpireSound, CallStepSound DEF SignedNext

LEMMA AlwaysSound == SignedSpec => []SignedIInv
  BY InitSound, StepSound, PTL DEF SignedSpec

\* Revoking a controller's artefact ends its tokens, and no others.
THEOREM RevocationReachesItsTokensCorrect == SignedSpec => []RevocationReachesItsTokens
  <1>1. ASSUME SignedIInv, NEW token \in tokens
        PROVE  ReceiptStatus(token) = "active"
                 <=> token.controller \notin withdrawn /\ time = "valid"
    <2>1. token.controller \in Controllers /\ TokenSound(token) /\ time \in Times
      BY <1>1 DEF SignedIInv, SignedTypeOK, Token
    <2> QED
      BY <1>1, <2>1 DEF SignedIInv, TokenSound, ArtefactsSound, ReceiptStatus, Times
  <1>2. SignedIInv => RevocationReachesItsTokens
    BY <1>1 DEF RevocationReachesItsTokens
  <1> QED
    BY <1>2, AlwaysSound, PTL

\* No token for a controller whose artefact was revoked before the call.
THEOREM NoTokenAfterRevocationCorrect == SignedSpec => []NoTokenAfterRevocation
  <1>1. ASSUME SignedIInv, NEW token \in tokens, call[token.call].phase # "dead"
        PROVE  token.controller \notin call[token.call].begun.before
    <2>1. TokenSound(token) /\ CallSound(token.call)
      BY <1>1 DEF SignedIInv, SignedTypeOK, Token
    <2> QED
      BY <1>1, <2>1 DEF TokenSound, CallSound, StateSound, Sure
  <1>2. SignedIInv => NoTokenAfterRevocation
    BY <1>1 DEF NoTokenAfterRevocation
  <1> QED
    BY <1>2, AlwaysSound, PTL

\* A call has issued a token for all of its controllers, or for none.
THEOREM TokensForAllOrNoneCorrect == SignedSpec => []TokensForAllOrNone
  <1>1. ASSUME SignedIInv, NEW p \in Calls,
               call[p].phase \notin {"signing", "answered", "dead"}
        PROVE  TokensOf(p) = {}
    BY <1>1 DEF SignedIInv, TokenSound, TokensOf
  <1>2. ASSUME SignedIInv, NEW p \in Calls, call[p].phase = "answered",
               call[p].begun.issue = "tokens"
        PROVE  /\ TokensOf(p) = {g.controller : g \in call[p].grants}
               /\ call[p].how = "presented" => TokensOf(p) = call[p].begun.asked
    <2>1. ASSUME NEW g \in call[p].grants PROVE g.controller \in TokensOf(p)
      <3>1. [call |-> p, controller |-> g.controller, consent |-> g.consent] \in tokens
        BY <1>2 DEF SignedIInv, CallSound, StateSound
      <3> QED
        BY <3>1 DEF TokensOf
    <2>2. ASSUME NEW c \in TokensOf(p) PROVE \E g \in call[p].grants : g.controller = c
      <3>1. PICK t \in tokens : t.call = p /\ t.controller = c
        BY DEF TokensOf
      <3> QED
        BY <1>2, <3>1 DEF SignedIInv, TokenSound
    <2>3. TokensOf(p) = {g.controller : g \in call[p].grants}
      BY <2>1, <2>2
    <2> QED
      BY <1>2, <2>3 DEF SignedIInv, CallSound, StateSound
  <1>3. SignedIInv => TokensForAllOrNone
    BY <1>1, <1>2 DEF TokensForAllOrNone
  <1> QED
    BY <1>3, AlwaysSound, PTL

\* A lookup gives nothing that was recorded for another use case.
THEOREM LookupKeepsUseCaseCorrect == SignedSpec => []LookupKeepsUseCase
  <1>1. SignedIInv => LookupKeepsUseCase
    BY DEF SignedIInv, CallSound, StateSound, LookupKeepsUseCase
  <1> QED
    BY <1>1, AlwaysSound, PTL

-----------------------------------------------------------------------------
(* Refinement: for each controller the calls implement ConsentDecision, which *)
(* is what PresentedConsents implements for a consent to one controller.      *)

\* What a call relies on between the steps of validate for one controller.
BetweenSteps ==
    \A p \in Calls : call[p].phase \in {"looking", "recording"} =>
        /\ call[p].at \notin call[p].done
        /\ time = "valid" \/ call[p].phase = "recording" => call[p].now = "valid"

LEMMA BetweenStepsStay ==
    ASSUME SignedTypeOK, BetweenSteps, [SignedNext]_signedVars
    PROVE  BetweenSteps'
  <1>1. CASE UNCHANGED signedVars \/ Lapse \/ \E c \in Controllers : Revoke(c) \/ Expire(c)
    BY <1>1 DEF signedVars, Lapse, Revoke, Expire, BetweenSteps, SignedTypeOK, Times
  <1>2. ASSUME NEW p \in Calls, CallStep(p) PROVE BetweenSteps'
    <2>1. PICK s : Moves(p, s)
      BY <1>2
      DEF CallStep, Present, LookUp, Validate, GatherGrants, Issue, AnswerStored, Evaluate,
          Record, RecordedByOther, Refuse, SignAll, Answer, Die
    <2>2. time' = time
      BY <1>2
      DEF CallStep, Present, LookUp, Validate, GatherGrants, Issue, AnswerStored, Evaluate,
          Record, RecordedByOther, Refuse, SignAll, Answer, Die, records
    <2>3. call'[p] = s /\ \A q \in Calls \ {p} : call'[q] = call[q]
      BY <2>1 DEF Moves, SignedTypeOK
    <2>4. s.phase \in {"looking", "recording"} =>
            /\ s.at \notin s.done
            /\ time = "valid" \/ s.phase = "recording" => s.now = "valid"
      <3>1. ASSUME NEW c \in Controllers, Validate(p, c)
            PROVE  s.phase = "looking" /\ s.at \notin s.done /\ s.now = time
        BY <2>3, <3>1 DEF Validate, Moves, SignedTypeOK
      <3>2. CASE Evaluate(p)
        <4>1. s = [call[p] EXCEPT !.phase = "recording"]
          BY <2>3, <3>2 DEF Evaluate, Moves, SignedTypeOK
        <4>2. s.at = call[p].at /\ s.done = call[p].done /\ s.now = call[p].now
          BY <3>2, <4>1 DEF Evaluate, SignedTypeOK, CallState
        <4> QED
          BY <3>2, <4>2 DEF Evaluate, BetweenSteps
      <3>3. CASE ~Evaluate(p) /\ \A c \in Controllers : ~Validate(p, c)
        <4>1. ASSUME NEW grant \in Grant, Issue(p, grant) PROVE s.phase = "signing"
          <5>1. s = [call[p] EXCEPT !.todo = call[p].todo \ {grant}]
            BY <2>3, <4>1 DEF Issue, Moves, SignedTypeOK
          <5> QED
            BY <4>1, <5>1 DEF Issue, SignedTypeOK, CallState
        <4>2. CASE Answer(p)
          <5>1. s = [call[p] EXCEPT !.phase = "answered"]
            BY <2>3, <4>2 DEF Answer, Moves, SignedTypeOK
          <5>2. s.phase = "answered"
            BY <4>2, <5>1 DEF Answer, SignedTypeOK, CallState
          <5> QED
            BY <5>2
        <4>3. CASE AnswerStored(p) \/ RecordedByOther(p) \/ Record(p) \/ Refuse(p) \/ Die(p)
          <5>1. s = Permitted(p) \/ s = Refused \/ s = [phase |-> "dead"]
            BY <2>3, <4>3
            DEF AnswerStored, RecordedByOther, Record, Refuse, Die, Moves, SignedTypeOK,
                DecisionFromArtefact
          <5> QED
            BY <5>1 DEF Permitted, Refused
        <4>4. ASSUME NEW u \in MaybeUseCase, NEW issue \in {"tokens", "none"},
                     NEW asked \in Askable, Present(p, u, issue, asked)
              PROVE  s.phase = "presented"
          BY <2>3, <4>4 DEF Present, Moves, SignedTypeOK
        <4>5. ASSUME NEW u \in MaybeUseCase, NEW issue \in {"tokens", "none"},
                     NEW asked \in Askable, NEW c \in Controllers, LookUp(p, u, issue, asked, c)
              PROVE  s.phase = "found"
          BY <2>3, <4>5 DEF LookUp, Moves, SignedTypeOK
        <4>6. CASE SignAll(p) \/ \E grants \in SUBSET Grant : GatherGrants(p, grants)
          <5>1. PICK how, grants : Moves(p, Signing(p, how, grants))
            BY <4>6 DEF SignAll, GatherGrants
          <5> QED
            BY <2>3, <5>1 DEF Moves, SignedTypeOK, Signing
        <4> QED
          BY <1>2, <3>3, <4>1, <4>2, <4>3, <4>4, <4>5, <4>6 DEF CallStep
      <3> QED
        BY <3>1, <3>2, <3>3
    <2> QED
      BY <2>2, <2>3, <2>4 DEF BetweenSteps
  <1> QED
    BY <1>1, <1>2 DEF SignedNext

\* Everything that the promise to controller c speaks of.
View(c) == <<Clock(time), DecidedFor(c), StandingFor(c), [p \in Calls |-> SeenFor(p, c)]>>

LEMMA SameView ==
    ASSUME NEW c \in Controllers, UNCHANGED View(c)
    PROVE  UNCHANGED Promise(c)!vars
  BY DEF View, Promise!vars

\* What a controller is told of a decision is on record.
LEMMA SeenIsRecorded ==
    ASSUME SignedIInv, NEW p \in Calls, NEW c \in Controllers
    PROVE  /\ call[p].phase \in {"presented", "looking", "recording"} /\ c \in call[p].done
              => Recorded(c)
           /\ /\ call[p].phase \in {"signing", "answered"} /\ call[p].how = "presented"
              /\ c \in call[p].begun.asked
              => Recorded(c)
  <1>1. CallSound(p)
    BY DEF SignedIInv
  <1>2. call[p].phase \in {"signing", "answered"} /\ call[p].how = "presented"
          /\ c \in call[p].begun.asked
          => \E g \in call[p].grants : g.controller = c
    BY <1>1 DEF CallSound, StateSound
  <1> QED
    BY <1>1, <1>2 DEF CallSound, StateSound, Sure, Recorded

LEMMA DecisionStays ==
    ASSUME RecordsGrow, NEW c \in Controllers, Recorded(c)
    PROVE  DecidedFor(c)' = DecidedFor(c)
  BY DEF RecordsGrow, DecidedFor, Recorded

\* A call that rests is seen as it was.
LEMMA RestingSeen ==
    ASSUME SignedIInv, RecordsGrow, NEW p \in Calls, NEW c \in Controllers,
           call'[p] = call[p]
    PROVE  SeenFor(p, c)' = SeenFor(p, c)
  <1>1. CASE Recorded(c)
    BY <1>1, DecisionStays DEF SeenFor
  <1>2. CASE ~Recorded(c)
    BY <1>2, SeenIsRecorded DEF SeenFor
  <1> QED
    BY <1>1, <1>2

LEMMA OneMovesFor ==
    ASSUME SignedIInv, RecordsGrow, NEW p \in Calls, NEW s, Moves(p, s),
           NEW c \in Controllers, NEW seen, SeenFor(p, c)' = seen
    PROVE  Promise(c)!Moves(p, seen)
  <1>1. \A q \in Calls \ {p} : SeenFor(q, c)' = SeenFor(q, c)
    BY RestingSeen DEF Moves, SignedIInv, SignedTypeOK
  <1> QED
    BY <1>1 DEF Promise!Moves

\* A step that changes no record grows them in the sense above.
LEMMA QuietRecords ==
    ASSUME UNCHANGED records, NEW c \in Controllers
    PROVE  RecordsGrow /\ UNCHANGED <<Clock(time), DecidedFor(c), StandingFor(c)>>
  BY DEF records, RecordsGrow, Recorded, Clock, DecidedFor, StandingFor

LEMMA UnseenFor ==
    ASSUME SignedIInv, UNCHANGED records, NEW p \in Calls, NEW s, Moves(p, s),
           NEW c \in Controllers, SeenFor(p, c)' = SeenFor(p, c)
    PROVE  UNCHANGED Promise(c)!vars
  <1>1. \A q \in Calls : SeenFor(q, c)' = SeenFor(q, c)
    BY QuietRecords, RestingSeen DEF Moves, SignedIInv, SignedTypeOK
  <1> QED
    BY <1>1, QuietRecords DEF Promise!vars

LEMMA FailsFor ==
    ASSUME SignedIInv, UNCHANGED records, NEW p \in Calls, NEW s, Moves(p, s),
           s.phase \in {"refused", "dead"}, NEW c \in Controllers,
           call[p].phase \in {"presented", "looking", "recording", "found", "signing"}
    PROVE  Promise(c)!Fail(p)
  <1>1. SeenFor(p, c)' = [phase |-> "failed"]
    BY DEF Moves, SignedIInv, SignedTypeOK, SeenFor
  <1>2. SeenFor(p, c).phase \in {"new", "asked", "permitted"}
    BY DEF SeenFor
  <1>3. Promise(c)!Moves(p, [phase |-> "failed"])
    BY <1>1, QuietRecords, OneMovesFor
  <1> QED
    BY <1>2, <1>3, QuietRecords DEF Promise!Fail

\* The call comes to controller d.
LEMMA ValidateFor ==
    ASSUME SignedIInv, NEW p \in Calls, NEW d \in Controllers, Validate(p, d),
           NEW c \in Controllers
    PROVE  Promise(c)!Next \/ UNCHANGED Promise(c)!vars
  <1> DEFINE s == [phase |-> "looking", begun |-> call[p].begun, done |-> call[p].done,
                   at |-> d, now |-> time]
  <1>1. Moves(p, s) /\ call'[p] = s /\ UNCHANGED records
    BY DEF Validate, Moves, SignedIInv, SignedTypeOK
  <1>2. call[p].phase = "presented" /\ d \notin call[p].done
    BY DEF Validate
  <1>3. CASE c = d
    <2>1. SeenFor(p, c) = [phase |-> "new"]
      BY <1>2, <1>3 DEF SeenFor
    <2>2. SeenFor(p, c)' = [phase |-> "asked", at |-> Clock(time)]
      BY <1>1, <1>2, <1>3 DEF SeenFor
    <2>3. Promise(c)!Moves(p, [phase |-> "asked", at |-> Clock(time)])
      BY <1>1, <2>2, QuietRecords, OneMovesFor
    <2>4. Promise(c)!Ask(p)
      BY <1>1, <2>1, <2>3, QuietRecords DEF Promise!Ask
    <2> QED
      BY <2>4 DEF Promise!Next
  <1>4. CASE c # d
    <2>1. DecidedFor(c)' = DecidedFor(c)
      BY <1>1, QuietRecords
    <2>2. SeenFor(p, c)' = SeenFor(p, c)
      BY <1>1, <1>2, <1>4, <2>1 DEF SeenFor
    <2> QED
      BY <1>1, <2>2, UnseenFor
  <1> QED
    BY <1>3, <1>4

\* With the artefact it finds a call is permitted, if it stands, or refused, and
\* with it the call for every controller.
LEMMA StoredFor ==
    ASSUME SignedIInv, BetweenSteps, NEW p \in Calls, UNCHANGED records,
           call[p].phase \in {"looking", "recording"}, Recorded(call[p].at),
           Moves(p, DecisionFromArtefact(p)), NEW c \in Controllers
    PROVE  Promise(c)!Next \/ UNCHANGED Promise(c)!vars
  <1> DEFINE d == call[p].at
  <1>1. d \in Controllers /\ d \notin call[p].done
    BY StateFields DEF SignedIInv, SignedTypeOK, BetweenSteps
  <1>2. CASE call[p].now = "valid" /\ artefact[d].status = "active"
    <2>1. Moves(p, Permitted(p)) /\ call'[p] = Permitted(p)
      BY <1>2 DEF DecisionFromArtefact, Moves, SignedIInv, SignedTypeOK
    <2>2. DecidedFor(c)' = DecidedFor(c)
      BY QuietRecords
    <2>3. CASE c = d
      <3>1. SeenFor(p, c) = [phase |-> "asked", at |-> 0]
        BY <1>1, <1>2, <2>3 DEF SeenFor, Clock
      <3>2. SeenFor(p, c)' = [phase |-> "permitted", decision |-> DecidedFor(c)]
        BY <1>1, <2>1, <2>2, <2>3 DEF SeenFor, Permitted
      <3>3. StandingFor(c) = "given" /\ DecidedFor(c).of = "consent"
        BY <1>1, <1>2, <2>3 DEF StandingFor, DecidedFor, SignedIInv, ArtefactsSound
      <3>4. Promise(c)!Moves(p, [phase |-> "permitted", decision |-> DecidedFor(c)])
        BY <2>1, <3>2, QuietRecords, OneMovesFor
      <3>5. Promise(c)!Agree(p)
        BY <3>1, <3>3, <3>4, QuietRecords DEF Promise!Agree
      <3> QED
        BY <3>5 DEF Promise!Next
    <2>4. CASE c # d
      <3>1. SeenFor(p, c)' = SeenFor(p, c)
        BY <1>1, <2>1, <2>2, <2>4 DEF SeenFor, Permitted
      <3> QED
        BY <2>1, <3>1, UnseenFor
    <2> QED
      BY <2>3, <2>4
  <1>3. CASE ~(call[p].now = "valid" /\ artefact[d].status = "active")
    <2>1. Moves(p, Refused) /\ Refused.phase = "refused"
      BY <1>3 DEF DecisionFromArtefact, Refused
    <2>2. Promise(c)!Fail(p)
      BY <2>1, FailsFor
    <2> QED
      BY <2>2 DEF Promise!Next
  <1> QED
    BY <1>2, <1>3

\* The call that records the artefact makes the decision for its controller.
LEMMA RecordFor ==
    ASSUME SignedIInv, BetweenSteps, NEW p \in Calls, Record(p), NEW c \in Controllers
    PROVE  Promise(c)!Next \/ UNCHANGED Promise(c)!vars
  <1> DEFINE d == call[p].at
             new == [useCase |-> call[p].begun.useCase, status |-> "active"]
  <1>1. /\ d \in Controllers /\ d \notin call[p].done /\ call[p].now = "valid"
        /\ call[p].begun \in Begun
    BY StateFields DEF Record, SignedIInv, SignedTypeOK, BetweenSteps
  <1>2. new \in Artefact /\ new # NoArtefact
    BY <1>1, SignedAssumption DEF Begun, Artefact
  <1>3. artefact' = [artefact EXCEPT ![d] = new] /\ ~Recorded(d)
    BY DEF Record
  <1>4. artefact'[d] = new /\ \A e \in Controllers \ {d} : artefact'[e] = artefact[e]
    BY <1>1, <1>3 DEF SignedIInv, SignedTypeOK
  <1>5. UNCHANGED <<time, withdrawn, tokens>> /\ Moves(p, Permitted(p))
    BY DEF Record
  <1>6. RecordsGrow
    BY <1>1, <1>3, <1>4, <1>5 DEF RecordsGrow, Recorded
  <1>7. call'[p] = Permitted(p)
    BY <1>5 DEF Moves, SignedIInv, SignedTypeOK
  <1>8. CASE c = d
    <2> DEFINE decided == [of |-> "consent", useCase |-> call[p].begun.useCase]
    <2>1. DecidedFor(c) = NoArtefact /\ DecidedFor(c)' = decided
      BY <1>2, <1>3, <1>4, <1>8 DEF DecidedFor, Recorded
    <2>2. StandingFor(c)' = "given"
      <3>1. c \notin withdrawn
        BY <1>1, <1>3, <1>8 DEF SignedIInv, ArtefactsSound
      <3> QED
        BY <1>2, <1>4, <1>5, <1>8, <3>1 DEF StandingFor, Recorded
    <2>3. SeenFor(p, c) = [phase |-> "asked", at |-> 0]
      BY <1>1, <1>8 DEF Record, SeenFor, Clock
    <2>4. SeenFor(p, c)' = [phase |-> "permitted", decision |-> decided]
      BY <1>1, <1>7, <1>8, <2>1 DEF SeenFor, Permitted
    <2>5. Promise(c)!Moves(p, [phase |-> "permitted", decision |-> decided])
      BY <1>5, <1>6, <2>4, OneMovesFor
    <2>6. Clock(time)' = Clock(time)
      BY <1>5 DEF Clock
    <2>7. decided \in [of : {"consent"}, useCase : MaybeUseCase] /\ decided.of = "consent"
      BY <1>1 DEF Begun
    <2>8. Promise(c)!Decide(p, decided)
      <3> HIDE DEF decided
      <3> QED
        BY <2>1, <2>2, <2>3, <2>5, <2>6, <2>7 DEF Promise!Decide
    <2> QED
      BY <2>7, <2>8 DEF Promise!Next
  <1>9. CASE c # d
    <2>1. UNCHANGED <<Clock(time), DecidedFor(c), StandingFor(c)>>
      BY <1>4, <1>5, <1>9 DEF Clock, DecidedFor, StandingFor, Recorded
    <2>2. SeenFor(p, c)' = SeenFor(p, c)
      BY <1>1, <1>7, <1>9, <2>1 DEF Record, SeenFor, Permitted
    <2>3. \A q \in Calls : SeenFor(q, c)' = SeenFor(q, c)
      BY <1>5, <1>6, <2>2, RestingSeen DEF Moves, SignedIInv, SignedTypeOK
    <2> QED
      BY <2>1, <2>3 DEF Promise!vars
  <1> QED
    BY <1>8, <1>9

\* All controllers have permitted, and their tokens may be issued.
LEMMA SignAllFor ==
    ASSUME SignedIInv, NEW p \in Calls, SignAll(p), NEW c \in Controllers
    PROVE  UNCHANGED Promise(c)!vars
  <1>1. PICK s : s = Signing(p, "presented",
                        {[controller |-> e, consent |-> e] : e \in call[p].done})
    OBVIOUS
  <1>2. Moves(p, s) /\ UNCHANGED records /\ call'[p] = s
    BY <1>1 DEF SignAll, Moves, SignedIInv, SignedTypeOK
  <1>3. s.phase = "signing" /\ s.how = "presented" /\ s.begun = call[p].begun
    BY <1>1 DEF Signing
  <1>4. DecidedFor(c)' = DecidedFor(c)
    BY <1>2, QuietRecords
  <1>5. SeenFor(p, c)' = SeenFor(p, c)
    BY <1>2, <1>3, <1>4 DEF SignAll, SeenFor
  <1> QED
    BY <1>2, <1>5, UnseenFor

LEMMA AnswerFor ==
    ASSUME SignedIInv, NEW p \in Calls, Answer(p), NEW c \in Controllers
    PROVE  Promise(c)!Next \/ UNCHANGED Promise(c)!vars
  <1>1. PICK s : s = [call[p] EXCEPT !.phase = "answered"]
    OBVIOUS
  <1>2. Moves(p, s) /\ UNCHANGED records /\ call'[p] = s
    BY <1>1 DEF Answer, Moves, SignedIInv, SignedTypeOK
  <1>3. s.phase = "answered" /\ s.how = call[p].how /\ s.begun = call[p].begun
    BY <1>1 DEF Answer, SignedIInv, SignedTypeOK, CallState
  <1>4. DecidedFor(c)' = DecidedFor(c)
    BY <1>2, QuietRecords
  <1>5. CASE call[p].how = "presented" /\ c \in call[p].begun.asked
    <2>1. /\ SeenFor(p, c) = [phase |-> "permitted", decision |-> DecidedFor(c)]
          /\ SeenFor(p, c)' = [phase |-> "answered", decision |-> DecidedFor(c)]
      BY <1>2, <1>3, <1>4, <1>5 DEF Answer, SeenFor
    <2>2. Promise(c)!Moves(p, [phase |-> "answered", decision |-> DecidedFor(c)])
      BY <1>2, <2>1, QuietRecords, OneMovesFor
    <2>3. Promise(c)!Tell(p)
      BY <1>2, <2>1, <2>2, QuietRecords DEF Promise!Tell
    <2> QED
      BY <2>3 DEF Promise!Next
  <1>6. CASE ~(call[p].how = "presented" /\ c \in call[p].begun.asked)
    <2>1. SeenFor(p, c)' = SeenFor(p, c)
      BY <1>2, <1>3, <1>6 DEF Answer, SeenFor
    <2> QED
      BY <1>2, <2>1, UnseenFor
  <1> QED
    BY <1>5, <1>6

\* Lookups are no presentations, and of the rest a registry sees nothing.
LEMMA OthersUnseen ==
    ASSUME SignedIInv, NEW p \in Calls, NEW c \in Controllers,
           \/ \E u \in MaybeUseCase, issue \in {"tokens", "none"}, asked \in Askable :
                \/ Present(p, u, issue, asked)
                \/ \E d \in Controllers : LookUp(p, u, issue, asked, d)
           \/ \E grants \in SUBSET Grant : GatherGrants(p, grants)
           \/ \E grant \in Grant : Issue(p, grant)
           \/ Evaluate(p)
    PROVE  UNCHANGED Promise(c)!vars
  <1>1. ASSUME NEW u, NEW issue, NEW asked, Present(p, u, issue, asked)
        PROVE  UNCHANGED Promise(c)!vars
    <2>1. PICK s : Moves(p, s) /\ s.phase = "presented" /\ s.done = {}
      BY <1>1 DEF Present
    <2>2. call'[p] = s /\ UNCHANGED records
      BY <1>1, <2>1 DEF Present, Moves, SignedIInv, SignedTypeOK
    <2>3. SeenFor(p, c)' = SeenFor(p, c)
      BY <1>1, <2>1, <2>2 DEF Present, SeenFor
    <2> QED
      BY <2>1, <2>2, <2>3, UnseenFor
  <1>2. ASSUME NEW u, NEW issue, NEW asked, NEW d, LookUp(p, u, issue, asked, d)
        PROVE  UNCHANGED Promise(c)!vars
    <2>1. PICK s : Moves(p, s) /\ s.phase = "found"
      BY <1>2 DEF LookUp
    <2>2. call'[p] = s /\ UNCHANGED records
      BY <1>2, <2>1 DEF LookUp, Moves, SignedIInv, SignedTypeOK
    <2>3. SeenFor(p, c)' = SeenFor(p, c)
      BY <1>2, <2>1, <2>2 DEF LookUp, SeenFor
    <2> QED
      BY <2>1, <2>2, <2>3, UnseenFor
  <1>3. ASSUME NEW grants, GatherGrants(p, grants) PROVE UNCHANGED Promise(c)!vars
    <2>1. PICK s : s = Signing(p, "lookup", grants)
      OBVIOUS
    <2>2. Moves(p, s) /\ s.phase = "signing" /\ s.how = "lookup"
      BY <1>3, <2>1 DEF GatherGrants, Signing
    <2>3. call'[p] = s /\ UNCHANGED records
      BY <1>3, <2>2 DEF GatherGrants, Moves, SignedIInv, SignedTypeOK
    <2>4. SeenFor(p, c)' = SeenFor(p, c)
      BY <1>3, <2>2, <2>3 DEF GatherGrants, SeenFor
    <2> QED
      BY <2>2, <2>3, <2>4, UnseenFor
  <1>4. ASSUME NEW grant, Issue(p, grant) PROVE UNCHANGED Promise(c)!vars
    <2>1. PICK s : s = [call[p] EXCEPT !.todo = call[p].todo \ {grant}]
      OBVIOUS
    <2>2. call' = [call EXCEPT ![p] = s] /\ call'[p] = s
      BY <1>4, <2>1 DEF Issue, Moves, SignedIInv, SignedTypeOK
    <2>3. s.phase = "signing" /\ s.how = call[p].how /\ s.begun = call[p].begun
      BY <1>4, <2>1 DEF Issue, SignedIInv, SignedTypeOK, CallState
    <2>4. UNCHANGED <<Clock(time), DecidedFor(c), StandingFor(c)>>
      BY <1>4 DEF Issue, Clock, DecidedFor, StandingFor, Recorded
    <2>5. SeenFor(p, c)' = SeenFor(p, c)
      BY <1>4, <2>2, <2>3, <2>4 DEF Issue, SeenFor
    <2>6. \A q \in Calls \ {p} : SeenFor(q, c)' = SeenFor(q, c)
      BY <2>2, <2>4 DEF SeenFor, SignedIInv, SignedTypeOK
    <2> QED
      BY <2>4, <2>5, <2>6 DEF Promise!vars
  <1>5. CASE Evaluate(p)
    <2>1. PICK s : s = [call[p] EXCEPT !.phase = "recording"]
      OBVIOUS
    <2>2. Moves(p, s) /\ UNCHANGED records /\ call'[p] = s
      BY <1>5, <2>1 DEF Evaluate, Moves, SignedIInv, SignedTypeOK
    <2>3. /\ s.phase = "recording" /\ s.done = call[p].done /\ s.at = call[p].at
          /\ s.now = call[p].now
      BY <1>5, <2>1 DEF Evaluate, SignedIInv, SignedTypeOK, CallState
    <2>4. DecidedFor(c)' = DecidedFor(c)
      BY <2>2, QuietRecords
    <2>5. SeenFor(p, c)' = SeenFor(p, c)
      BY <1>5, <2>2, <2>3, <2>4 DEF Evaluate, SeenFor
    <2> QED
      BY <2>2, <2>5, UnseenFor
  <1> QED
    BY <1>1, <1>2, <1>3, <1>4, <1>5

\* The end of the consent, and of the artefact of any controller.
LEMMA EndsFor ==
    ASSUME SignedIInv, Lapse \/ \E d \in Controllers : Revoke(d) \/ Expire(d),
           NEW c \in Controllers
    PROVE  Promise(c)!Next \/ UNCHANGED Promise(c)!vars
  <1>1. CASE Lapse
    <2>1. /\ Clock(time)' = 1 /\ Clock(time) \in {0, 1}
          /\ UNCHANGED <<DecidedFor(c), StandingFor(c), [p \in Calls |-> SeenFor(p, c)]>>
      BY <1>1 DEF Lapse, Clock, DecidedFor, StandingFor, SeenFor, Recorded
    <2>2. CASE Clock(time) = 0
      <3>1. Promise(c)!Tick
        BY <2>1, <2>2 DEF Promise!Tick
      <3> QED
        BY <3>1 DEF Promise!Next
    <2>3. CASE Clock(time) = 1
      BY <2>1, <2>3 DEF Promise!vars
    <2> QED
      BY <2>1, <2>2, <2>3
  <1>2. ASSUME NEW d \in Controllers, NEW status \in {"revoked", "expired"},
               Recorded(d), SetStatus(d, status), UNCHANGED <<time, call, tokens>>,
               withdrawn \subseteq withdrawn', withdrawn' \subseteq withdrawn \cup {d}
        PROVE  /\ UNCHANGED <<Clock(time), DecidedFor(c), [p \in Calls |-> SeenFor(p, c)]>>
               /\ c # d => UNCHANGED StandingFor(c)
               /\ c = d => Recorded(c)' /\ artefact'[c].status = status
    <2>1. /\ artefact'[d] # NoArtefact /\ artefact'[d].status = status
          /\ artefact'[d].useCase = artefact[d].useCase
          /\ \A e \in Controllers \ {d} : artefact'[e] = artefact[e]
      <3>1. artefact[d] \in Artefact
        BY <1>2 DEF SignedIInv, SignedTypeOK, Recorded
      <3>2. artefact'[d] = [artefact[d] EXCEPT !.status = status]
        BY <1>2 DEF SetStatus, SignedIInv, SignedTypeOK
      <3>3. artefact'[d].status = status /\ artefact'[d].useCase = artefact[d].useCase
              /\ artefact'[d] \in Artefact
        BY <1>2, <3>1, <3>2 DEF Artefact
      <3> QED
        BY <1>2, <3>3, SignedAssumption DEF SetStatus, SignedIInv, SignedTypeOK
    <2>2. RecordsGrow
      BY <1>2, <2>1 DEF RecordsGrow, Recorded
    <2>3. \A p \in Calls : SeenFor(p, c)' = SeenFor(p, c)
      BY <1>2, <2>2, RestingSeen
    <2>4. UNCHANGED <<Clock(time), DecidedFor(c)>>
      BY <1>2, <2>1 DEF Clock, DecidedFor, Recorded
    <2>5. c # d => UNCHANGED StandingFor(c)
      BY <1>2, <2>1 DEF StandingFor, Recorded
    <2> QED
      BY <2>1, <2>3, <2>4, <2>5 DEF Recorded
  <1>3. ASSUME NEW d \in Controllers, Revoke(d)
        PROVE  Promise(c)!Next \/ UNCHANGED Promise(c)!vars
    <2>1. /\ UNCHANGED <<Clock(time), DecidedFor(c), [p \in Calls |-> SeenFor(p, c)]>>
          /\ c # d => UNCHANGED StandingFor(c)
          /\ c = d => Recorded(c) /\ Recorded(c)' /\ c \in withdrawn'
      BY <1>2, <1>3 DEF Revoke
    <2>2. CASE c # d \/ c \in withdrawn
      <3>1. UNCHANGED StandingFor(c)
        BY <2>1, <2>2 DEF StandingFor
      <3> QED
        BY <2>1, <3>1 DEF Promise!vars
    <2>3. CASE c = d /\ c \notin withdrawn
      <3>1. StandingFor(c) \in {"given", "lapsed"} /\ StandingFor(c)' = "withdrawn"
        BY <2>1, <2>3 DEF StandingFor
      <3>2. Promise(c)!Withdraw
        BY <2>1, <3>1 DEF Promise!Withdraw
      <3> QED
        BY <3>2 DEF Promise!Next
    <2> QED
      BY <2>2, <2>3
  <1>4. ASSUME NEW d \in Controllers, Expire(d)
        PROVE  Promise(c)!Next \/ UNCHANGED Promise(c)!vars
    <2>1. /\ UNCHANGED <<Clock(time), DecidedFor(c), [p \in Calls |-> SeenFor(p, c)]>>
          /\ c # d => UNCHANGED StandingFor(c)
          /\ c = d => Recorded(c) /\ Recorded(c)' /\ artefact'[c].status = "expired"
          /\ withdrawn' = withdrawn
      BY <1>2, <1>4 DEF Expire
    <2>2. CASE c = d /\ StandingFor(c) = "given"
      <3>1. StandingFor(c)' = "lapsed"
        BY <2>1, <2>2 DEF StandingFor
      <3>2. DecidedFor(c).of = "consent" /\ Clock(time) = 1
        BY <1>4, <2>1, <2>2 DEF DecidedFor, Clock, Expire
      <3>3. Promise(c)!Lapse
        BY <2>1, <2>2, <3>1, <3>2 DEF Promise!Lapse
      <3> QED
        BY <3>3 DEF Promise!Next
    <2>3. CASE c # d \/ StandingFor(c) # "given"
      <3>1. UNCHANGED StandingFor(c)
        BY <2>1, <2>3 DEF StandingFor
      <3> QED
        BY <2>1, <3>1 DEF Promise!vars
    <2> QED
      BY <2>2, <2>3
  <1> QED
    BY <1>1, <1>3, <1>4

LEMMA PromiseBegins ==
    ASSUME SignedInit, NEW c \in Controllers
    PROVE  Promise(c)!Init
  <1>1. Clock(time) = 0 /\ [p \in Calls |-> SeenFor(p, c)] = [p \in Calls |-> [phase |-> "new"]]
    BY DEF SignedInit, Clock, SeenFor
  <1>2. CASE ~Recorded(c)
    <2>1. DecidedFor(c) = NoArtefact /\ StandingFor(c) = "none"
      BY <1>2 DEF DecidedFor, StandingFor
    <2> QED
      BY <1>1, <2>1 DEF Promise!Init
  <1>3. CASE Recorded(c)
    <2>1. artefact[c] \in [useCase : MaybeUseCase, status : {"active"}] /\ c \notin withdrawn
      BY <1>3 DEF SignedInit, Recorded
    <2>2. DecidedFor(c) = [of |-> "consent", useCase |-> artefact[c].useCase]
            /\ StandingFor(c) = "given"
      BY <1>3, <2>1 DEF DecidedFor, StandingFor
    <2>3. DecidedFor(c) \in [of : {"consent"}, useCase : MaybeUseCase]
      BY <2>1, <2>2
    <2> QED
      BY <1>1, <2>2, <2>3 DEF Promise!Init
  <1> QED
    BY <1>2, <1>3

LEMMA StepFor ==
    ASSUME SignedIInv, BetweenSteps, [SignedNext]_signedVars, NEW c \in Controllers
    PROVE  Promise(c)!Next \/ UNCHANGED Promise(c)!vars
  <1>1. CASE UNCHANGED signedVars
    BY <1>1 DEF signedVars, Promise!vars, Clock, DecidedFor, StandingFor, SeenFor, Recorded
  <1>2. CASE Lapse \/ \E d \in Controllers : Revoke(d) \/ Expire(d)
    BY <1>2, EndsFor
  <1>3. ASSUME NEW p \in Calls, CallStep(p)
        PROVE  Promise(c)!Next \/ UNCHANGED Promise(c)!vars
    <2>1. ASSUME NEW d \in Controllers, Validate(p, d)
          PROVE  Promise(c)!Next \/ UNCHANGED Promise(c)!vars
      BY <2>1, ValidateFor
    <2>2. CASE AnswerStored(p) \/ RecordedByOther(p)
      BY <2>2, StoredFor DEF AnswerStored, RecordedByOther
    <2>3. CASE Record(p)
      BY <2>3, RecordFor
    <2>4. CASE SignAll(p)
      BY <2>4, SignAllFor
    <2>5. CASE Answer(p)
      BY <2>5, AnswerFor
    <2>6. CASE Refuse(p) \/ Die(p)
      <3>1. PICK s : Moves(p, s) /\ s.phase \in {"refused", "dead"}
        BY <2>6 DEF Refuse, Die, Refused
      <3>2. call[p].phase \in {"presented", "looking", "recording", "found", "signing"}
        BY <2>6 DEF Refuse, Die, SignedIInv, SignedTypeOK, CallState
      <3>3. Promise(c)!Fail(p)
        BY <2>6, <3>1, <3>2, FailsFor DEF Refuse, Die
      <3> QED
        BY <3>3 DEF Promise!Next
    <2> QED
      BY <1>3, <2>1, <2>2, <2>3, <2>4, <2>5, <2>6, OthersUnseen DEF CallStep
  <1> QED
    BY <1>1, <1>2, <1>3 DEF SignedNext

LEMMA AlwaysBetween == SignedSpec => [](SignedIInv /\ BetweenSteps)
  <1>1. SignedInit => BetweenSteps
    BY DEF SignedInit, BetweenSteps
  <1>2. SignedIInv /\ BetweenSteps /\ [SignedNext]_signedVars => BetweenSteps'
    BY BetweenStepsStay DEF SignedIInv
  <1> QED
    BY <1>1, <1>2, InitSound, StepSound, PTL DEF SignedSpec

\* For any number of controllers: each of them is dealt with as ConsentDecision
\* says, whatever is recorded, revoked or refused for the others. PresentedConsents
\* does so too, so that either module may be taken for what the other leaves out.
THEOREM ImplementsDecisions == SignedSpec => DecisionPerController
  <1>1. SignedInit => \A c \in Controllers : Promise(c)!Init
    BY PromiseBegins
  <1>2. SignedIInv /\ BetweenSteps /\ [SignedNext]_signedVars
          => \A c \in Controllers : UNCHANGED Promise(c)!vars \/ Promise(c)!Next
    BY StepFor
  <1> QED
    BY <1>1, <1>2, AlwaysBetween, PTL DEF SignedSpec, DecisionPerController

\* The same of one controller, as an implementation of the specification itself.
THEOREM ImplementsDecisionFor ==
    ASSUME NEW c \in Controllers
    PROVE  SignedSpec => Promise(c)!Spec
  <1>1. SignedInit => Promise(c)!Init
    BY PromiseBegins
  <1>2. SignedIInv /\ BetweenSteps /\ [SignedNext]_signedVars
          => [Promise(c)!Next]_(Promise(c)!vars)
    BY StepFor
  <1> QED
    BY <1>1, <1>2, AlwaysBetween, PTL DEF SignedSpec, Promise!Spec
=============================================================================
