--------------------------- MODULE ConsentAnswers ---------------------------
(***************************************************************************)
(* What the exchange promises to those who ask it about the consents it    *)
(* holds (ConsentStanding): a call is permitted at one moment between its  *)
(* arrival and its answer, at which the consent stood, whatever becomes of *)
(* the consent before and after; tokens are issued to permitted calls      *)
(* alone, and none is left by a call that is refused; a token ends with    *)
(* its consent, and a lifetime after the call it was issued to is dated.   *)
(* A call that names its consent is dated when it arrives, and so before   *)
(* it is permitted; a lookup once more after it has found the consent.     *)
(*                                                                         *)
(* TokenIssuance implements this specification.                            *)
(***************************************************************************)
EXTENDS ConsentStanding

CONSTANTS
    Validations, \* the calls
    TokenTTL     \* how long a token is valid at most

VARIABLES
    asking, \* asking[v]: what has come of call v
    issued  \* the tokens: call, consent and end

answerVars == <<vars, asking, issued>>

AnswersInit ==
    /\ Init
    /\ asking = [v \in Validations |-> [phase |-> "new"]]
    /\ issued = {}

Moves(v, state) == asking' = [asking EXCEPT ![v] = state]

Ask(v, route) ==
    /\ asking[v].phase = "new"
    /\ Moves(v, [phase |-> "asked", route |-> route, date |-> clock])
    /\ UNCHANGED <<vars, issued>>

Permitted(v, c, date) ==
    [phase |-> "permitted", route |-> asking[v].route, date |-> date, of |-> c]

Permit(v, c) ==
    /\ asking[v].phase = "asked"
    /\ standing[c] = "given"
    /\ asking[v].date <= validUntil[c]
    /\ Moves(v, Permitted(v, c, asking[v].date))
    /\ UNCHANGED <<vars, issued>>

\* A lookup is dated again. By now the consent may have been withdrawn.
Date(v) ==
    /\ asking[v].phase = "permitted" /\ asking[v].route = "lookup"
    /\ clock <= validUntil[asking[v].of]
    /\ Moves(v, Permitted(v, asking[v].of, clock))
    /\ UNCHANGED <<vars, issued>>

Issue(v, end) ==
    /\ asking[v].phase = "permitted"
    /\ end <= asking[v].date + TokenTTL
    /\ end <= validUntil[asking[v].of]
    /\ issued' = issued \cup {[call |-> v, consent |-> asking[v].of, end |-> end]}
    /\ UNCHANGED <<vars, asking>>

Answer(v) ==
    /\ asking[v].phase = "permitted"
    /\ Moves(v, [phase |-> "answered", of |-> asking[v].of])
    /\ UNCHANGED <<vars, issued>>

\* For reasons of the partner's policy, or of the request, or none.
Refuse(v) ==
    /\ asking[v].phase \in {"asked", "permitted"}
    /\ \A t \in issued : t.call # v
    /\ Moves(v, [phase |-> "refused"])
    /\ UNCHANGED <<vars, issued>>

Fail(v) ==
    /\ asking[v].phase \in {"asked", "permitted"}
    /\ Moves(v, [phase |-> "failed"])
    /\ UNCHANGED <<vars, issued>>

AnswersNext ==
    \/ Next /\ UNCHANGED <<asking, issued>>
    \/ \E v \in Validations :
        \/ \E route \in {"by_id", "lookup"} : Ask(v, route)
        \/ \E c \in Consents : Permit(v, c)
        \/ \E end \in 0..(MaxClock + TokenTTL) : Issue(v, end)
        \/ Date(v) \/ Answer(v) \/ Refuse(v) \/ Fail(v)

AnswersSpec == AnswersInit /\ [][AnswersNext]_answerVars
=============================================================================
