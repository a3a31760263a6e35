---------------------------- MODULE PolicedScopes ----------------------------
(***************************************************************************)
(* What the Consent Manager promises about the scopes of one data          *)
(* controller: what is granted of it was asked for and is decided at one   *)
(* moment, by one version of a policy that can be read at that moment and  *)
(* is recorded with it; and what a call is permitted of it is decided at   *)
(* one moment of that call, by one such version that is logged with it.    *)
(* Each decision can only lose scopes. In use-case mode the policy is that *)
(* for the use case, and grants are cut to what it needs.                  *)
(*                                                                         *)
(* Every controller of ConsentGrants sees this specification. All of them  *)
(* together do not: their policies are read at moments of their own.       *)
(***************************************************************************)
EXTENDS Naturals, Sequences

CONSTANTS
    Controller, \* the key of the controller's scope policies
    UseCases,   \* the keys of the policies for use cases
    NoUseCase,  \* outside use-case mode
    Scopes,     \* the controller's scopes
    Policies,   \* the policies there are
    NoPolicy,   \* no policy is active
    Validities, \* how long a consent may be valid
    Calls       \* the calls that present the consent

VARIABLES
    policy, \* policy[k]: the versions of the policy with key k
    oldest, \* oldest[k]: the oldest version that can be read
    need,   \* need[u]: what use case u needs of the controller
    grant,  \* what has come of the request for the controller's scopes
    call    \* call[q]: what has come of call q

world == <<policy, oldest, need>>

vars == <<world, grant, call>>

Keys == {Controller} \cup UseCases

Init ==
    /\ \A k \in Keys : Len(policy[k]) = 1 /\ oldest[k] = 1
    /\ grant = [phase |-> "none"]
    /\ call = [q \in Calls |-> [phase |-> "idle"]]

-----------------------------------------------------------------------------
(* Policies are published and forgotten, and use cases changed, at any time. *)

Readable(k) == oldest[k]..Len(policy[k])

Publish(k) ==
    /\ \E new \in Policies \cup {NoPolicy} :
        policy' = [policy EXCEPT ![k] = Append(policy[k], new)]
    /\ UNCHANGED <<oldest, need>>

Forget(k) ==
    /\ \E v \in Readable(k) : oldest' = [oldest EXCEPT ![k] = v]
    /\ UNCHANGED <<policy, need>>

Redefine(u) ==
    /\ \E scopes \in SUBSET Scopes : need' = [need EXCEPT ![u] = scopes]
    /\ UNCHANGED <<policy, oldest>>

WorldStep ==
    \/ \E k \in Keys : Publish(k) \/ Forget(k)
    \/ \E u \in UseCases : Redefine(u)

-----------------------------------------------------------------------------
(* The grant *)

Asked(want, u) == [phase |-> "asked", want |-> want, useCase |-> u]

\* For a use case, what it needs is asked for.
Ask ==
    /\ grant.phase = "none"
    /\ \/ \E want \in SUBSET Scopes : grant' = Asked(want, NoUseCase)
       \/ \E u \in UseCases : grant' = Asked(need[u], u)

Decided(granted, left, v) ==
    [phase |-> "decided", want |-> grant.want, useCase |-> grant.useCase,
     granted |-> granted, left |-> left, version |-> v]

\* By the controller's scope policy.
Decide ==
    /\ grant.phase = "asked" /\ grant.useCase = NoUseCase
    /\ \E granted \in SUBSET grant.want, v \in Readable(Controller) :
        /\ policy[Controller][v] # NoPolicy
        /\ grant' = Decided(granted, granted \cap policy[Controller][v].scopes, v)

\* By the policy for the use case, and then by what the use case needs.
Allow ==
    /\ grant.phase = "asked" /\ grant.useCase # NoUseCase
    /\ \E granted \in SUBSET grant.want, v \in Readable(grant.useCase) :
        /\ policy[grant.useCase][v] # NoPolicy
        /\ grant' = [phase |-> "allowed", want |-> grant.want,
                     useCase |-> grant.useCase, granted |-> granted, version |-> v]

Cut ==
    /\ grant.phase = "allowed"
    /\ grant' = Decided(grant.granted, grant.granted \cap need[grant.useCase], grant.version)

Give ==
    /\ grant.phase = "decided" /\ grant.left # {}
    /\ \E validity \in Validities :
        grant' = [phase |-> "given", want |-> grant.want, useCase |-> grant.useCase,
                  granted |-> grant.granted, left |-> grant.left,
                  version |-> grant.version, validity |-> validity]

GiveNothing ==
    /\ grant.phase = "asked"
    /\ grant' = [phase |-> "refused"]

\* What was decided and is not given yet may be dropped: the request is open again.
Reopen ==
    grant' = IF grant.phase \in {"allowed", "decided"}
             THEN Asked(grant.want, grant.useCase) ELSE grant

GrantStep == Ask \/ Decide \/ Allow \/ Cut \/ Give \/ GiveNothing \/ Reopen

-----------------------------------------------------------------------------
(* The calls *)

Moves(q, state) == call' = [call EXCEPT ![q] = state]

Present(q) ==
    /\ call[q].phase = "idle"
    /\ \E u \in UseCases \cup {NoUseCase}, asks \in SUBSET Scopes :
        Moves(q, [phase |-> "asked", useCase |-> u, asks |-> asks])

Judged(q, phase, scopes, v) ==
    [phase |-> phase, useCase |-> call[q].useCase, asks |-> call[q].asks,
     scopes |-> scopes, version |-> v]

\* By the controller's scope policy.
Judge(q) ==
    /\ call[q].phase = "asked" /\ call[q].useCase = NoUseCase
    /\ grant.phase = "given"
    /\ \E v \in Readable(Controller) :
        /\ policy[Controller][v] # NoPolicy
        /\ Moves(q, Judged(q, "decided",
                grant.left \cap policy[Controller][v].scopes \cap call[q].asks, v))

\* By the policy for the use case, which must be the consent's if it has one.
JudgeUseCase(q) ==
    LET u == call[q].useCase IN
    /\ call[q].phase = "asked" /\ u # NoUseCase
    /\ grant.phase = "given" /\ grant.useCase \in {u, NoUseCase}
    /\ \E v \in Readable(u) :
        /\ policy[u][v] # NoPolicy
        /\ policy[u][v].limit # 0 => grant.validity <= policy[u][v].limit
        /\ Moves(q, Judged(q, "decided", grant.left \cap call[q].asks, v))

Permit(q) ==
    /\ call[q].phase = "decided" /\ call[q].scopes # {}
    /\ Moves(q, Judged(q, "permitted", call[q].scopes, call[q].version))

Refuse(q) ==
    /\ call[q].phase \in {"idle", "asked"}
    /\ Moves(q, [phase |-> "refused"])

CallStep(q) == Present(q) \/ Judge(q) \/ JudgeUseCase(q) \/ Permit(q) \/ Refuse(q)

-----------------------------------------------------------------------------

\* What is not recorded is lost.
Restart ==
    /\ Reopen
    /\ call' = [q \in Calls |-> [phase |-> "idle"]]

Next ==
    \/ UNCHANGED <<grant, call>> /\ WorldStep
    \/ /\ UNCHANGED world
       /\ \/ UNCHANGED call /\ GrantStep
          \/ UNCHANGED grant /\ \E q \in Calls : CallStep(q)
          \/ Restart

Spec == Init /\ [][Next]_vars
=============================================================================
