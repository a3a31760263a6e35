---------------------------- MODULE PolicySource ----------------------------
(***************************************************************************)
(* What the handlers may count on when they ask one pod for a partner's    *)
(* policy: Partner Management publishes one version after the other; an    *)
(* answer is one of the versions that may still be served, which are the   *)
(* latest ones, fewer of them unless Partner Management cannot be reached; *)
(* and no answer is older than the one before it.                          *)
(*                                                                         *)
(* PmPolicyCache implements this specification. ConsentGrants reads        *)
(* policies as it allows: any version from the oldest still served on      *)
(* (Windows), which never becomes an older one (WindowsMoveForward).       *)
(***************************************************************************)
EXTENDS Naturals

VARIABLES
    current,  \* the version in force
    readable, \* the versions that may still be served in an outage
    fresh,    \* those that may be served otherwise
    answer    \* the last answer, and whether it was given in an outage

vars == <<current, readable, fresh, answer>>

Init ==
    /\ current = 0
    /\ readable = {0}
    /\ fresh = {0}
    /\ answer = [version |-> 0, outage |-> FALSE]

Publish ==
    /\ current' = current + 1
    /\ readable' = readable \cup {current'}
    /\ fresh' = fresh \cup {current'}
    /\ UNCHANGED answer

\* Of these versions the oldest are dropped, if any; the last one stays.
DropsOldest(old, new) ==
    /\ current \in new /\ new \subseteq old
    /\ \A v \in old \ new, w \in new : v < w

Forget ==
    /\ DropsOldest(readable, readable')
    /\ DropsOldest(fresh, fresh')
    /\ UNCHANGED <<current, answer>>

Answer(v, outage) ==
    /\ v \in IF outage THEN readable ELSE fresh
    /\ v >= answer.version
    /\ answer' = [version |-> v, outage |-> outage]
    /\ UNCHANGED <<current, readable, fresh>>

Next ==
    \/ Publish
    \/ Forget
    \/ \E v \in readable \cup fresh, outage \in BOOLEAN : Answer(v, outage)

Spec == Init /\ [][Next]_vars

\* What may be served are the versions from some version on ...
IsWindow(set) == \E oldest \in 0..current : set = oldest..current

Windows == IsWindow(readable) /\ IsWindow(fresh)

\* ... and a version that may not be served any more never may be again.
MovesForward ==
    \A v \in 0..current : /\ v \notin readable => v \notin readable'
                          /\ v \notin fresh => v \notin fresh'

WindowsMoveForward == [][MovesForward]_vars
=============================================================================
