-------------------------- MODULE MCConsentGrants --------------------------
EXTENDS ConsentGrants, TLC

CONSTANTS c1, c2, read, write

\* A wide policy that allows any validity, and a narrow one.
Wide == [scopes |-> {read, write}, limit |-> 0]
MCPolicies == {Wide, [scopes |-> {read}, limit |-> 1]}
MCFirstPolicies == {Wide}

\* What a use case needs, before and after it is changed.
MCOffers == {[c \in Controllers |-> IF c = c1 THEN {read} ELSE {read, write}],
             [c \in Controllers |-> IF c = c1 THEN {} ELSE {read}]}

\* Of one controller more is requested than of the other.
MCRequests == {[c \in Controllers |-> IF c = c1 THEN {read} ELSE {read, write}]}

MCAsks == {{read}, {read, write}}

\* The two use cases are interchangeable.
UseCaseSymmetry == Permutations(UseCases)
=============================================================================
