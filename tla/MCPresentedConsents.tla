------------------------ MODULE MCPresentedConsents ------------------------
EXTENDS PresentedConsents, TLC

CONSTANTS c1, c2, c3, c4, q1, q2, p1, w1, alice, bob, bank, nid, passport, read, write

\* One jti: c2 is of another subject than c1, c3 has her id under another type,
\* c4 differs from c1 in its scopes only.
MCSays ==
    [c \in Consents |->
        [partner |-> bank,
         idType  |-> IF c = c3 THEN passport ELSE nid,
         idValue |-> IF c = c2 THEN bob ELSE alice,
         scopes  |-> IF c \in {c3, c4} THEN {read} ELSE {read, write}]]

\* The calls are alike: none is named, and the properties are about safety only.
Symmetry == Permutations(Presentations)
=============================================================================
