CONSTANTS
    c1 = c1
    c2 = c2
    c3 = c3
    c4 = c4
    q1 = q1
    q2 = q2
    p1 = p1
    w1 = w1
    alice = alice
    bob = bob
    bank = bank
    nid = nid
    passport = passport
    read = read
    write = write
    Calls = {p1}
    Sweeps = {w1}
    Presentations = {q1, q2}
    NoArtefact = NoArtefact
    Scopes = {read, write}
    Consents = {c1, c2, c3, c4}
    Tokens = {c3}
    Says <- MCSays
    MaxClock = 1
SYMMETRY Symmetry
SPECIFICATION PresentedSpec
INVARIANTS
    WithdrawnStaysRefused
    PermitWithinValidity
    ReuseIsRefused
    PermitLoggedOnce
PROPERTIES
    DecisionRefined
