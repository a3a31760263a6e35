SPECIFICATION FairSpec
CONSTANTS
    Consents = {c1, c2}
    Calls = {p1, p2}
    Sweeps = {w1}
    MaxClock = 3
INVARIANTS
    WithdrawnIsUnusable
    EndedForAReason
PROPERTIES
    StandingRefined
    LapsedLeavesActive
