CONSTANTS
    p1 = p1
    p2 = p2
    Calls = {p1, p2}
    Nobody = Nobody
    NotFound = {0, 2}
    MaxAges = {0, 9}
    SoftTtl = 3
    HardTtl = 4
    NegativeTtl = 2
    MaxFetch = 2
    MaxChanges = 2
    MaxTime = 7
SPECIFICATION CacheFairSpec
INVARIANTS
    WithdrawnWithinHardTtl
    WithdrawnWithinTtl
PROPERTIES
    SourceRefined
    PmLeftAlone
    AnswersMoveForward
    WaitingEnds
