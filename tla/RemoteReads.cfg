SPECIFICATION ReadsSpec
CONSTANTS
    Calls = {p1, p2}
    Kids = {k1, k2}
    Codes = {a}
    NoKid = NoKid
    NoEntry = NoEntry
    Ttl = 2
    FailureTtl = 1
    Cooldown = 1
    MaxChanges = 1
    MaxClock = 3
SYMMETRY Symmetry
INVARIANTS
    AnswersWithinTtl
    NewKeyIsFound
    FreeTextForAReason


