SPECIFICATION TokenSpec
CONSTANTS
    Consents = {c1, c2}
    Calls = {p1}
    Sweeps = {w1}
    MaxClock = 2
    Validations = {v1}
    Controllers = {k1, k2}
    TokenTTL = 1
INVARIANTS
    RevocationReachesTokens
    NoPermitAfterWithdrawal
    TokensAreLogged
    TokensWithinValidity
PROPERTIES
    AnswersRefined
