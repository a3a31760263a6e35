SPECIFICATION GrantsSpec
CONSTANTS
    c1 = c1
    c2 = c2
    read = read
    write = write
    Controllers = {c1, c2}
    UseCases = {u1, u2}
    Scopes = {read, write}
    Policies <- MCPolicies
    FirstPolicies <- MCFirstPolicies
    Offers <- MCOffers
    Requests <- MCRequests
    Asks <- MCAsks
    Calls = {p1}
    NoPolicy = NoPolicy
    NoUseCase = NoUseCase
    NoConsent = NoConsent
    MaxValidity = 2
    MaxChanges = 1
SYMMETRY UseCaseSymmetry
INVARIANTS
    NeverBeyondAgreed
    PermitsWithinLoggedPolicy
    PermitByCurrentPolicy
PROPERTIES
    DecidedPerController
