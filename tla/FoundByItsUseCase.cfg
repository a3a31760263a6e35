CONSTANTS
    Controllers = {c1, c2}
    UseCases = {u1, u2}
    NoUseCase = NoUseCase
    Calls = {p1, p2}
    NoArtefact = NoArtefact
SPECIFICATION SignedSpec
SYMMETRY SignedSymmetry
CHECK_DEADLOCK FALSE
INVARIANTS
    FoundByItsUseCase
