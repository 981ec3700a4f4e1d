CONSTANTS
    Programs <- MCPrograms
    Width = 2
    Randoms = {1, 2}
SPECIFICATION Spec
INVARIANTS
    ValueKept
    UsesAreDominated
PROPERTIES
    PassEnds
