CONSTANTS
    Programs <- FlaggedPrograms
    Width = 3
    Randoms = {5}
SPECIFICATION Spec
INVARIANTS
    ValueKept
