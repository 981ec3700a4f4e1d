SPECIFICATION Spec
CONSTANTS
    Lst <- FourFiles
    Present <- ThreeFiles
    Skips <- OneOrTwo
    MaxFaults = 2
INVARIANTS
    CountsFiles
    OpenOnlyAfterKill
PROPERTIES
    StoredIsKept
    RunCoversFiles
    AllReported
