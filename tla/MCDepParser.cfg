CONSTANTS
    Files <- MCFiles
    MaxFiles = 2
SPECIFICATION Spec
INVARIANTS
    TableIsTermGraph
    FileIsAdded
    OrderIsValid
    NamesAreUnique
