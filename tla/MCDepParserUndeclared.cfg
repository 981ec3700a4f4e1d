CONSTANTS
    Files <- UndeclaredFiles
    MaxFiles = 2
SPECIFICATION Spec
INVARIANT UndeclaredIsRefused
