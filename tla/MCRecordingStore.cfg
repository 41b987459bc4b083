SPECIFICATION Spec
CONSTANTS
    MaxFiles = 2
    MaxDirs = 1
    MaxLines = 2
    FdLimit = 4
    Ordered = TRUE
CONSTRAINT Lasting
INVARIANTS
    TypeOK
    SavedKept
    TargetNotSaved
