SPECIFICATION Spec
CONSTANTS
    Targets <- MCTargets
    ShortWrites <- MCShortWrites
    OpenMayFail = TRUE
    StartAgain = TRUE
    MaxRows = 2
INVARIANTS
    TypeOK
    StopLag
    ClosedWhenHalted
    GridLimit
    CountCoversFile
CHECK_DEADLOCK FALSE
