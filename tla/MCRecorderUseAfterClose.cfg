SPECIFICATION Spec
CONSTANTS
    Targets <- MCTargets
    ShortWrites <- MCShortWrites
    OpenMayFail = FALSE
    StartAgain = FALSE
    MaxRows = 2
INVARIANT
    NoUseAfterClose
CHECK_DEADLOCK FALSE
