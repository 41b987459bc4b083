SPECIFICATION Spec
CONSTANTS
    Buffer = 2
    Lengths = {3}
    MaxLoads = 3
    MaxSessions = 2
CONSTRAINT Few
INVARIANTS
    CodeMeansAll
    NewerLoadAlone
    ReleasedOnce
PROPERTY
    LoadEnds
CHECK_DEADLOCK FALSE
