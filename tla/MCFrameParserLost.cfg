SPECIFICATION Spec
CONSTANTS
    Payloads <- MCShortPayloads
    MaxFrames = 2
    MaxSessions = 2
INVARIANT
    EveryFrameHandled
CHECK_DEADLOCK FALSE
