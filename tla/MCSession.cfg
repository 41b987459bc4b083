SPECIFICATION Spec
CONSTANTS
    MaxSerial = 3
    MaxUnread = 1
INVARIANTS
    TypeOK
    OffBetweenClients
    LedsFollow
PROPERTIES
    LostClientEnds
    RestartTakesEffect
CHECK_DEADLOCK FALSE
