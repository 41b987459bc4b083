SPECIFICATION Spec
CONSTANTS
    Payloads <- MCPayloads
    MaxFrames = 2
    MaxSessions = 2
INVARIANTS
    TypeOK
    SyncedDelivery
    HeapBalance
    BufferFits
PROPERTY
    ImplementsChannel
CHECK_DEADLOCK FALSE
