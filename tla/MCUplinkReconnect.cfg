SPECIFICATION FairSpec
CONSTANTS
    QueueCap = 2
    Repeats = 2
    MaxPkts = 1
    MaxMsgs = 3
    MaxConns = 2
INVARIANTS
    TransmitBound
    FreshQueue
PROPERTIES
    QueueDrains
    KeepsPromise
CHECK_DEADLOCK FALSE
