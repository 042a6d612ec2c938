SPECIFICATION Spec
CONSTANTS
    QueueCap = 2
    Repeats = 1
    MaxPkts = 2
    MaxMsgs = 2
    MaxConns = 2
INVARIANT OffIsNotConnected
CHECK_DEADLOCK FALSE
