SPECIFICATION Spec
CONSTANTS
    QueueCap = 2
    Repeats = 1
    MaxPkts = 2
    MaxMsgs = 4
    MaxConns = 1
INVARIANTS
    TypeOK
    TokenBalance
    NoOvertaking
    AckCredit
    PacketIndexBound
CHECK_DEADLOCK FALSE
