SPECIFICATION Spec
CONSTANTS
    MsgLen = 6
    BufLen = 5
    MinCnt = 3
    MaxBody = 3
    MaxNoise = 5
INVARIANTS
    TypeOK
    ResyncAfterOne
PROPERTY
    OutsideOnlyAfterLongRun
