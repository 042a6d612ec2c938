SPECIFICATION Spec
CONSTANTS
    Ldws = {0, 1}
    Levels = {0, 1, 2}
    Red = 2
    FilterTimes = {1, 2}
    MaxAge = 2
INVARIANTS
    TypeOK
    NoOrphanEnd
    EndLostOnlyByAbandon
PROPERTY
    BeginAfterPause
