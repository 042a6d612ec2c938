CONSTANTS
    Threads = {"ws", "snap"}
    Plans <- MCPlans
    Keep = 2
    QueueCap = 1
    MaxId = 2
SPECIFICATION FairSpec
INVARIANTS TypeOK UniqueIds RetainedWindow NothingForgotten
PROPERTY JobsFinish
