SPECIFICATION Spec
CONSTANTS
    NumDI = 1
    QueueDepth = 2
    OverflowSlots = 2
    MaxEdges = 2
    MaxConnects = 0
    MaxOther = 0
    MaxAborts = 1
INVARIANTS NoLevelLost
