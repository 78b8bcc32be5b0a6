SPECIFICATION Spec
CONSTANTS
    NumDI = 1
    QueueDepth = 1
    OverflowSlots = 3
    MaxEdges = 2
    MaxConnects = 0
    MaxOther = 1
    MaxAborts = 0
PROPERTIES HeldOnFreshLevel
