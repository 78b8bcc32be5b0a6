SPECIFICATION FairSpec
CONSTANTS
    NumDI = 1
    QueueDepth = 2
    OverflowSlots = 2
    MaxEdges = 2
    MaxConnects = 1
    MaxOther = 2
    MaxAborts = 2
INVARIANTS NoLevelLostUnlessCut
PROPERTIES LostOnlyToCleared HeldUnlessMissed TimersInOrder Settles
