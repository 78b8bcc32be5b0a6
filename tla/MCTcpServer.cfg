SPECIFICATION TcpFairSpec
CONSTANTS
    w1 = w1
    Conns <- MCConns
    Slots <- MCSlots
    Workers <- MCWorkers
    Slow <- MCSlow
    MaxItems = 2
INVARIANTS Inv
PROPERTIES SlotsAreKept ClientsAreServed
CHECK_DEADLOCK FALSE
