SPECIFICATION Spec
CONSTANTS
    meter = meter
    pump = pump
    Rows <- MCRows
    Tables <- MCTables
    Hosts = {meter, pump}
    Literal = {pump}
    Segment = Segment
    Unused = Unused
    Addrs = {a1, a2}
    NoAddr = NoAddr
    ConnCache = 1
    MaxStarts = 1
    MaxChanges = 1
INVARIANTS OwnAnswer Inv
PROPERTIES RowsAreRead TableSettles
