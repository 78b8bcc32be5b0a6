SPECIFICATION MpFairSpec
CONSTANTS
    tcp = tcp
    rtu = rtu
    http = http
    Keep = Keep
    Low = Low
    None = None
    Nobody = Nobody
    N = 2
    Freqs = {1, 2}
    Duties = {1, 2}
    Bits <- MCBits
    Configs <- MCConfigs
    PwmWrites <- MCPwmWrites
    Writers = {tcp, rtu}
    Http = http
    Volts = {0, 1, 2}
    Step = 2
    Requests <- MCRequests
    Bases = {1, 2}
    CmdDepth = 2
    Scenarios <- MCScenarios
    MaxFails = 1
INVARIANTS PadInv RefusedMovesNothing
PROPERTIES PwmWhole TellsAll
CHECK_DEADLOCK FALSE
