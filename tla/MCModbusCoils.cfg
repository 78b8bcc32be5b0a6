SPECIFICATION CFairSpec
CONSTANTS
    cmd = cmd
    mqtt = mqtt
    http = http
    tcp = tcp
    rtu = rtu
    Nobody = Nobody
    Outs = {1, 2}
    Callers <- MCCallers
    StartInverts <- MCStartInverts
    ReapplyTries = 2
    Mqtt = mqtt
    Http = http
    Cmd = cmd
    Clients <- MCClients
    CoilWrites <- MCCoilWrites
    Requests <- MCRequests
    CmdDepth = 2
    MaxCalls = 1
    MaxFails = 1
    MaxConnects = 0
    MaxSaves = 0
    MaxWrites = 3
INVARIANTS CoilInv
PROPERTIES AcceptedIsRun
CHECK_DEADLOCK FALSE
