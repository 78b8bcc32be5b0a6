SPECIFICATION FairSpec
CONSTANTS
    mqtt = mqtt
    http = http
    Nobody = Nobody
    Outs = {1, 2}
    Callers <- MCCallers
    StartInverts <- MCStartInverts
    ReapplyTries = 2
    Mqtt = mqtt
    Http = http
    Requests <- MCRequests
    MaxCalls = 2
    MaxFails = 2
    MaxConnects = 1
    MaxSaves = 1
INVARIANTS RelaysAsReported
PROPERTIES OneAtATime PublishedSettles
CHECK_DEADLOCK FALSE
