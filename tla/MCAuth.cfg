SPECIFICATION FairSpec
CONSTANTS
    pw1 = pw1
    pw2 = pw2
    NoPassword = NoPassword
    Passwords <- MCPasswords
    StartCreds <- MCStartCreds
    MaxFlows = 3
    MaxPresses = 2
    MaxFails = 1
    MaxReboots = 1
INVARIANTS LedGivenBack ListensUnlessRaced OnePassword
PROPERTIES KeepsItsTime EveryFlowEnds
CHECK_DEADLOCK FALSE
