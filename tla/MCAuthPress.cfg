SPECIFICATION Spec
CONSTANTS
    pw1 = pw1
    pw2 = pw2
    NoPassword = NoPassword
    Passwords <- MCPasswords
    StartCreds <- MCStartCreds
    MaxFlows = 2
    MaxPresses = 2
    MaxFails = 1
    MaxReboots = 1
INVARIANTS NextPressCounts
CHECK_DEADLOCK FALSE
