SPECIFICATION Spec
CONSTANTS
    MaxUploads = 3
    Slots = {s1, s2}
    QueueDepth = 1
    MaxJobs = 1
    MaxActs = 2
    MaxCuts = 1
CHECK_DEADLOCK FALSE
INVARIANTS
    KeptAsTold
    OnlyOwnTimers
