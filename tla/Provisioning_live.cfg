SPECIFICATION FairSpec
CONSTANTS
    p1 = p1
    p2 = p2
    a = a
    b = b
    Worker = Worker
    Abandoned = Abandoned
    Passwords <- TwoPasswords
    Requests <- TwoRequests
    MaxGen = 1
    MaxId = 1
    MaxJobs = 1
    MaxFaults = 0
    MaxCrashes = 1
PROPERTIES
    OverrideKept
    PendingIsProvisioned
CHECK_DEADLOCK FALSE
