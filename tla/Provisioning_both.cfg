SPECIFICATION FairSpec
CONSTANTS
    p1 = p1
    p2 = p2
    a = a
    b = b
    Worker = Worker
    Abandoned = Abandoned
    Passwords <- TwoPasswords
    Requests <- OneRequest
    MaxGen = 2
    MaxId = 2
    MaxJobs = 1
    MaxFaults = 1
    MaxCrashes = 1
INVARIANTS
    TypeOK
    MachinesAgree
PROPERTIES
    OverrideKept
    PendingIsProvisioned
CHECK_DEADLOCK FALSE
