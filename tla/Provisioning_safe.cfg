SPECIFICATION Spec
CONSTANTS
    p1 = p1
    p2 = p2
    a = a
    b = b
    Worker = Worker
    Abandoned = Abandoned
    Passwords <- TwoPasswords
    Requests <- OneRequest
    MaxGen = 3
    MaxId = 2
    MaxJobs = 1
    MaxFaults = 1
    MaxCrashes = 1
INVARIANTS
    TypeOK
    AgreeUnlessTorn
    NoDivergenceWithoutFaults
SYMMETRY AlikePasswords
CHECK_DEADLOCK FALSE
