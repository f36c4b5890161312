\* Each of these is refuted; one is checked at a time, the others are comments.
SPECIFICATION Spec
CONSTANTS
    p1 = p1
    p2 = p2
    a = a
    b = b
    Worker = Worker
    Abandoned = Abandoned
    Passwords <- TwoPasswords
    Requests <- OneRequest
    MaxGen = 1
    MaxId = 1
    MaxJobs = 1
    MaxFaults = 1
    MaxCrashes = 1
CHECK_DEADLOCK FALSE
INVARIANT NoOrphan
\* PROPERTY Mirrored
\* INVARIANT DeletedMailIsGone
\* INVARIANT NoDivergence
\* INVARIANT StoredPasswordWorks
