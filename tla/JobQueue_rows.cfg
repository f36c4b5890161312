SPECIFICATION FairSpec
CONSTANTS
    m1 = m1
    m2 = m2
    p1 = p1
    p2 = p2
    NoMailbox = NoMailbox
    Mailboxes <- OneMailbox
    Requests <- OneRequest
    ClaimBatch = 2
    MaxTries = 2
    ConcurrentLimit = 1
    RateLimit = 1
    MaxJobs = 3
    MaxRuns = 4
    MaxCrashes = 1
    MaxLeaks = 1
INVARIANTS
    TypeOK
    RunningIsHeld
    NoStaleRun
    ConcurrencyWithinPolicy
PROPERTIES
    ImplementsQueue
    DeletedStaysDeleted
    NoOvertaking
    QueuedIsServed
    RunEndsUnlessLeaked
    DueIsEnqueued
CHECK_DEADLOCK FALSE
