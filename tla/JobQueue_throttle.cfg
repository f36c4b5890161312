SPECIFICATION Spec
CONSTANTS
    m1 = m1
    m2 = m2
    p1 = p1
    p2 = p2
    NoMailbox = NoMailbox
    Mailboxes <- TwoMailboxes
    Requests <- OneRequest
    ClaimBatch = 2
    MaxTries = 2
    ConcurrentLimit = 1
    RateLimit = 2
    MaxJobs = 3
    MaxRuns = 3
    MaxCrashes = 1
    MaxLeaks = 1
SYMMETRY Symmetry
INVARIANTS
    NoStaleRun
    ConcurrencyWithinPolicy
    RateWithinPolicy
PROPERTIES
    NoOvertaking
    FinishedIsFinal
CHECK_DEADLOCK FALSE
