SPECIFICATION FairSpec
CONSTANTS
    m1 = m1
    m2 = m2
    p1 = p1
    p2 = p2
    NoMailbox = NoMailbox
    Mailboxes <- OneMailbox
    Requests <- OneRequest
    ClaimBatch = 2
    MaxTries = 2
    ConcurrentLimit = 1
    RateLimit = 1
    MaxJobs = 2
    MaxRuns = 2
    MaxCrashes = 0
    MaxLeaks = 0
PROPERTIES
    FailedJobIsRetried
CHECK_DEADLOCK FALSE
