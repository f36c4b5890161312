SPECIFICATION FairSpec
CONSTANTS
    s1 = s1
    s2 = s2
    s3 = s3
    None = None
    Sessions <- TwoSessions
    Panel <- TwoSessions
    OnLoop <- Async
    Zone = "UTC"
    MaxId = 4
INVARIANTS
    TypeOK
    ChainIntact
PROPERTIES
    Implements
    TransactionEnds
CHECK_DEADLOCK FALSE
