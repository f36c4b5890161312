SPECIFICATION Spec
CONSTANTS
    s1 = s1
    s2 = s2
    s3 = s3
    None = None
    Sessions <- TwoSessions
    Panel <- TwoSessions
    OnLoop <- Async
    Zone = "Europe/Warsaw"
    MaxId = 2
INVARIANTS
    ChainIntact
CHECK_DEADLOCK FALSE
