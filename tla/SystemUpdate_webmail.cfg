SPECIFICATION FairSpec
CONSTANTS
    p1 = p1
    p2 = p2
    Hosts <- Webmail
    Panels <- OnePanel
    MaxRuns = 2
    MaxFaults = 1
    MaxCrashes = 1
    MaxReboots = 1
INVARIANTS
    TypeOK
    InstalledOnce
    SuccessIsTruthful
PROPERTIES
    RunEnds
CHECK_DEADLOCK FALSE
