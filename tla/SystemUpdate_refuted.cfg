\* Each of these is refuted; one is checked at a time, the others are comments.
SPECIFICATION FairSpec
CONSTANTS
    p1 = p1
    p2 = p2
    Hosts <- Vm1
    Panels <- OnePanel
    MaxRuns = 2
    MaxFaults = 2
    MaxCrashes = 1
    MaxReboots = 1
CHECK_DEADLOCK FALSE
INVARIANT SuccessIsAudited
\* INVARIANT BackupFirst
\* INVARIANT FlagMeansNeeded
\* PROPERTY NotResumed
\* PROPERTY RunAlwaysEnds
