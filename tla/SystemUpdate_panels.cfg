SPECIFICATION Spec
CONSTANTS
    p1 = p1
    p2 = p2
    Hosts <- BothVms
    Panels <- TwoPanels
    MaxRuns = 2
    MaxFaults = 1
    MaxCrashes = 1
    MaxReboots = 1
INVARIANTS
    TypeOK
    InstalledOnce
    SuccessIsTruthful
    NoStuckRun
SYMMETRY Alike
CHECK_DEADLOCK FALSE
