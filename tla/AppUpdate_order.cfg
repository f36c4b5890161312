SPECIFICATION AppFairSpec
CONSTANTS
    MaxVersion = 2
    MaxStarts = 3
    MaxAppFaults = 1
    MaxAppReboots = 2
INVARIANTS
    AppTypeOK
    SuccessIsNew
PROPERTIES
    Vm2First
    AppRunEnds
CHECK_DEADLOCK FALSE
