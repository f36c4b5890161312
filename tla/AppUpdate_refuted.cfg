\* Each of these is refuted; one is checked at a time, the others are comments.
SPECIFICATION AppSpec
CONSTANTS
    MaxVersion = 2
    MaxStarts = 2
    MaxAppFaults = 1
    MaxAppReboots = 0
CHECK_DEADLOCK FALSE
INVARIANT UpdatesAreWaitedFor
\* PROPERTY AlwaysVm2First
