\* Each of these is refuted; one is checked at a time, the others are comments.
CONSTANTS
    m1 = m1
    m2 = m2
    Msgs = {m1, m2}
    Texts <- SomeTexts
    Excluded = {m1}
    Old = {m2}
    MaxAttempts = 2
    MaxFailures = 1
    MaxCrashes = 1
    MaxEdits = 2
SPECIFICATION Spec
CHECK_DEADLOCK FALSE
PROPERTY KeptStaysCounted
\* PROPERTY SuccessIsComplete
\* INVARIANT AcceptedStarts
