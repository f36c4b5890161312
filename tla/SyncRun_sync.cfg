CONSTANTS
    m1 = m1
    m2 = m2
    Msgs = {m1, m2}
    Texts <- SomeTexts
    Excluded = {m1}
    Old = {m2}
    MaxAttempts = 2
    MaxFailures = 1
    MaxCrashes = 1
    MaxEdits = 2
SPECIFICATION FairSpec
CHECK_DEADLOCK FALSE
INVARIANT
    TypeOK
PROPERTIES
    SyncsAreSafe
    GetsCopied
