SPECIFICATION Spec
CONSTANTS
    u1 = u1
    u2 = u2
    b1 = b1
    b2 = b2
    c1 = c1
    c2 = c2
    NoUser = NoUser
    Users <- TwoUsers
    Browsers <- TwoBrowsers
    Codes <- TwoCodes
    MaxCred = 2
    MaxRows = 1
INVARIANTS
    TypeOK
    ActiveAdminLeft
    CodesUsedUp
PROPERTIES
    SetupIsFinal
    SetupLeavesAdmin
SYMMETRY Alike
CHECK_DEADLOCK FALSE
