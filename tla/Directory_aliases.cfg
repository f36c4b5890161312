CONSTANTS
    s1 = s1
    s2 = s2
    n1 = n1
    n2 = n2
    u1 = u1
    u2 = u2
    p1 = p1
    p2 = p2
    Sources = {s1}
    Names = {s1, n1, n2}
    Users = {u1, u2}
    Quotas = {0}
    File <- Untidy
    Admins = {p1, p2}
    Worker = worker
    None = None
    MaxMail = 2
    MaxFaults = 1
    MaxRenames = 1
    MaxRequests = 5
SPECIFICATION Spec
SYMMETRY Symmetry
CHECK_DEADLOCK FALSE
INVARIANTS
    TypeOK
    SidesAgree
    OneMailbox
