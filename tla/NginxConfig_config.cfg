SPECIFICATION Spec
CONSTANTS
    r1 = r1
    r2 = r2
    z0 = z0
    z1 = z1
    good1 = "good1"
    good2 = "good2"
    bad = "bad"
    Requests <- TwoRequests
    Timer = Timer
    Zones <- TwoZones
    NoZones = z0
    Uploads <- TwoUploads
    Refused <- RefusedUpload
    MaxChanges = 3
    MaxFaults = 1
INVARIANTS
    TypeOK
    StartsAgain
    PanelAgrees
SYMMETRY Symmetry
CHECK_DEADLOCK FALSE
