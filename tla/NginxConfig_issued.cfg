SPECIFICATION Spec
CONSTANTS
    r1 = r1
    r2 = r2
    z0 = z0
    z1 = z1
    good1 = "good1"
    good2 = "good2"
    bad = "bad"
    Requests <- OneRequest
    Timer = Timer
    Zones <- TwoZones
    NoZones = z0
    Uploads <- OneUpload
    Refused <- RefusedUpload
    MaxChanges = 3
    MaxFaults = 0
INVARIANTS
    IssuedIsActive
CHECK_DEADLOCK FALSE
