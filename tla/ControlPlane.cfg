SPECIFICATION ControlFairSpec
CONSTANTS
    i1 = i1
    i2 = i2
    k1 = k1
    k2 = k2
    Instances = {i1, i2}
    Calls = {k1, k2}
    Overlap = FALSE
    LeaseTTL = 2
    MaxLag = 1
    NoOne = NoOne
INVARIANTS
    ControlInv
PROPERTIES
    LeaseNotStolen
    Reclaimed
CHECK_DEADLOCK FALSE
