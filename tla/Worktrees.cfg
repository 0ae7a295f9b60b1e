SPECIFICATION WorktreeFairSpec
CONSTANTS
    c1 = c1
    c2 = c2
    r1 = r1
    r2 = r2
    q1 = q1
    q2 = q2
    t1 = t1
    Creates = {c1, c2}
    Removes = {r1, r2}
    Requests = {q1, q2}
    Forced = {q2}
    Turns = {t1}
    Overlap = TRUE
    MaxCrashes = 1
    Boot = Boot
    NoRequest = NoRequest
INVARIANTS
    WorktreeInv
    TurnKeepsCheckout
PROPERTIES
    WorkKept
    
CHECK_DEADLOCK FALSE
