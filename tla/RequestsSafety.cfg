SPECIFICATION RequestsSpec
CONSTANTS
    c1 = c1
    c2 = c2
    a1 = a1
    q1 = q1
    w1 = w1
    Approvals = {a1}
    Questions = {q1}
    Tools = {w1}
    Conns = {c1, c2}
    Capable = {c2}
    Closes = TRUE
INVARIANTS
    RequestsInv
    ApprovalsShown
    GrantStable
CHECK_DEADLOCK FALSE
