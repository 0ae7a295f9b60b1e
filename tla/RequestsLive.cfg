SPECIFICATION RequestsFairSpec
CONSTANTS
    c1 = c1
    c2 = c2
    a1 = a1
    q1 = q1
    w1 = w1
    Approvals = {a1}
    Questions = {q1}
    Tools = {w1}
    Conns = {c1}
    Capable = {}
    Closes = TRUE
PROPERTIES
    CloseReleases
    QuestionEnds
CHECK_DEADLOCK FALSE
