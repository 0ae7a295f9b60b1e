SPECIFICATION BgFairSpec
CONSTANTS
    t1 = t1
    t2 = t2
    j1 = j1
    Turns = {t1}
    Users = {t1}
    Stoppable = {t1}
    Jobs = {j1}
    MaxParks = 1
    Events = {"connect", "archive", "suspend", "restart"}
    MaxEvents = 2
    NoTurn = NoTurn
INVARIANTS
    BgInv
    StopReachesAttempts
    
    NoMissedCompletion
PROPERTIES
    ReadyResumes
CHECK_DEADLOCK FALSE
