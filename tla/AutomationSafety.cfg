SPECIFICATION Spec
CONSTANTS
    a1 = a1
    a2 = a2
    Automations = {a1}
    Schedules <- TwoRecurring
    MaxRetries = 3
    Horizon = 6
    MaxRestarts = 0
    Events = {"pauseWhenListed"}
INVARIANTS
    
    CadenceKept
PROPERTIES
    CapAfterRetries
    PauseSurvives
CHECK_DEADLOCK FALSE
