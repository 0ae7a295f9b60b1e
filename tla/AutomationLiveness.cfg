SPECIFICATION FairSpec
CONSTANTS
    a1 = a1
    a2 = a2
    Automations = {a1, a2}
    Schedules <- OneRecurring
    MaxRetries = 1
    Horizon = 3
    MaxRestarts = 1
    Events = {"pauseWhenListed"}
PROPERTIES
    DueIsFired
CHECK_DEADLOCK FALSE
