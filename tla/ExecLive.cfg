SPECIFICATION ExecFairSpec
CONSTANTS
    s1 = s1
    i1 = i1
    i2 = i2
    Sessions = {s1}
    Inputs = {i1, i2}
    Anonymous = {}
    Retried = {}
    Turns <- MCTurns
    SessionOf <- MCSessionOf
    InputSession <- MCInputSession
    MaxConcurrentTurns = 1
    MaxResumeAttempts = 0
    MaxRestarts = 1
    Events = {}
    NoTurn = NoTurn
    NoSession = NoSession
PROPERTIES
    EventuallySettled
CHECK_DEADLOCK FALSE
