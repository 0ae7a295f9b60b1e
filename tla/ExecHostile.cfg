SPECIFICATION ExecSpec
CONSTANTS
    s1 = s1
    i1 = i1
    i2 = i2
    Sessions = {s1}
    Inputs = {i1}
    Anonymous = {}
    Retried = {}
    Turns <- MCTurns
    SessionOf <- MCSessionOf
    InputSession <- MCInputSession
    MaxConcurrentTurns = 1
    MaxResumeAttempts = 0
    MaxRestarts = 0
    Events = {"reconnectLive", "cancelRunning", "staleSave"}
    NoTurn = NoTurn
    NoSession = NoSession
INVARIANTS
    ExclusiveExecution
CHECK_DEADLOCK FALSE
