SPECIFICATION ExecSpec
CONSTANTS
    s1 = s1
    i1 = i1
    i2 = i2
    Sessions = {s1}
    Inputs = {i1, i2}
    Anonymous = {}
    Retried = {i1}
    Turns <- MCTurns
    SessionOf <- MCSessionOf
    InputSession <- MCInputSession
    MaxConcurrentTurns = 1
    MaxResumeAttempts = 1
    MaxRestarts = 1
    Events = {}
    NoTurn = NoTurn
    NoSession = NoSession
INVARIANTS
    ExecInv
    NeverBusy
    OneTerminalEvent

    
CHECK_DEADLOCK FALSE
