SPECIFICATION StreamSpec
CONSTANTS
    c1 = c1
    c2 = c2
    tm1 = tm1
    tm2 = tm2
    Clients = {c1}
    Timers = {tm1}
    MaxChunks = 3
    FlushChunks = 2
    ChanSize = 1
    MaxJoins = 2
INVARIANTS
    StreamInv
    BufferAttended
    CancelNeverSuccess
    NoMissedFrame
CHECK_DEADLOCK FALSE
