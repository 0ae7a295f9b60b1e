SPECIFICATION FairSpec
CONSTANTS
    s1 = s1
    s2 = s2
    s3 = s3
    t1 = t1
    t2 = t2
    t3 = t3
    t4 = t4
    Sessions <- TwoSessions
    Turns <- ThreeTurns
    SessionOf <- SessionOfThree
    MaxConcurrentTurns = 1
    NoTurn = NoTurn
    NoSession = NoSession
INVARIANTS
    TypeOK
    PermitsExact
    NoLostWakeup
    NoPermitLeak
    QueueReasonTruthful
PROPERTIES
    SessionFIFO
    WaiterServed
    ImplementsSessionQueues
