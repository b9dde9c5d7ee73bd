SPECIFICATION FairSpec
CONSTANTS
    None = None
    r1 = r1
    r2 = r2
    w1 = w1
    w2 = w2
    q1 = q1
    q2 = q2
    Runs <- TwoRuns
    Workers <- OneWorker
    Requests <- OneRequest
    OpKinds <- AllOps
    TimedRuns <- Nothing
    MaxNodes = 1
    MaxAttempts = 1
    MaxRequeues = 1
    ProcessEvents <- ShutdownsOnly
    MayWait = FALSE
PROPERTIES
    RequestsAreAnswered
    EveryRunSettles
CHECK_DEADLOCK FALSE
