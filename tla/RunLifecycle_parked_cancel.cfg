SPECIFICATION FairSpec
CONSTANTS
    None = None
    r1 = r1
    r2 = r2
    w1 = w1
    w2 = w2
    q1 = q1
    q2 = q2
    Runs <- OneRun
    Workers <- OneWorker
    Requests <- OneRequest
    OpKinds <- AllOps
    TimedRuns <- Nothing
    MaxNodes = 1
    MaxAttempts = 1
    MaxRequeues = 1
    ProcessEvents <- Nothing
    MayWait = FALSE
PROPERTIES
    ParkedWorkerIsReleased
CHECK_DEADLOCK FALSE
