SPECIFICATION Spec
CONSTANTS
    None = None
    r1 = r1
    r2 = r2
    w1 = w1
    w2 = w2
    q1 = q1
    q2 = q2
    Runs <- OneRun
    Workers <- TwoWorkers
    Requests <- TwoRequests
    OpKinds <- AllOps
    TimedRuns <- OneRun
    MaxNodes = 1
    MaxAttempts = 2
    MaxRequeues = 1
    ProcessEvents <- CrashesOnly
    MayWait = TRUE
SYMMETRY Symmetry
INVARIANTS
    ExclusiveUntilRequeued
    PromptStop
    ActiveRunHasWorker
PROPERTIES
    TerminalIsFinal
    NoNodeAfterEnd
CHECK_DEADLOCK FALSE
