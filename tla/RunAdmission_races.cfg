SPECIFICATION Spec
CONSTANTS
    None = None
    r1 = r1
    r2 = r2
    r3 = r3
    r4 = r4
    q1 = q1
    q2 = q2
    k1 = k1
    k2 = k2
    Runs <- FourRuns
    Requests <- TwoRequests
    Keys <- TwoKeys
    Limit = 2
SYMMETRY Symmetry
INVARIANTS
    LimitExceededByRacesOnly
    KeySharedByRacesOnly
    RepeatIsAnswered
CHECK_DEADLOCK FALSE
