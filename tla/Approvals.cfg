SPECIFICATION FairSpec
CONSTANTS
    None = None
    w1 = w1
    w2 = w2
    o1 = o1
    Workers <- TwoWorkers
    Operators <- OneOperator
    Gates = 2
    MaxTasks = 3
INVARIANTS
    
    DecisionsAreHuman
    GatesPassedOnce
PROPERTIES
    WaitingEnds
CHECK_DEADLOCK FALSE
