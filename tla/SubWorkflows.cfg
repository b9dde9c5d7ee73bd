SPECIFICATION FairSubSpec
CONSTANTS
    None = None
    a = a
    b = b
    NoRoute = NoRoute
    Nodes <- MCNodes
    Routes <- MCRoutes
    Workflows <- MCWorkflows
    Names <- MCNames
    Nobody = Nobody
    sub = sub
    each = each
    deep = deep
    invalid = invalid
    Libraries <- MCLibraries
    ValidNames <- Valids
    MaxDepth = 3
    MaxRetryRuns = 1
INVARIANTS
    QueueCoherent
    ResultsMatchSteps
    JoinsHaveTheirInputs
    InlineAgrees
PROPERTIES
    ImplementsActivation
    CallingRunEnds
CHECK_DEADLOCK FALSE
