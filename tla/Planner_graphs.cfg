SPECIFICATION PlannerSpec
CONSTANTS
    Ids <- MCIds
    Workflows <- MCWorkflows
INVARIANTS
    PlanIsTopological
    CycleIsFound
CHECK_DEADLOCK FALSE
