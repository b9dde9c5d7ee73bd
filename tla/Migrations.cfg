SPECIFICATION FairSpec
CONSTANTS
    p1 = p1
    p2 = p2
    Processes <- TwoProcesses
    Last = 8
    Tables <- MCTables
    Columns <- MCColumns
    Indexes <- MCIndexes
    Users = 3
    MaxCrashes = 2
INVARIANTS
    RecordedIsApplied
    ServingIsComplete
PROPERTIES
    EverybodyServes
CHECK_DEADLOCK FALSE
