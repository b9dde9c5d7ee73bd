SPECIFICATION Spec
CONSTANTS
    None = None
    RefSize = 2
    MaxDepth = 5
    Data <- MCData
    AsText <- MCAsText
    Configs <- MCConfigs
    Inputs <- MCInputs
    ToolOutputs <- MCToolOutputs
    Drafts <- MCDrafts
    Unfit = {"unfit"}
    Sensitive = {"content"}
    Limits <- MCLimits
    Faults <- AllFaults
    MaxPauses = 1
    MaxCrashes = 1
INVARIANTS
    MemoryIsKept
    ResponseIsGuarded
    
    StoredIsWhole
    RunEndsWithItsStep
CHECK_DEADLOCK FALSE
