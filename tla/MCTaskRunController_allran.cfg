SPECIFICATION Spec
CONSTANTS
    TaskRuns <- OnlyChained
    Names <- MCNames
    Actions <- DriftActions
    Params <- MCParams
    Producing <- MCProducing
    InitialDefinitions <- DriftDefinitions
    Definitions <- MCDefinitions
    LogsMayFail = TRUE
    MaxFaults = 0
    MaxDefChanges = 1
    MaxCount = 2
INVARIANTS
    AllStepsRan
CHECK_DEADLOCK FALSE
