SPECIFICATION Spec
CONSTANTS
    TaskRuns <- OnlyMixed
    Names <- MCNames
    Actions <- MCActions
    Params <- MCParams
    Producing <- MCProducing
    InitialDefinitions <- MCInitialDefinitions
    Definitions <- MCDefinitions
    LogsMayFail = TRUE
    MaxFaults = 0
    MaxDefChanges = 0
    MaxCount = 2
INVARIANTS
    ParamsEnsured
CHECK_DEADLOCK FALSE
