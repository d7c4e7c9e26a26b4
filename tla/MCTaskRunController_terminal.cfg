SPECIFICATION Spec
CONSTANTS
    TaskRuns <- OnlyNatives
    Names <- MCNames
    Actions <- MCActions
    Params <- MCParams
    Producing <- MCProducing
    InitialDefinitions <- MCInitialDefinitions
    Definitions <- MCDefinitions
    LogsMayFail = TRUE
    MaxFaults = 0
    MaxDefChanges = 0
    MaxCount = 2
PROPERTIES
    SkipsTerminal
CHECK_DEADLOCK FALSE
