SPECIFICATION FairSpec
CONSTANTS
    TaskRuns <- AllPipelines
    Names <- MCNames
    Actions <- MCActions
    Params <- MCParams
    Producing <- MCProducing
    InitialDefinitions <- MCInitialDefinitions
    Definitions <- MCDefinitions
    LogsMayFail = TRUE
    MaxFaults = 1
    MaxDefChanges = 0
    MaxCount = 2
PROPERTIES
    Settles
CHECK_DEADLOCK FALSE
