SPECIFICATION Spec
CONSTANTS
    TaskRuns <- OnlyNightly
    Names <- MCNames
    Actions <- MCActions
    Params <- MCParams
    Producing <- MCProducing
    InitialDefinitions <- MCInitialDefinitions
    Definitions <- MCDefinitions
    LogsMayFail = TRUE
    MaxFaults = 0
    MaxDefChanges = 0
    MaxCount = 2
INVARIANTS
    CronJobHasParams
CHECK_DEADLOCK FALSE
