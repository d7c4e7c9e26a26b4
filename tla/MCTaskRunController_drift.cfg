SPECIFICATION Spec
CONSTANTS
    TaskRuns <- DriftPipelines
    Names <- MCNames
    Actions <- DriftActions
    Params <- MCParams
    Producing <- MCProducing
    InitialDefinitions <- DriftDefinitions
    Definitions <- MCDefinitions
    LogsMayFail = TRUE
    MaxFaults = 1
    MaxDefChanges = 1
    MaxCount = 2
PROPERTIES
    LifecycleSpec
CHECK_DEADLOCK FALSE
