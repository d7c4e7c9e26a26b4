SPECIFICATION Spec
CONSTANTS
    TaskRuns <- AllPipelines
    Names <- MCNames
    Actions <- MCActions
    Params <- MCParams
    Producing <- MCProducing
    InitialDefinitions <- MCOverridden
    Definitions <- MCDefinitions
    LogsMayFail = TRUE
    MaxFaults = 2
    MaxDefChanges = 0
    MaxCount = 2
INVARIANTS
    TypeOK
    DeclaredOrder
    TwoPhases
    RunnerAtMostOnce
    RecordedSuccess
    FailureLocated
    ParamsDelivered
    TemplatesResolved
    CountedWhileAlive
PROPERTIES
    TerminalIsFinal
CHECK_DEADLOCK FALSE
