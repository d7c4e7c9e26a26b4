SPECIFICATION FairSpec
CONSTANTS
    build = build
    pause = pause
    Replicas = {r1, r2}
    TaskRuns <- MCTaskRuns
    Pipeline <- MCPipeline
    None = none
    MaxTroubles <- MCTroubles
INVARIANTS TypeOK FailsForCause
PROPERTIES FinalStatus AllServed StopsPromptly
CHECK_DEADLOCK FALSE
