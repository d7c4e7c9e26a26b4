SPECIFICATION Spec
CONSTANTS
    Inputs <- MCInputs
    Statuses <- MCStatuses
INVARIANTS TypeOK Substituted MissingReported
CHECK_DEADLOCK FALSE
