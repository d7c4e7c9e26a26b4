SPECIFICATION Spec
CONSTANTS
    Specs <- AllSpecs
    MaxLives = 2
    MaxMeddling = 1
    MaxMade = 3
INVARIANTS
    OwnJobRan
CHECK_DEADLOCK FALSE
