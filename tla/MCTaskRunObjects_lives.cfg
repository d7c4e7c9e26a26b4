SPECIFICATION FairSpec
CONSTANTS
    Specs <- MCSpecs
    MaxLives = 2
    MaxMeddling = 1
    MaxMade = 3
INVARIANTS
    TypeOK
    NoOverlap
PROPERTIES
    FinalPerLife
    Collected
    PodsStart
CHECK_DEADLOCK FALSE
