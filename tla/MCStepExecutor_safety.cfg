SPECIFICATION Spec
CONSTANTS
    fresh = fresh
    stale = stale
    blank = blank
    Plans <- AllPlans
    Objects <- MCObjects
    Existing <- MCExisting
    Keys <- MCKeys
    Values <- MCValues
    Absent = none
    Blank = blank
    InitialValue = stale
    MaxEdits = 1
    MaxReruns = 1
    MaxFaults = 1
    MaxClock = 1
INVARIANTS
    TypeOK
    ReportedIsStored
    ReadIsReal
PROPERTIES
    OthersKept
CHECK_DEADLOCK FALSE
