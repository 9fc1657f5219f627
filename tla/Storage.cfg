SPECIFICATION FairSpec
CONSTANTS
    p = p
    q = q
    Keys = {p, q}
    Types = {"proxy"}
    TypeOf <- MCTypeOf
    Interval = 2
    Keep = 1
    MaxWork = 3
    MaxStarts = 2
    MaxFaults = 1
INVARIANTS
    
    AckedSurvives
PROPERTIES
    DirtyIsFlushed
CHECK_DEADLOCK FALSE
