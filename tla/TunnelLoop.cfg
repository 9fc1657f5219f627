SPECIFICATION FairSpec
CONSTANTS
    k1 = k1
    k2 = k2
    s1 = s1
    s2 = s2
    Keys = {k1}
    Syncs = {s1, s2}
    Rebind = FALSE
    MaxEvents = 4
    MaxStarts = 3
INVARIANTS
    LoopInv
    
PROPERTY ClosedLoopEnds
CHECK_DEADLOCK FALSE
