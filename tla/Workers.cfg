SPECIFICATION WorkersFairSpec
CONSTANTS
    a = a
    Clients = {a}
    Keys <- MCKeys
    Pairs <- MCPairs
    MaxConns = 2
    MaxCalls = 2
    MaxListens = 3
    MaxRelays = 2
INVARIANTS
    
    ClosedIsShut

    
CHECK_DEADLOCK FALSE
