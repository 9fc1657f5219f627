SPECIFICATION FairSpec
CONSTANTS
    tcp = tcp
    ws = ws
    outbound = outbound
    None = None
    Keys = {tcp, ws, outbound}
    Kind <- MCKind
    MaxLinks = 2
    MaxChanges = 3
    MaxTunnels = 2
    MaxPipes = 1
    WireCap = 2
    OutCap = 1
INVARIANTS
    ClientInv
    AgreesWithServer
PROPERTIES
    CancelledEnds
CHECK_DEADLOCK FALSE
