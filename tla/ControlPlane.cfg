SPECIFICATION Spec
CONSTANTS
    c1 = c1
    c2 = c2
    Clients = {c1, c2}
    Ports = {1}
    QueueCap = 3
    SnapshotInterval = 2
    Early = {}
    OtherSockets = TRUE
    MaxRequests = 4
    MaxStops = 2
SYMMETRY ClientSymmetry
INVARIANTS
    ControlInv
    RecoveryComplete
