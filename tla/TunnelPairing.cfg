SPECIFICATION PairingFairSpec
CONSTANTS
    u1 = u1
    u2 = u2
    t1 = t1
    t2 = t2
    Nil = Nil
    Tokens = {u1, u2}
    Tunnels = {t1, t2}
    Timeout = 2
    MaxAge = 3
INVARIANTS
    PairingInv
PROPERTIES
    UserIsAnswered
    PendingIsReclaimed
CHECK_DEADLOCK FALSE
