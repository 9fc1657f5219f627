SPECIFICATION Spec
CONSTANTS
    s1 = s1
    s2 = s2
    c1 = c1
    c2 = c2
    p = p
    r = r
    None = None
    Sessions = {s1, s2}
    Clients = {c1, c2}
    Who <- MCWho
    Cert <- MCCert
    Temp = {s2}
    Proxies = {p}
    Relays = {r}
    Parties <- MCParties
    Saved = {p}
    EarlyHTTP = FALSE
    QueueCap = 4
    MaxRequests = 1
INVARIANTS
    SessionInv
    ToldOfEverything
    LiveIsReachable
    GoneIsForgotten
CHECK_DEADLOCK FALSE
