SPECIFICATION FairSpec
CONSTANTS
    p1 = p1
    p2 = p2
    proxy = proxy
    client = client
    core = core
    plugin = plugin
    late = late
    Publishers = {p1, p2}
    Types <- MCTypes
    Handlers <- MCHandlers
    InitialSubs <- MCInitialSubs
    LateSubs <- MCLateSubs
    QueueCap = 1
    MaxSeq = 3
INVARIANTS
    BusInv
    ClosedIsDrained
    SubscriptionOrder
PROPERTIES
    AcceptedIsDelivered
    CloseReturns
CHECK_DEADLOCK FALSE
