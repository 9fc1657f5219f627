SPECIFICATION FairSpec
CONSTANTS
    source = source
    target = target
    port = port
    s1 = s1
    Ends = {source, target}
    Creators = {target}
    Closers = {source}
    Ports = {port}
    Senders = {s1}
    At <- MCAt
    PortOf <- MCPortOf
    WorkerCount <- MCWorkers
    Size <- MCSize
    Window = 2
    Threshold = 2
    QueueCap = 1
    InboxCap = 1
    CtrlCap = 1
    MaxMessages = 3
    MaxChannels = 2
    MaxCloses = 1
INVARIANTS
    MuxInv
    WindowConserved
PROPERTIES
    PromiseKept
    
    
CHECK_DEADLOCK FALSE
