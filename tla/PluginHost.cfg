SPECIFICATION HostFairSpec
CONSTANTS
    MaxStreams = 2
    MaxStates = 2
    MaxCalls = 2
    MaxEvents = 1
    QueueCap = 1
INVARIANTS
    PluginInv
PROPERTIES
    CallReturns
CHECK_DEADLOCK FALSE
