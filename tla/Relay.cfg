SPECIFICATION RelayFairSpec
CONSTANTS
    MaxAttempts = 3
    MaxSignals <- MCSignals
    MaxFaults = 1
INVARIANTS
    RelayInv
    NoMissedMeeting
PROPERTIES
    RelaySettles
CHECK_DEADLOCK FALSE
