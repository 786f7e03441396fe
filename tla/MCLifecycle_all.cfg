SPECIFICATION FairSpec
CONSTANTS
    A4 = A4
    B4 = B4
    A6 = A6
    NoAddr = NoAddr
    Addrs <- MCAddrs
    V6 <- MCV6
    Lookups <- MCLookups
    Peers <- MCPeers
    Scenarios <- MCScenarios
    MaxPings = 1
    MinDelay = 1
    MaxDelay = 3
    MaxFaults = 1
    MaxCommands = 1
    MaxCloses = 2
INVARIANTS
    LifecycleInv
    ConnectInv
    CloseIsRemembered
PROPERTIES
    BackoffGrows
    CloseReturns
    ReachableIsReached
CHECK_DEADLOCK FALSE
