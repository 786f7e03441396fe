SPECIFICATION FairSpec
CONSTANTS
    Setups <- AllSetups
    Budget = 4
    CommandCap = 3
    RecvBuf = 2
    Limit = 3
    MaxBuf = 1
INVARIANTS TypeOK NoLossOnClose NoLostWakeup
PROPERTY StreamCloseCompletes
CHECK_DEADLOCK FALSE
