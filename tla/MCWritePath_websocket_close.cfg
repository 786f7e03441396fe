SPECIFICATION FairSpec
CONSTANTS
    Setups <- PlainWebsocket
    Budget = 4
    CommandCap = 3
    RecvBuf = 2
    Limit = 3
    MaxBuf = 0
PROPERTY CloseCompletes
CHECK_DEADLOCK FALSE
