SPECIFICATION Spec
CONSTANTS
    Setups <- DelayedStream
    Budget = 4
    CommandCap = 3
    RecvBuf = 2
    Limit = 3
    MaxBuf = 0
INVARIANT ClosedIsDrained
CHECK_DEADLOCK FALSE
