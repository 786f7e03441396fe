SPECIFICATION FairPingerSpec
CONSTANTS
    Interval = 4
    Latency = 6
    Lag = 1
    MaxOther = 1
INVARIANTS PendingIsOutstanding OnlyDeadIsDropped DeadIsDroppedInTime
PROPERTY DeadIsDropped
CHECK_DEADLOCK FALSE
