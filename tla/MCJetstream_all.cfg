SPECIFICATION MCSpec
CONSTANTS
    Callers = {a, b}
    Configs = {f, g}
    MaxCalls = 2
    MaxFaults = 2
    None = None
    Publishers = {a, b}
    Options <- MCOptions
    MaxAttempts = 2
    MaxLog = 3
    MaxLosses = 2
    Unset = Unset
    Consumers <- MCConsumers
    Streams <- MCStreams
    MaxSigned = 2
    MaxNanos = 3
    DefaultPending = 2
    Absent = Absent
    Items = {1, 2, 3, 4, 5}
    Limit = 2
    MaxChanges = 2
    MaxFailed = 1
    a = a
    b = b
    f = f
    g = g
INVARIANTS
    ListingInv
    ManagementInv
    PublishingInv
    ResourcesInv
PROPERTY
    ListingEnds
CHECK_DEADLOCK FALSE
