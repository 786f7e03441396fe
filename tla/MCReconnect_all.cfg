SPECIFICATION MCSpec
ACTION_CONSTRAINT MCSteps
CONSTANTS
    SubIds = {2}
    Requests = {r1, spare}
    Counts = {2}
    None = None
    Reconnects = TRUE
    Publishes = TRUE
    Closes = TRUE
    CommandCap = 2
    SubCap = 2
    MaxOutbound = 2
    MaxAcks = 1
    MaxMsgs = 1
    r1 = r1
    spare = spare
INVARIANTS TypeOK AckAlignment DroppedIsQueued ErrorEndsStream InboxBeforeRequests
CHECK_DEADLOCK FALSE
