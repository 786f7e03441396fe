SPECIFICATION FairSpec
CONSTANTS
    SubIds = {2}
    Requests = {r1}
    Counts = {}
    None = None
    Reconnects = FALSE
    Publishes = FALSE
    Closes = FALSE
    CommandCap = 2
    SubCap = 1
    MaxOutbound = 2
    MaxAcks = 1
    MaxMsgs = 1
    r1 = r1
INVARIANTS NoServerLeak
PROPERTY DroppedIsForgotten
