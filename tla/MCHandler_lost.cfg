SPECIFICATION FairSpec
CONSTANTS
    SubIds = {2}
    Requests = {}
    Counts = {}
    None = None
    Reconnects = FALSE
    Publishes = FALSE
    Closes = FALSE
    CommandCap = 1
    SubCap = 1
    MaxOutbound = 2
    MaxAcks = 1
    MaxMsgs = 1
PROPERTY LostIsForgotten
