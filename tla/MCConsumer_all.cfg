SPECIFICATION FairSpec
CONSTANTS
    NumMsgs = 2
    NumInboxes = 2
    MaxMsgs = 2
    CommandCap = 2
    SubCap = 1
    MaxHeld = 1
    MaxInbound = 2
    MaxFaults = 1
    None = None
INVARIANT
    ConsumerInv
PROPERTY
    ConsumerEnds
CHECK_DEADLOCK FALSE
