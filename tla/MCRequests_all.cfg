SPECIFICATION FairSpec
CONSTANTS
    e = e
    s = s
    t = t
    Explicit <- MCExplicit
    Shared <- MCShared
    Uses <- MCUses
    CommandCap = 2
    MaxFaults = 1
    None = None
    Mux = Mux
INVARIANT
    RequestsInv
PROPERTIES
    AsksForRepliesFirst
    TimeoutsAreHonest
    EveryRequestEnds
CHECK_DEADLOCK FALSE
