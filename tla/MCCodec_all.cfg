SPECIFICATION MCSpec
CONSTANTS
    Frames <- AllFrames
    MaxFrames = 2
    MaxHead = 16
    MaxMsg = 13
    Transports = {FALSE, TRUE}
    Flatten = 2
    Slices = 2
    Limit = 6
    PayloadLens = {0, 1, 3}
    MaxBytes = 14
    Letters <- MCLetters
    RawSubjects <- MCRawSubjects
    Destinations <- MCDestinations
    RawGroups <- MCRawGroups
    RawNames <- MCRawNames
    RawValues <- MCRawValues
    Payloads <- MCPayloads
    StatusLines <- MCStatusLines
    MaxEdits = 2
    Limits = {0, 1, 12}
    MaxInt = 99
    MaxMsgLen = 26
INVARIANTS
    DecoderInv
    EncoderInv
    WireTypeOK
    ServerUnderstands
    ArrivesAsSent
PROPERTIES
    ReadsTheStream
    IsAQueue
    AllIsFlushed
CHECK_DEADLOCK FALSE
