SPECIFICATION BbdoSpec
CONSTANTS
    Limit = 3
    AckLimits = {1, 2}
    Unknown = {2}
    MaxEvents = 6
    MaxBreaks = 3
    Majors = {1, 2}
    MaxWritten = 3
    Keys = {k1, k2}
    MaxPacket = 2
    HeaderSize = 2
    Sizes = {2, 3}
    MaxPackedEvents = 3
    BlockSizes = {1, 3}
    MaxHeld = 2
    MaxCuts = 1
INVARIANTS LinkInv NegotiationInv PacketsExact
PROPERTY BbdoLive
CHECK_DEADLOCK FALSE
