SPECIFICATION CoreSpec
CONSTANTS
    MaxEvents = 5
    MaxStarts = 3
    MaxAck = 2
    PartMax = 2
    Limits = {1, 2}
    Unlimited = 100
    Filtered = {3}
    Persistent = TRUE
    Muxers = {m1, m2}
    EngineEvents = 4
    MaxRuns = 3
    MaxFaults = 2
    FileEvents = 5
    FileStarts = 3
    FileFaults = 1
    ChunkLen = 2
    MaxPart = 4
    BufSize = 3
    GarbageSizes = {0, 3}
INVARIANTS
    NothingLost
    AckedWasRead
    NoStrandedFile
    MuxerInv
    ReadOrder
    EngineInv
    FileInv
PROPERTIES
    EventuallyRead
    CallsReturn
    ImplementsEventFile
CHECK_DEADLOCK FALSE
