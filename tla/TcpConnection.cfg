SPECIFICATION TcpSpec
CONSTANTS
    MaxVectors = 2
    Slots = {p1, p2}
    MaxBlocks = 3
    MaxTasks = 2
INVARIANTS
    WriterInv
    ReaderInv
PROPERTY ConnectionLive
CHECK_DEADLOCK FALSE
