SPECIFICATION StorageSpec
CONSTANTS
    SqlEvents = 2
    StorageEvents = 1
    BulkEvents = {2}
    PerfdataEvents = {1}
    IgnoredEvents = {}
    MaxPending = 2
    MaxBulk = 0
    InitialAcks = {0}
    MaxManagers = 2
    MaxFaults = 1
    MaxChecks = 3
    MaxAsks = 2
    MaxInFlight = 1
    MaxMishaps = 1
INVARIANTS
    ManagerInv
    PoppedIsKept
    
 
CHECK_DEADLOCK FALSE
