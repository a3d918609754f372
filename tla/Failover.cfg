CONSTANTS
    Length = 3
    MaxEvents = 2
    MaxFaults = 3
    Configurations <- Files
    MaxReloads = 3
    MaxFailures = 2
    CbdFiles <- BrokerFiles
    Pids = {1, 2, 3}
    MaxHups = 2
    MaxDeaths = 2
    MaxForkFailures = 1
SPECIFICATION ChainsSpec
CHECK_DEADLOCK FALSE
INVARIANT
    FailoverInv
    AppliedInv
    WatchdogInv
PROPERTIES
    CallsEnd
    EventuallyPopped
