CONSTANTS
    Length = 2
    MaxEvents = 2
    MaxFaults = 3
SPECIFICATION Spec
CHECK_DEADLOCK FALSE
INVARIANT NoDataLoss
