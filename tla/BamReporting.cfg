SPECIFICATION ReportingSpec
CONSTANTS
    Bas = {b1, b2}
    MaxDay = 3
    MaxPublished = 3
    MaxRebuilds = 1
    MaxFaults = 1
INVARIANT ReportingInv
 
CHECK_DEADLOCK FALSE
