CONSTANTS
    Downtimes = {d1, d2}
    MaxAcks = 1
    Changing = {}
    MaxChanges = 0
    MaxRestarts = 0
SPECIFICATION NebSpec
INVARIANT KpiAcknowledged
CHECK_DEADLOCK FALSE
