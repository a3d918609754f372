SPECIFICATION TablesSpec
CONSTANTS
    Pollers = {1}
    Count = 2
    Removable = {1}
    Reported = {"up"}
    MaxOpen = 3
    Downtimes = {d1}
    MaxAcks = 2
    Changing = {"host", "service", "customvar", "parent", "hostgroup", "hostmember", "hostdep", "module"}
    MaxChanges = 1
    MaxRestarts = 1
INVARIANTS  RealStateKept NebInv
CHECK_DEADLOCK FALSE
