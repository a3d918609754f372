SPECIFICATION EndpointsSpec
CONSTANTS
    Clients = {c1, c2}
    NoClient = none
    MaxEvents = 2
    MaxStarts = 2
    MaxErrors = 1
    Limit = 1
    ScriptEvents = 6
    QueueSize = 3
INVARIANTS AcceptorInv LuaAcks
PROPERTIES EndpointsLive
CHECK_DEADLOCK FALSE
