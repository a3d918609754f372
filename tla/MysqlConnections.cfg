SPECIFICATION MysqlSpec
CONSTANTS
    Users = {u1, u2}
    Count = 2
    MaxConns = 4
    MaxQueries = 1
    MaxFailures = 1
INVARIANT MysqlInv
PROPERTY MysqlReturns
CHECK_DEADLOCK FALSE
