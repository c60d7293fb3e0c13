SPECIFICATION FairSpec
CONSTANTS
    Requests = {r1, r2}
    Users = {u1}
    Ips = {i1}
    Audited = {"password"}
    Max = 1
    Attempts = 3
    MaxStalledCount = 1
    NoUser = NoUser
CHECK_DEADLOCK FALSE
INVARIANT LimitHolds
INVARIANT RowsTellTheTruth
PROPERTY WindowsEnd
PROPERTY AuditSettles
