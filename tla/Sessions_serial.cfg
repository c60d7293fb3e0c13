\* Every operation, one request at a time, cut short after any of its statements.
SPECIFICATION Spec
CONSTANTS
    Requests = {r1}
    Ops = {"login", "refresh", "logout", "revokeByUser", "logoutAll", "changePassword",
           "edit", "disable", "expire"}
    Sessions = {1, 2, 3}
    MaxPv = 1
    Policy = "limit"
    MaxActive = 2
    NoRequest = NoRequest
INVARIANT ReuseEndsFamily
INVARIANT OneLivePerFamily
PROPERTY LoginAppliesPolicy
