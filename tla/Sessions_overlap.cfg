\* What increases pv, against the logins and refreshes it overlaps: two requests at a time.
SPECIFICATION Spec
CONSTANTS
    Requests = {r1, r2}
    Ops = {"login", "refresh", "logoutAll", "changePassword"}
    Sessions = {1, 2}
    MaxPv = 2
    Policy = "replace"
    MaxActive = 1
    NoRequest = NoRequest
SYMMETRY Interchangeable
INVARIANT OldPasswordOpensNothing
INVARIANT LogoutAllIsForGood
PROPERTY ImplementsLedger
