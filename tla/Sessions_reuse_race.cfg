\* Two refreshes with the same token.
SPECIFICATION Spec
CONSTANTS
    Requests = {r1, r2}
    Ops = {"login", "refresh"}
    Sessions = {1, 2}
    MaxPv = 0
    Policy = "replace"
    MaxActive = 1
    NoRequest = NoRequest
SYMMETRY Interchangeable
INVARIANT ReuseEndsFamily
