SPECIFICATION Spec
CONSTANTS
    Admins = {a1, a2, a3}
    Seeded = a1
    Roles = {sa, r1}
    SuperAdmin = sa
    Perms = {p1}
    Manage = p1
    Checks = {}
    x1 = x1
    x2 = x2
    Requests = {x1}
    Profiles <- OneAtATime
    NoCache = NoCache
    NoCheck = NoCheck
    NoRequest = NoRequest
CHECK_DEADLOCK FALSE
INVARIANT ActiveSuperAdminRemains
