SPECIFICATION PlatformSpec
CONSTANTS
    MenuIds = {m1, m2, m3}
    Top = Top
    Editors = {e1}
    NoEdit = NoEdit
    NoView = NoView
    Admins = {a1, a2}
    Seeded = a1
    Roles = {sa, r1}
    SuperAdmin = sa
    Perms = {p1, p2}
    Manage = p1
    Checks = {c1}
    x1 = x1
    x2 = x2
    Requests = {x1, x2}
    Profiles <- Overlapping
    NoCache = NoCache
    NoCheck = NoCheck
    NoRequest = NoRequest
    Items = {i1, i2}
    ItemValues = {v1, v2}
    DictReaders = {d1}
    DictEditors = {d2, d3}
    Seeds <- SeedOrder
    Runs = {s1, s2}
    Flows = {f1, f2}
    Subs = {b1, b2}
    HeaderIds = {h1}
    Keys <- LoggedKeys
    KindOf <- KindOfKey
    SizeKey = "note"
    Given <- Logged
    JobAttempts = 2
    NoId = NoId
    NoSub = NoSub
    Lockers = {l1, l2, l3}
    LockTtl = 2
    NoLocker = NoLocker
CONSTRAINT WalkAlone
CHECK_DEADLOCK FALSE
INVARIANT CachedCodesAreCurrent
INVARIANT SomeoneIsSuperAdmin
INVARIANT NoDanglingGrant
INVARIANT TreeShowsWhatIsGranted
INVARIANT FinishedSeedIsWhole
INVARIANT ServedListIsCurrent
INVARIANT ActorIsRecorded
INVARIANT TraceFollows
INVARIANT NoSecretIsKept
INVARIANT CodeTellsStatus
INVARIANT ProfileIsOfTheFlow
INVARIANT LockIsNotTakenAway
