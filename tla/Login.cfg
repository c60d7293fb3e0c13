SPECIFICATION LoginSpec
CONSTANTS
    LoginMaxFailed = max_failed
    IpSuspiciousThreshold = ip_threshold
    IpBanSeconds = ban_seconds
    Keys = {max_failed, ip_threshold, ban_seconds}
    Edited = {max_failed}
    Values = {1, NotANumber}
    NotANumber = NotANumber
    Default <- DefaultsForMC
    r1 = r1
    r2 = r2
    e1 = e1
    Updater = Updater
    Profiles <- ProfilesForMC
    Readers = {r1, r2}
    Editors = {e1}
    Empty = Empty
    MaxCount = 3
    Jtis = {j1, j2}
    Calls = {r1, r2}
    Lifetime <- LifetimesForMC
    PerSecond = 2
    MaxTick = 3
    NoJti = NoJti
CHECK_DEADLOCK FALSE
SYMMETRY Interchangeable
INVARIANT CachedConfigIsCurrent
INVARIANT FullCounterLocks
INVARIANT CounterExpires
INVARIANT FamiliesKeepTheirApplication
INVARIANT LoggedOutStaysOut
INVARIANT SessionCoversRefreshToken
