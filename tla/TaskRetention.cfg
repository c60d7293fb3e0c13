\* Two tasks that may share a key, one slot, one administrator; a cleanup of one row at a time.
SPECIFICATION RetentionSpec
CONSTANTS
    Tasks = {t1, t2}
    Workers = {w1}
    Admins = {a1}
    MaxAttempt = 2
    MaxClaims = 2
    SplitSave = FALSE
    LiveLeaseExpiry = TRUE
    NoWork = NoWork
    NoSave = NoSave
    Creators = {c1, c2}
    Keys = {k1}
    NoKey = NoKey
    NoTask = NoTask
    Limit = 1
    MaxAllClaims = 2
SYMMETRY Interchangeable
CHECK_DEADLOCK FALSE
INVARIANT SameKeySameTask
PROPERTY RecoveryTakesOnlyStaleClaims
PROPERTY CleanupTakesOnlyFinished
