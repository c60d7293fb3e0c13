\* The same path on a quiet queue, where finished jobs are never pushed out.
SPECIFICATION FairSpec
CONSTANTS
    Tasks = {t1}
    Workers = {w1}
    Admins = {}
    MaxAttempt = 2
    MaxClaims = 4
    SplitSave = FALSE
    LiveLeaseExpiry = FALSE
    NoWork = NoWork
    NoSave = NoSave
    MaxStalledCount = 1
CHECK_DEADLOCK FALSE
PROPERTY PendingIsConsumed
