\* A task's way to its end under every failure, on a queue that evicts old jobs.
SPECIFICATION BusySpec
CONSTANTS
    Tasks = {t1}
    Workers = {w1, w2}
    Admins = {}
    MaxAttempt = 2
    MaxClaims = 4
    SplitSave = FALSE
    LiveLeaseExpiry = TRUE
    NoWork = NoWork
    NoSave = NoSave
    MaxStalledCount = 1
CHECK_DEADLOCK FALSE
PROPERTY ProcessingEnds
PROPERTY PendingIsConsumed
