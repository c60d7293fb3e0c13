\* Every interleaving of producers, workers, sweep and administrator; claims may expire under
\* live workers, and save() is in two steps. Safety only.
SPECIFICATION DeliverySpec
CONSTANTS
    Tasks = {t1}
    Workers = {w1, w2}
    Admins = {a1}
    MaxAttempt = 2
    MaxClaims = 4
    SplitSave = TRUE
    LiveLeaseExpiry = TRUE
    NoWork = NoWork
    NoSave = NoSave
    MaxStalledCount = 1
CHECK_DEADLOCK FALSE
SYMMETRY Interchangeable
INVARIANT AttemptWithinMax
INVARIANT SuccessIsNotRerun
INVARIANT ExclusiveExecution
