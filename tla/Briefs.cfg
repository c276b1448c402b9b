SPECIFICATION Spec
CONSTANTS
    w1 = w1
    w2 = w2
    old = old
    new = new
    de = de
    fr = fr
    NoWorker = NoWorker
    Inputs = {old, new}
    Locales = {de}
    Workers = {w1, w2}
    Admitters = {"admission"}
    MaxPending = 1
    MaxAttempts = 2
    MaxRetries = 0
    MaxRevision = 1
    Cancels = FALSE
    Overrun = TRUE
INVARIANTS UnfinishedHasJob OneOpenAttempt CompletedIsPublished PendingAllowance
PROPERTIES OnlyStaleSuperseded WorkUnderLease HistoryStands
SYMMETRY Symmetry
CHECK_DEADLOCK FALSE
