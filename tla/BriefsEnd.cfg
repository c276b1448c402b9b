SPECIFICATION FairSpec
CONSTANTS
    w1 = w1
    w2 = w2
    old = old
    new = new
    de = de
    fr = fr
    NoWorker = NoWorker
    Inputs = {old}
    Locales = {de}
    Workers = {w1, w2}
    Admitters = {"admission"}
    MaxPending = 1
    MaxAttempts = 2
    MaxRetries = 1
    MaxRevision = 1
    Cancels = TRUE
    Overrun = TRUE
INVARIANTS TypeOK UnfinishedHasJob
PROPERTIES JobEnds
CHECK_DEADLOCK FALSE
