SPECIFICATION Spec
CONSTANTS
    k1 = k1
    k2 = k2
    w1 = w1
    w2 = w2
    a = a
    b = b
    x = x
    None = None
    Checks = {k1, k2}
    Workers = {w1}
    Urls = {a, b}
    Index = {a}
    Sources <- UserSources
    Pages <- FoundPages
    Cursors = {x}
    Versions = 4
    Portions = 1
    MaxAttempts = 2
    MaxMishaps = 1
    Overrun = FALSE
INVARIANTS HistoryIsJudged
CHECK_DEADLOCK FALSE
