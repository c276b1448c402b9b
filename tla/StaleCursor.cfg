SPECIFICATION FairSpec
CONSTANTS
    r1 = r1
    r2 = r2
    w1 = w1
    w2 = w2
    Runs = {r1, r2}
    Workers = {w1, w2}
    Items = 2
    PageSize = 1
    MaxAttempts = 2
    MaxMishaps = 1
    Overrun = TRUE
    NoRun = NoRun
PROPERTIES CatchesUp
