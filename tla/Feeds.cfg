SPECIFICATION Spec
CONSTANTS
    k1 = k1
    k2 = k2
    w1 = w1
    w2 = w2
    a = a
    b = b
    x = x
    None = None
    Checks = {k1, k2}
    Workers = {w1, w2}
    Urls = {a, b}
    Index = {a}
    Sources <- UserSources
    Pages <- FoundPages
    Cursors = {x}
    Versions = 2
    Portions = 2
    MaxAttempts = 2
    MaxMishaps = 2
    Overrun = TRUE
INVARIANTS TypeOK   OriginalsAreFinished JudgedInOrder NothingPassedOver
PROPERTIES StepsAdvance
CHECK_DEADLOCK FALSE
