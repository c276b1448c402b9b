SPECIFICATION FairSpec
CONSTANTS
    r1 = r1
    r2 = r2
    w1 = w1
    w2 = w2
    Runs = {r1, r2}
    Workers = {w1, w2}
    Items = 2
    PageSize = 2
    MaxAttempts = 2
    MaxMishaps = 2
    Overrun = TRUE
    NoRun = NoRun
PROPERTIES CursorMovesOn CatchesUpAlone
INVARIANTS TypeOK CursorIsBacked EventsAreCovered OneActiveRun
