CONSTANTS
    w1 = w1
    w2 = w2
    h1 = h1
    h2 = h2
    wide = wide
    rated = rated
    other = other
    NoWorker = NoWorker
    NoHost = NoHost
    NoPrint = NoPrint
    Workers = {w1, w2}
    Hosts = {h1}
    HostOf <- OneHost
    Filters = {wide}
    Hiding = {}
    SeverityOnly = {}
    Pages = 2
    AlertPage = 2
    Interval = 1
    MaxDeliveries = 1
    MaxTime = 0
    MaxMails = 2
    Transports = {"smtp"}
    Requests = {"cancel", "retry", "unsubscribe", "subscribe", "leave", "send"}
    Faults = {"crash", "ambiguity", "refusal"}
    Overrun = TRUE
SPECIFICATION Spec
INVARIANT TypeOK MailedOnce
PROPERTY MailUnderLease 
SYMMETRY SlotSymmetry
CHECK_DEADLOCK FALSE
