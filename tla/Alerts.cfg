CONSTANTS
    w1 = w1
    w2 = w2
    h1 = h1
    h2 = h2
    wide = wide
    rated = rated
    other = other
    NoWorker = NoWorker
    NoHost = NoHost
    NoPrint = NoPrint
    Workers = {w1, w2}
    Hosts = {h1}
    HostOf <- OneHost
    Filters = {rated, other}
    Hiding = {other}
    SeverityOnly = {rated}
    Pages = 2
    AlertPage = 2
    Interval = 1
    MaxDeliveries = 2
    MaxTime = 2
    MaxMails = 1
    Transports = {"smtp", "disabled"}
    Requests = {"subscribe"}
    Faults = {"crash"}
    Overrun = FALSE
SPECIFICATION Spec
 
PROPERTY MarkNeverRewinds 
SYMMETRY SlotSymmetry
CHECK_DEADLOCK FALSE
