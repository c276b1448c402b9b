SPECIFICATION Spec
CONSTANTS
    j1 = j1
    j2 = j2
    w1 = w1
    w2 = w2
    h1 = h1
    h2 = h2
    Jobs = {j1}
    Workers = {w1, w2}
    Hosts = {h1}
    HostOf <- OneHost
    KeyOf <- OneRow
    AiJobs = {}
    ModelJobs = {}
    BatchJobs = {}
    DigestJobs = {}
    MaxAttempts = 2
    AiWindow = 1
    Batches = 1
    MaxEnvelopes = 1
    Requests = {}
    Faults = {}
    Overrun = TRUE
    Overlap = FALSE
    NoHost = NoHost
    NoJob = NoJob
PROPERTIES LeaseFences
CHECK_DEADLOCK FALSE
