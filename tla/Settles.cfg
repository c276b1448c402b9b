SPECIFICATION FairSpec
CONSTANTS
    j1 = j1
    j2 = j2
    w1 = w1
    w2 = w2
    h1 = h1
    h2 = h2
    Jobs = {j1}
    Workers = {w1}
    Hosts = {h1}
    HostOf <- OneSlot
    KeyOf <- OneRow
    AiJobs = {j1}
    ModelJobs = {j1}
    BatchJobs = {}
    DigestJobs = {}
    MaxAttempts = 2
    AiWindow = 1
    Batches = 1
    MaxEnvelopes = 1
    Requests = {"cancel", "retry"}
    Faults = {"crash", "refusal", "rollback"}
    Overrun = FALSE
    Overlap = TRUE
    NoHost = NoHost
    NoJob = NoJob
INVARIANTS TypeOK ReadyHasMessage
PROPERTIES Settles
CHECK_DEADLOCK FALSE
