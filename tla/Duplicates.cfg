SPECIFICATION Spec
CONSTANTS
    j1 = j1
    j2 = j2
    w1 = w1
    w2 = w2
    h1 = h1
    h2 = h2
    Jobs = {j1, j2}
    Workers = {w1, w2}
    Hosts = {h1}
    HostOf <- OneHost
    KeyOf <- SharedKey
    AiJobs = {j1, j2}
    ModelJobs = {j1, j2}
    BatchJobs = {}
    DigestJobs = {}
    MaxAttempts = 2
    AiWindow = 1
    Batches = 1
    MaxEnvelopes = 2
    Requests = {"cancel", "retry"}
    Faults = {"crash", "redelivery", "rollback", "refusal"}
    Overrun = FALSE
    Overlap = FALSE
    NoHost = NoHost
    NoJob = NoJob
INVARIANTS OneLiveJobPerKey ExclusiveExecution
PROPERTIES Lifecycle
SYMMETRY SlotSymmetry
CHECK_DEADLOCK FALSE
