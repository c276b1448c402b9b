SPECIFICATION Spec
CONSTANTS
    j1 = j1
    j2 = j2
    w1 = w1
    w2 = w2
    h1 = h1
    h2 = h2
    Jobs = {j1}
    Workers = {w1, w2}
    Hosts = {h1}
    HostOf <- OneHost
    KeyOf <- OneRow
    AiJobs = {}
    ModelJobs = {}
    BatchJobs = {}
    DigestJobs = {j1}
    MaxAttempts = 1
    AiWindow = 1
    Batches = 2
    MaxEnvelopes = 1
    Requests = {"retry"}
    Faults = {"crash", "loss", "refusal"}
    Overrun = TRUE
    Overlap = TRUE
    NoHost = NoHost
    NoJob = NoJob
INVARIANTS ReadyHasMessage DroppedIsClosed SucceededIsComplete
CHECK_DEADLOCK FALSE
SYMMETRY SlotSymmetry
