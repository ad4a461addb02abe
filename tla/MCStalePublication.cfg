\* Publication by a worker that overran its lease.
CONSTANTS
    j1 = j1
    Jobs = {j1}
    Workers = {w1, w2}
    NoWorker = NoWorker
    NoJob = NoJob
    NoDir = NoDir
    MaxAttempts = 2
    BatchSize = 1
    Priority <- MCPriority
    CreatedAt <- MCCreatedAt
    Percents = {0, 50, 99}
    VideoFrames = 2
    ExpectedFrames = 2
    ReportEvery = 2
    Mortal = {}
    SlowWorkers = TRUE
    MaxFaults = 1
SPECIFICATION WorkerSpec
INVARIANTS
    SucceededPublished
CHECK_DEADLOCK FALSE
