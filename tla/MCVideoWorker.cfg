\* A video of two frames; leases expire only when nobody works on the job.
CONSTANTS
    j1 = j1
    Jobs = {j1}
    Workers = {w1, w2}
    NoWorker = NoWorker
    NoJob = NoJob
    NoDir = NoDir
    MaxAttempts = 3
    BatchSize = 1
    Priority <- MCPriority
    CreatedAt <- MCCreatedAt
    Percents = {0, 50, 99}
    VideoFrames = 2
    ExpectedFrames = 2
    ReportEvery = 1
    Mortal = {w1}
    SlowWorkers = FALSE
    MaxFaults = 2
SPECIFICATION WorkerSpec
INVARIANTS
    WritesItsOwnDirectory
    SucceededIntact
    DeletedLeavesNothing
CHECK_DEADLOCK FALSE
