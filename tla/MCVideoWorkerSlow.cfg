\* Leases may also expire under a worker that is alive.
CONSTANTS
    j1 = j1
    Jobs = {j1}
    Workers = {w1, w2}
    NoWorker = NoWorker
    NoJob = NoJob
    NoDir = NoDir
    MaxAttempts = 2
    BatchSize = 1
    Priority <- MCPriority
    CreatedAt <- MCCreatedAt
    Percents = {0, 50, 99}
    VideoFrames = 2
    ExpectedFrames = 1
    ReportEvery = 2
    Mortal = {w1}
    SlowWorkers = TRUE
    MaxFaults = 1
SPECIFICATION FairWorkerSpec
INVARIANTS
    AnswersForItsAttempt
PROPERTIES
    RefinesQueue
    EveryJobEnds
CHECK_DEADLOCK FALSE
