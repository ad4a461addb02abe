\* Two jobs, three workers and the default attempt limit; a recovery may take
\* both jobs at once.
CONSTANTS
    j1 = j1
    j2 = j2
    Jobs = {j1, j2}
    Workers = {w1, w2, w3}
    NoWorker = NoWorker
    MaxAttempts = 3
    BatchSize = 2
    Priority <- MCPriority
    CreatedAt <- MCCreatedAt
    Percents = {50}
SPECIFICATION Spec
INVARIANTS
    RowsCoherent
    VideoFollowsJob
    NoStrandedJob
    SelectionStillHolds
    DeleteCheckStillHolds
PROPERTIES
    LiveLeaseKept
    EndedStaysEnded
    ImplementsLifecycle
CHECK_DEADLOCK FALSE
