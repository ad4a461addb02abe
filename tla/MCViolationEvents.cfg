\* Three attempts that may overlap, no reviewer.
CONSTANTS
    rider = rider
    vehicle = vehicle
    drifter = drifter
    runner = runner
    Violations = {rider, vehicle, drifter, runner}
    Kind <- MCKind
    StartFrame <- MCStart
    EndFrame <- MCEnd
    VideoFrames = 3
    EvidenceAt = {1, 2}
    MaxAttempts = 3
    Reviewers = {}
    Overlap = TRUE
    Stoppable = FALSE
SPECIFICATION EventsSpec
INVARIANTS
    SucceededComplete
    HistoryInOrder
PROPERTIES
    EndedStaysEnded
CHECK_DEADLOCK FALSE
