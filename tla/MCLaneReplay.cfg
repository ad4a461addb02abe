\* One lane violation, one retry.
CONSTANTS
    rider = rider
    vehicle = vehicle
    drifter = drifter
    runner = runner
    Violations = {drifter}
    Kind <- MCKindOfLane
    StartFrame <- MCStartOfLane
    EndFrame <- MCEndOfLane
    VideoFrames = 2
    EvidenceAt = {1}
    MaxAttempts = 2
    Reviewers = {}
    Overlap = FALSE
    Stoppable = FALSE
SPECIFICATION EventsSpec
PROPERTIES
    NeverReopened
CHECK_DEADLOCK FALSE
