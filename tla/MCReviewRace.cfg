\* One attempt and one review.
CONSTANTS
    rider = rider
    vehicle = vehicle
    drifter = drifter
    runner = runner
    Violations = {rider}
    Kind <- MCKindOfOne
    StartFrame <- MCStartOfOne
    EndFrame <- MCEndOfOne
    VideoFrames = 2
    EvidenceAt = {1}
    MaxAttempts = 1
    Reviewers = {r1}
    Overlap = FALSE
    Stoppable = FALSE
SPECIFICATION EventsSpec
INVARIANTS
    SucceededComplete
CHECK_DEADLOCK FALSE
