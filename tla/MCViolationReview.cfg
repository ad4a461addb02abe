\* Three attempts, one after the other, that may be stopped anywhere, and two
\* reviewers who may overlap and change their minds.
CONSTANTS
    rider = rider
    vehicle = vehicle
    drifter = drifter
    runner = runner
    Violations = {vehicle}
    Kind <- MCKindOfFlushed
    StartFrame <- MCStartOfFlushed
    EndFrame <- MCEndOfFlushed
    VideoFrames = 3
    EvidenceAt = {1, 2}
    MaxAttempts = 3
    Reviewers = {r1, r2}
    Overlap = FALSE
    Stoppable = TRUE
SPECIFICATION EventsSpec
INVARIANTS
    ImagesFollow
PROPERTIES
    ReviewKept
    ReviewAgrees
CHECK_DEADLOCK FALSE
