\* One vehicle, one stop line, one light, two motorcycles and two persons.
CONSTANTS
    ImageWidth = 11
    ImageHeight = 21
    Unit = 10
    None = None
    Scene <- Road
    WrongWaySpeed = 3
    OppositeCosine = 50
    LaneSpeed = 3
    LaneTolerance = 2
    Ids = {1}
    StopLines = {"line"}
    CrossingSpeed = 3
    CrossingCosine = 25
    CrossingTolerance = 1
    SignalConfidence = 60
    MaximumUnseen = 1
    JunctionFrames <- SomeJunctions
    Regions = {"signal"}
    Patches <- SomePatches
    MinimumSaturation = 80
    MinimumValue = 100
    MinimumActive = 1
    Dominance = 125
    ConfirmationOfColor = 2
    MaximumUnknown = 1
    Alpha = 40
    MaxLightFrames = 6
    MinimumRiderScore = 55
    MaxRiders = 1
    MaxAnchorRatio = 200
    MinimumOverlap = 5
    MotionSpeed = 5
    HeadHeight = 7
    HeadExpansion = 2
    MinimumHelmetScore = 45
    Persons = {1, 2}
    Motorcycles = {11, 12}
    Nobody = 0
    RideConfirmation = 2
    MaxRideGap = 2
    MinimumTriple = 1
    RiderScenes <- SomeRiders
    MaxRiderFrames = 5
    Boxes <- SomeBoxes
    HighConfidence = 60
    LowConfidence = 35
    PrimaryIoU = 30
    SecondaryIoU = 15
    MinimumHits = 2
    MaxMisses = 1
    Shots <- SomeShots
    MaxTracks = 4
    MaxTrackerFrames = 4
    Stride = 2
    PreviewEnabled = TRUE
    MaxEvidence = 2
    Cooldown = 3
    MaxVideoFrames = 11
    Keys = {1, 11, 101, 102}
    LaneKeys = {101}
    ConfirmationFrames = 2
    MaximumMissedFrames = 1
    MaxFrames = 8
SPECIFICATION PipelineSpec
INVARIANTS
    ConfirmedInViolation
    OpenAreConfirmed
    CandidateUnbroken
    StableAsShown
    RulesAgree
    LaneKeepersSpared
    ConfirmedAsRidden
    LabelsStable
    OneIdentity
    TrackedAsDetected
    EvidenceRule
PROPERTIES
    TransitionsPaired
    CaughtExactly
