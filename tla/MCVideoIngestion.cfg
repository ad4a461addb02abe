\* Three uploads of one content.
CONSTANTS
    r1 = r1
    r2 = r2
    r3 = r3
    clip = clip
    Requests = {r1, r2, r3}
    Contents = {clip}
    Content <- MCContent
    Named = {r2}
    Mortal = {r1}
SPECIFICATION FairIngestionSpec
INVARIANTS
    RegisteredHasFile
    NoFileLeft
PROPERTIES
    ImplementsCatalogue
    EveryUploadEnds
CHECK_DEADLOCK FALSE
