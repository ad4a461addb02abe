\* Three requests, which may overlap in any way.
CONSTANTS
    Requests = {r1, r2, r3}
    Operations <- SomeOperations
    First = First
    Names = {"north", "south"}
    Statuses = {"active", "inactive"}
    Rests = {"plain", "other"}
    Scenes = {"empty", "drawn"}
    Existing <- SomeRows
    Emails = {"admin", "reviewer", "new"}
    Administrator = "admin"
    Reviewer = "reviewer"
    Service = "service"
SPECIFICATION AdminSpec
SYMMETRY SameRequests
INVARIANTS
    RefusedWithCause
PROPERTIES
    OthersKept
CHECK_DEADLOCK FALSE
