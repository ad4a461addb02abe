--------------------------- MODULE MCAdministration ---------------------------
(* Requests about one or two cameras and one new account, for TLC.            *)
EXTENDS Administration, TLC

\* Requests differ in nothing but their identity.
SameRequests == Permutations(Requests)

Row(name) == [name |-> name, status |-> "inactive", rest |-> "plain", scene |-> "empty"]

SomeRows == {Row("north"), [Row("south") EXCEPT !.rest = "other", !.scene = "drawn"]}

SomeOperations ==
    {[kind |-> "create", row |-> Row("north")],
     [kind |-> "create", row |-> Row("south")],
     [kind |-> "patch", camera |-> First, new |-> [name |-> "north"]],
     [kind |-> "patch", camera |-> First, new |-> [status |-> "active"]],
     [kind |-> "patch", camera |-> First, new |-> [rest |-> "other", scene |-> "drawn"]],
     [kind |-> "patch", camera |-> First, new |-> <<>>],
     [kind |-> "scene", camera |-> First, scene |-> "drawn"],
     [kind |-> "delete", camera |-> First],
     [kind |-> "read", camera |-> First],
     [kind |-> "review"],
     [kind |-> "user", email |-> "new", role |-> "reviewer"],
     [kind |-> "bootstrap", email |-> "new", role |-> "admin"],
     [kind |-> "create_admin", email |-> "new", role |-> "admin"]}

===============================================================================
