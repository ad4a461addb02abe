---------------------------- MODULE Administration ----------------------------
(***************************************************************************)
(* The requests that administer the platform: cameras with their scenes,   *)
(* and user accounts.  Every request is authenticated, reads the rows it   *)
(* is about, and writes in a second step what it changes; the table of the *)
(* cameras and that of the users have a unique column each, on which a     *)
(* request fails that was too late.  Nothing is locked in between.         *)
(*                                                                         *)
(* Of the columns of a camera only the name, the status and the            *)
(* configuration are modelled; the configuration is its scene and the rest *)
(* of it, which are stored together.  Validation is left out: payloads are *)
(* valid.                                                                  *)
(***************************************************************************)
EXTENDS Naturals, FiniteSets

CONSTANTS Requests,
          Operations,   \* what a request may ask for
          First,        \* the id of a camera that may exist already
          Names, Statuses, Rests, Scenes,
          Existing,     \* rows that this camera may have (a bound)
          Emails,
          Administrator, Reviewer,  \* the emails of two accounts
          Service       \* the frontend server

Rows == [name : Names, status : Statuses, rest : Rests, scene : Scenes]

\* One column of the table.
Configuration == {"rest", "scene"}

\* A patch that has a configuration has all of it.
ASSUME AdministrationAssumption ==
    /\ First \notin Requests
    /\ Existing \subseteq Rows
    /\ {Administrator, Reviewer} \subseteq Emails
    /\ Administrator # Reviewer
    /\ Service \notin Emails
    /\ \A op \in Operations :
          /\ op.kind = "create" => op.row \in Rows
          /\ op.kind = "patch" /\ DOMAIN op.new \cap Configuration # {} =>
                Configuration \subseteq DOMAIN op.new

VARIABLES cameras,      \* rows by id
          users,        \* rows by email
          stage,        \* of each request
          operation,    \* what it asks for
          held,         \* the row of the camera as it was read
          met           \* history: <<name or email, owner>> while it was answered

adminVars == <<cameras, users, stage, operation, held, met>>

\* A camera goes by the request that created it.
Cameras == Requests \cup {First}

NoRow  == [name |-> "none"]
NoUser == [role |-> "none"]
Idle   == [kind |-> "idle"]

Accounts == [role : {"admin", "reviewer"}, active : BOOLEAN]

Pending == {"asked", "allowed", "checked"}
Answers == {"ok", "unauthenticated", "forbidden", "conflict", "missing", "error"}

Stored  == {c \in Cameras : cameras[c] # NoRow}
Members == {e \in Emails : users[e] # NoUser}

AdminTypeOK == /\ cameras \in [Cameras -> Rows \cup {NoRow}]
               /\ users \in [Emails -> Accounts \cup {NoUser}]
               /\ stage \in [Requests -> {"idle"} \cup Pending \cup Answers]
               /\ held \in [Requests -> Rows \cup {NoRow}]

AdminInit == /\ \E row \in Existing \cup {NoRow} :
                   cameras = [c \in Cameras |-> IF c = First THEN row ELSE NoRow]
             /\ \E on \in BOOLEAN :
                   users = [e \in Emails |->
                              IF e = Administrator THEN [role |-> "admin", active |-> on]
                              ELSE IF e = Reviewer THEN [role |-> "reviewer", active |-> TRUE]
                              ELSE NoUser]
             /\ stage = [r \in Requests |-> "idle"]
             /\ operation = [r \in Requests |-> Idle]
             /\ held = [r \in Requests |-> NoRow]
             /\ met = [r \in Requests |-> {}]

-------------------------------------------------------------------------------
(* Steps of a request *)

\* The unique values and who has them.
Owned(rows, accounts) == {<<rows[c].name, c>> : c \in {d \in Cameras : rows[d] # NoRow}}
                             \cup {<<e, e>> : e \in {f \in Emails : accounts[f] # NoUser}}

Step(r, next) ==
    /\ stage' = [stage EXCEPT ![r] = next]
    /\ met' = [q \in Requests |-> IF stage'[q] = "idle" THEN {}
                                  ELSE IF stage[q] \in Answers THEN met[q]
                                  ELSE met[q] \cup Owned(cameras, users) \cup Owned(cameras', users')]

\* login: whoever has an active account may hold a token; its role is not used.
MayHoldToken(who) == who \in Members /\ users[who].active

Ask(r, op) == /\ stage[r] = "idle"
              /\ operation' = [operation EXCEPT ![r] = op]
              /\ UNCHANGED <<cameras, users, held>>
              /\ Step(r, "asked")

\* Two scripts create administrators; they are run by hand, not authenticated.
Public(op) == op.kind \in {"bootstrap", "create_admin"}

MayDo(who, op) == IF op.kind = "read" THEN who = Service \/ who \in Members
                  ELSE IF op.kind = "review" THEN who \in Members
                  ELSE who \in Members /\ users[who].role = "admin"

\* The frontend server has no account: it is not known to the requests that ask
\* for a user and not just for somebody who may read.
Known(who, op) == IF who = Service THEN op.kind # "user" ELSE MayHoldToken(who)

\* Who sends the request; a token may be missing or have expired.
Authorize(r, who, valid) ==
    /\ stage[r] = "asked"
    /\ UNCHANGED <<cameras, users, operation, held>>
    /\ Step(r, IF Public(operation[r]) THEN "allowed"
               ELSE IF ~valid \/ ~Known(who, operation[r]) THEN "unauthenticated"
               ELSE IF ~MayDo(who, operation[r]) THEN "forbidden"
               ELSE "allowed")

\* Mutant: a camera is in the way of its own name.
TakenByAny(op) == \/ op.kind = "create" /\ \E c \in Stored : cameras[c].name = op.row.name
                  \/ op.kind = "patch" /\ "name" \in DOMAIN op.new
                        /\ \E c \in Stored : cameras[c].name = op.new.name
                  \/ op.kind \in {"user", "create_admin"} /\ op.email \in Members

\* The name or the email is taken when it is looked up.
Taken(op) == \/ op.kind = "create" /\ \E c \in Stored : cameras[c].name = op.row.name
             \/ op.kind = "patch" /\ "name" \in DOMAIN op.new
                   /\ \E c \in Stored \ {op.camera} : cameras[c].name = op.new.name
             \/ op.kind \in {"user", "create_admin"} /\ op.email \in Members

AboutCamera(op) == op.kind \in {"patch", "scene", "delete", "read"}

\* The first half of a handler: load and check.
Read(r) ==
    LET op == operation[r]
    IN  /\ stage[r] = "allowed"
        /\ held' = [held EXCEPT ![r] = IF AboutCamera(op) THEN cameras[op.camera] ELSE NoRow]
        /\ UNCHANGED <<cameras, users, operation>>
        /\ Step(r, IF AboutCamera(op) /\ op.camera \notin Stored THEN "missing"
                   ELSE IF Taken(op) THEN "conflict"
                   ELSE IF \/ op.kind \in {"read", "review"}
                           \/ op.kind = "patch" /\ DOMAIN op.new = {}
                           \/ op.kind = "bootstrap" /\ op.email \in Members
                        THEN "ok"
                   ELSE "checked")

\* What the columns of the camera are to be, with all of the configuration if
\* any of it.
Wanted(r) ==
    LET op == operation[r]
    IN  IF op.kind = "scene" THEN [column \in Configuration |->
                                      IF column = "scene" THEN op.scene ELSE held[r].rest]
        ELSE op.new

\* Mutant: the whole row is written back.
WritesRow(r) == DOMAIN held[r]

\* The columns that differ from what was read; the configuration is one column.
Writes(r) ==
    LET changed == {column \in DOMAIN Wanted(r) : Wanted(r)[column] # held[r][column]}
    IN  IF changed \cap Configuration # {} THEN changed \cup Configuration ELSE changed

Written(r, row) == [column \in DOMAIN row |->
                       IF column \notin Writes(r) THEN row[column]
                       ELSE IF column \in DOMAIN Wanted(r) THEN Wanted(r)[column]
                       ELSE held[r][column]]

NameFree(name, c) == \A d \in Stored \ {c} : cameras[d].name # name

\* Flush and commit of the creation of a camera.
CommitCreate(r) ==
    LET op == operation[r]
    IN  /\ stage[r] = "checked" /\ op.kind = "create"
        /\ IF NameFree(op.row.name, r)
           THEN /\ cameras' = [cameras EXCEPT ![r] = op.row]
                /\ UNCHANGED <<users, operation, held>>
                /\ Step(r, "ok")
           ELSE /\ UNCHANGED <<cameras, users, operation, held>>
                /\ Step(r, "conflict")

\* Commit of an update; a row that is gone cannot be updated or refreshed.
CommitUpdate(r) ==
    LET c == operation[r].camera
    IN  /\ stage[r] = "checked" /\ operation[r].kind \in {"patch", "scene"}
        /\ UNCHANGED <<users, operation, held>>
        /\ IF c \notin Stored
           THEN UNCHANGED cameras /\ Step(r, "error")
           ELSE IF ~NameFree(Written(r, cameras[c]).name, c)
           THEN UNCHANGED cameras /\ Step(r, "conflict")
           ELSE /\ cameras' = [cameras EXCEPT ![c] = Written(r, cameras[c])]
                /\ Step(r, "ok")

\* Commit of a deletion; it is no error that the row is gone.
CommitDelete(r) ==
    LET c == operation[r].camera
    IN  /\ stage[r] = "checked" /\ operation[r].kind = "delete"
        /\ cameras' = [cameras EXCEPT ![c] = NoRow]
        /\ UNCHANGED <<users, operation, held>>
        /\ Step(r, "ok")

\* Commit of a new account; nobody handles that the email was taken meanwhile.
CommitUser(r) ==
    LET op == operation[r]
    IN  /\ stage[r] = "checked" /\ op.kind \in {"user", "bootstrap", "create_admin"}
        /\ UNCHANGED <<cameras, operation, held>>
        /\ IF op.email \in Members
           THEN UNCHANGED users /\ Step(r, "error")
           ELSE /\ users' = [users EXCEPT ![op.email] = [role |-> op.role, active |-> TRUE]]
                /\ Step(r, "ok")

AdminNext == \E r \in Requests :
                \/ \E op \in Operations : Ask(r, op)
                \/ \E who \in Emails \cup {Service}, valid \in BOOLEAN : Authorize(r, who, valid)
                \/ Read(r)
                \/ CommitCreate(r)
                \/ CommitUpdate(r)
                \/ CommitDelete(r)
                \/ CommitUser(r)

AdminSpec == AdminInit /\ [][AdminNext]_adminVars

-------------------------------------------------------------------------------

\* The name or email that a request claims, for a camera or an account.
Claims(r, op) == IF op.kind = "create" THEN {<<op.row.name, r>>}
              ELSE IF op.kind \in {"user", "create_admin"} THEN {<<op.email, Service>>}
              ELSE IF op.kind = "patch" /\ "name" \in DOMAIN op.new THEN {<<op.new.name, op.camera>>}
              ELSE {}

\* A conflict is only answered if another camera or account had the name or the
\* email at some time since the request arrived, whatever raced with it.
RefusedWithCause ==
    \A r \in Requests : stage[r] = "conflict" =>
        \E claim \in Claims(r, operation[r]) : \E own \in met[r] :
            own[1] = claim[1] /\ own[2] # claim[2]

\* The columns that a request is about.
AskedFor(op) == IF op.kind = "scene" THEN Configuration
                ELSE IF op.kind = "patch" THEN DOMAIN op.new
                ELSE {}

\* A camera changes only in what the request that is answered asks for: a change
\* of another column that was committed since the request read the row is kept.
\* Only the two parts of the configuration overwrite each other.
OthersKept ==
    [][\A r \in Requests, c \in Stored :
          stage[r] = "checked" /\ stage'[r] = "ok" /\ cameras'[c] # NoRow =>
              \A column \in DOMAIN cameras[c] :
                  cameras'[c][column] # cameras[c][column] => column \in AskedFor(operation[r])]_adminVars

===============================================================================
