------------------------- MODULE AdministrationProofs -------------------------
(***************************************************************************)
(* Proofs about the requests that administer the platform: a conflict that *)
(* is answered has a cause, and updates keep what they are not about, for  *)
(* any number of requests that overlap in any way.                         *)
(***************************************************************************)
EXTENDS Administration, TLAPS

\* The functions are defined where they are used.
TablesOK == /\ DOMAIN cameras = Cameras
            /\ \A c \in Stored : "name" \in DOMAIN cameras[c]
            /\ DOMAIN stage = Requests
            /\ operation \in [Requests -> Operations \cup {Idle}]

\* The unique column of the cameras.
NamesUnique == \A c, d \in Stored : cameras[c].name = cameras[d].name => c = d

\* A camera exists only once its creation was answered.
CreatedOnce == \A r \in Requests : r \in Stored => stage[r] \in Answers

AdminInv == TablesOK /\ NamesUnique /\ CreatedOnce /\ RefusedWithCause

-------------------------------------------------------------------------------
(* What a step says of the requests *)

\* The others wait, and the request has met who owns what.
LEMMA StepOf ==
    ASSUME TablesOK, NEW r \in Requests, NEW next, Step(r, next)
    PROVE  /\ DOMAIN stage' = Requests
           /\ stage'[r] = next
           /\ \A q \in Requests \ {r} : stage'[q] = stage[q]
           /\ \A q \in Requests : stage[q] \in Answers /\ stage'[q] # "idle" => met'[q] = met[q]
           /\ stage[r] \notin Answers /\ next # "idle" => Owned(cameras, users) \subseteq met'[r]
BY DEF Step, TablesOK

\* A refusal that was justified stays so, and a new one must be.
LEMMA RefusalsStay ==
    ASSUME TablesOK, RefusedWithCause, NEW r \in Requests, NEW next, Step(r, next),
           stage[r] \notin Answers, next # "idle",
           \A q \in Requests : stage[q] \in Answers => operation'[q] = operation[q],
           next = "conflict" => /\ operation'[r] = operation[r]
                                /\ \E claim \in Claims(r, operation[r]) :
                                     \E own \in Owned(cameras, users) :
                                        own[1] = claim[1] /\ own[2] # claim[2]
    PROVE  RefusedWithCause'
<1>1. /\ stage'[r] = next
      /\ \A q \in Requests \ {r} : stage'[q] = stage[q]
      /\ \A q \in Requests : stage[q] \in Answers /\ stage'[q] # "idle" => met'[q] = met[q]
      /\ Owned(cameras, users) \subseteq met'[r]
  BY StepOf
<1> SUFFICES ASSUME NEW q \in Requests, stage'[q] = "conflict"
             PROVE  \E claim \in Claims(q, operation'[q]) : \E own \in met'[q] :
                       own[1] = claim[1] /\ own[2] # claim[2]
  BY DEF RefusedWithCause, Claims
<1>2. CASE q = r
  BY <1>1, <1>2
<1>3. CASE q # r
  <2>1. stage[q] = "conflict" /\ stage[q] \in Answers
    BY <1>1, <1>3 DEF Answers
  <2>2. met'[q] = met[q] /\ operation'[q] = operation[q]
    BY <1>1, <2>1
  <2>. QED
    BY <2>1, <2>2 DEF RefusedWithCause
<1>. QED
  BY <1>2, <1>3

-------------------------------------------------------------------------------
(* Causes of a refusal *)

\* Who has a name or an email is known to those who are served meanwhile.
LEMMA OwnersKnown ==
    /\ \A d \in Stored : <<cameras[d].name, d>> \in Owned(cameras, users)
    /\ \A e \in Members : <<e, e>> \in Owned(cameras, users)
BY DEF Owned, Stored, Members

\* What is taken when it is looked up is another's.
LEMMA TakenHasCause ==
    ASSUME CreatedOnce, NEW r \in Requests, stage[r] = "allowed", Taken(operation[r])
    PROVE  \E claim \in Claims(r, operation[r]) : \E own \in Owned(cameras, users) :
              own[1] = claim[1] /\ own[2] # claim[2]
<1> DEFINE op == operation[r]
<1>1. CASE op.kind = "create" /\ \E c \in Stored : cameras[c].name = op.row.name
  <2>1. PICK c \in Stored : cameras[c].name = op.row.name
    BY <1>1
  <2>2. c # r
    BY DEF CreatedOnce, Answers
  <2>3. <<op.row.name, r>> \in Claims(r, op)
    BY <1>1 DEF Claims
  <2>4. <<op.row.name, c>> \in Owned(cameras, users)
    BY <2>1, OwnersKnown
  <2>. QED
    BY <2>2, <2>3, <2>4
<1>2. CASE /\ op.kind = "patch" /\ "name" \in DOMAIN op.new
           /\ \E c \in Stored \ {op.camera} : cameras[c].name = op.new.name
  <2>1. PICK c \in Stored \ {op.camera} : cameras[c].name = op.new.name
    BY <1>2
  <2>2. <<op.new.name, op.camera>> \in Claims(r, op)
    BY <1>2 DEF Claims
  <2>3. <<op.new.name, c>> \in Owned(cameras, users)
    BY <2>1, OwnersKnown
  <2>. QED
    BY <2>1, <2>2, <2>3
<1>3. CASE op.kind \in {"user", "create_admin"} /\ op.email \in Members
  <2>1. <<op.email, Service>> \in Claims(r, op)
    BY <1>3 DEF Claims
  <2>2. <<op.email, op.email>> \in Owned(cameras, users)
    BY <1>3, OwnersKnown
  <2>3. op.email # Service
    BY <1>3, AdministrationAssumption DEF Members
  <2>. QED
    BY <2>1, <2>2, <2>3
<1>. QED
  BY <1>1, <1>2, <1>3 DEF Taken

\* What an update writes is what it asks for.
LEMMA WritesAskedFor ==
    ASSUME TablesOK, NEW r \in Requests, operation[r].kind \in {"patch", "scene"}
    PROVE  Writes(r) \subseteq AskedFor(operation[r])
<1> DEFINE op == operation[r]
<1>1. CASE op.kind = "scene"
  <2>1. DOMAIN Wanted(r) = Configuration
    BY <1>1 DEF Wanted
  <2>. QED
    BY <1>1, <2>1 DEF Writes, AskedFor
<1>2. CASE op.kind = "patch"
  <2>1. op \in Operations
    BY <1>2 DEF TablesOK, Idle
  <2>2. DOMAIN op.new \cap Configuration # {} => Configuration \subseteq DOMAIN op.new
    BY <1>2, <2>1, AdministrationAssumption
  <2>3. Wanted(r) = op.new
    BY <1>2 DEF Wanted
  <2>. QED
    BY <1>2, <2>2, <2>3 DEF Writes, AskedFor
<1>. QED
  BY <1>1, <1>2

\* A name that was taken between the check and the commit was not the camera's.
LEMMA LateHasCause ==
    ASSUME TablesOK, NamesUnique, NEW r \in Requests,
           operation[r].kind \in {"patch", "scene"}, operation[r].camera \in Stored,
           ~NameFree(Written(r, cameras[operation[r].camera]).name, operation[r].camera)
    PROVE  \E claim \in Claims(r, operation[r]) : \E own \in Owned(cameras, users) :
              own[1] = claim[1] /\ own[2] # claim[2]
<1> DEFINE op == operation[r]
           c == op.camera
<1>1. PICK d \in Stored \ {c} : cameras[d].name = Written(r, cameras[c]).name
  BY DEF NameFree
<1>2. "name" \in DOMAIN cameras[c]
  BY DEF TablesOK
<1>3. cameras[d].name # cameras[c].name
  BY DEF NamesUnique
<1>4. "name" \in Writes(r)
  BY <1>1, <1>2, <1>3 DEF Written
<1>5. "name" \in AskedFor(op)
  BY <1>4, WritesAskedFor
<1>6. op.kind = "patch" /\ "name" \in DOMAIN op.new
  BY <1>5 DEF AskedFor, Configuration
<1>7. Wanted(r) = op.new
  BY <1>6 DEF Wanted
<1>8. Written(r, cameras[c]).name = op.new.name
  BY <1>2, <1>4, <1>6, <1>7 DEF Written
<1>9. <<op.new.name, c>> \in Claims(r, op)
  BY <1>6 DEF Claims
<1>10. <<op.new.name, d>> \in Owned(cameras, users)
  BY <1>1, <1>8, OwnersKnown
<1>. QED
  BY <1>9, <1>10

-------------------------------------------------------------------------------
(* The invariant *)

\* A step that leaves the cameras alone.
LEMMA RowsStay ==
    ASSUME TablesOK, NamesUnique, CreatedOnce, NEW r \in Requests, NEW next, Step(r, next),
           stage[r] \notin Answers, UNCHANGED cameras,
           operation' \in [Requests -> Operations \cup {Idle}]
    PROVE  TablesOK' /\ NamesUnique' /\ CreatedOnce'
<1>1. /\ DOMAIN stage' = Requests
      /\ \A q \in Requests \ {r} : stage'[q] = stage[q]
  BY StepOf
<1>2. Stored' = Stored
  BY DEF Stored
<1>. QED
  BY <1>1, <1>2 DEF TablesOK, NamesUnique, CreatedOnce

\* A step that is answered and makes one camera another, under a free name.
LEMMA RowChanges ==
    ASSUME TablesOK, NamesUnique, CreatedOnce, NEW r \in Requests, Step(r, "ok"),
           stage[r] \notin Answers, UNCHANGED operation,
           NEW c, NEW row, cameras' = [cameras EXCEPT ![c] = row],
           row # NoRow => /\ c \in Stored \cup {r}
                          /\ "name" \in DOMAIN row /\ NameFree(row.name, c)
    PROVE  TablesOK' /\ NamesUnique' /\ CreatedOnce'
<1>1. /\ DOMAIN stage' = Requests
      /\ stage'[r] = "ok"
      /\ \A q \in Requests \ {r} : stage'[q] = stage[q]
  BY StepOf
<1>2. /\ DOMAIN cameras' = Cameras
      /\ \A d \in Cameras : cameras'[d] = IF d = c THEN row ELSE cameras[d]
  BY DEF TablesOK
<1>3. /\ Stored' \subseteq Stored \cup {c}
      /\ c \in Stored' => row # NoRow
  BY <1>2 DEF Stored
<1>4. TablesOK'
  BY <1>1, <1>2, <1>3 DEF TablesOK, Stored
<1>5. NamesUnique'
  <2> SUFFICES ASSUME NEW d \in Stored', NEW e \in Stored', cameras'[d].name = cameras'[e].name
               PROVE  d = e
    BY DEF NamesUnique
  <2>1. \A x \in Stored' \ {c} : x \in Stored /\ cameras'[x] = cameras[x]
    BY <1>2, <1>3 DEF Stored
  <2>2. \A x \in Stored' \ {c} : c \in Stored' => cameras'[x].name # cameras'[c].name
    <3> SUFFICES ASSUME NEW x \in Stored' \ {c}, c \in Stored' PROVE cameras'[x].name # cameras'[c].name
      OBVIOUS
    <3>1. c \in Cameras /\ cameras'[c] = row /\ NameFree(row.name, c)
      BY <1>2, <1>3 DEF Stored
    <3>2. cameras[x].name # row.name
      BY <2>1, <3>1 DEF NameFree
    <3>. QED
      BY <2>1, <3>1, <3>2
  <2>3. CASE d # c /\ e # c
    BY <2>1, <2>3 DEF NamesUnique
  <2>. QED
    BY <2>2, <2>3
<1>6. CreatedOnce'
  BY <1>1, <1>3 DEF CreatedOnce, Answers
<1>. QED
  BY <1>4, <1>5, <1>6

\* The invariant is inductive.
LEMMA AdminInductive ==
    ASSUME AdminInv, [AdminNext]_adminVars
    PROVE  AdminInv'
<1> USE DEF AdminInv
<1>1. ASSUME NEW r \in Requests, NEW op \in Operations, Ask(r, op) PROVE AdminInv'
  <2>1. /\ Step(r, "asked") /\ stage[r] = "idle" /\ stage[r] \notin Answers
        /\ operation' = [operation EXCEPT ![r] = op] /\ UNCHANGED cameras
    BY <1>1 DEF Ask, Answers
  <2>2. operation' \in [Requests -> Operations \cup {Idle}]
    BY <2>1 DEF TablesOK
  <2>3. \A q \in Requests : stage[q] \in Answers => operation'[q] = operation[q]
    BY <2>1 DEF TablesOK
  <2>4. RefusedWithCause'
    BY <2>1, <2>3, RefusalsStay
  <2>. QED
    BY <2>1, <2>2, <2>4, RowsStay
<1>2. ASSUME NEW r \in Requests, NEW next, Step(r, next), stage[r] \in Pending, next # "idle",
             UNCHANGED <<cameras, operation>>,
             next = "conflict" => \E claim \in Claims(r, operation[r]) :
                                     \E own \in Owned(cameras, users) :
                                        own[1] = claim[1] /\ own[2] # claim[2]
      PROVE  AdminInv'
  <2>1. stage[r] \notin Answers
    BY <1>2 DEF Pending, Answers
  <2>2. operation' \in [Requests -> Operations \cup {Idle}]
    BY <1>2 DEF TablesOK
  <2>3. RefusedWithCause'
    BY <1>2, <2>1, RefusalsStay
  <2>. QED
    BY <1>2, <2>1, <2>2, <2>3, RowsStay
<1>3. ASSUME NEW r \in Requests, NEW who, NEW valid, Authorize(r, who, valid) PROVE AdminInv'
  <2> DEFINE next == IF Public(operation[r]) THEN "allowed"
                     ELSE IF ~valid \/ ~Known(who, operation[r]) THEN "unauthenticated"
                     ELSE IF ~MayDo(who, operation[r]) THEN "forbidden"
                     ELSE "allowed"
  <2>1. Step(r, next) /\ stage[r] \in Pending /\ UNCHANGED <<cameras, operation>>
    BY <1>3 DEF Authorize, Pending
  <2>2. next # "idle" /\ next # "conflict"
    OBVIOUS
  <2>. HIDE DEF next
  <2>. QED
    BY <1>2, <2>1, <2>2
<1>4. ASSUME NEW r \in Requests, Read(r) PROVE AdminInv'
  <2> DEFINE op == operation[r]
             next == IF AboutCamera(op) /\ op.camera \notin Stored THEN "missing"
                     ELSE IF Taken(op) THEN "conflict"
                     ELSE IF \/ op.kind \in {"read", "review"}
                             \/ op.kind = "patch" /\ DOMAIN op.new = {}
                             \/ op.kind = "bootstrap" /\ op.email \in Members
                          THEN "ok"
                     ELSE "checked"
  <2>1. Step(r, next) /\ stage[r] = "allowed" /\ UNCHANGED <<cameras, operation>>
    BY <1>4 DEF Read
  <2>2. next # "idle" /\ (next = "conflict" => Taken(op))
    OBVIOUS
  <2>3. next = "conflict" => \E claim \in Claims(r, operation[r]) :
                                \E own \in Owned(cameras, users) :
                                   own[1] = claim[1] /\ own[2] # claim[2]
    BY <2>1, <2>2, TakenHasCause
  <2>4. stage[r] \in Pending
    BY <2>1 DEF Pending
  <2>. HIDE DEF next
  <2>. QED
    BY <1>2, <2>1, <2>2, <2>3, <2>4
<1>5. ASSUME NEW r \in Requests, stage[r] = "checked", Step(r, "ok"), UNCHANGED operation,
             NEW c, NEW row, cameras' = [cameras EXCEPT ![c] = row],
             row # NoRow => /\ c \in Stored \cup {r}
                            /\ "name" \in DOMAIN row /\ NameFree(row.name, c)
      PROVE  AdminInv'
  <2>1. stage[r] \notin Answers
    BY <1>5 DEF Answers
  <2>2. RefusedWithCause'
    BY <1>5, <2>1, RefusalsStay
  <2>. QED
    BY <1>5, <2>1, <2>2, RowChanges
<1>6. ASSUME NEW r \in Requests, CommitCreate(r) PROVE AdminInv'
  <2> DEFINE op == operation[r]
  <2>1. stage[r] = "checked" /\ stage[r] \in Pending /\ op.kind = "create" /\ UNCHANGED operation
    BY <1>6 DEF CommitCreate, Pending
  <2>2. CASE NameFree(op.row.name, r)
    <3>1. cameras' = [cameras EXCEPT ![r] = op.row] /\ Step(r, "ok")
      BY <1>6, <2>2 DEF CommitCreate
    <3>2. op \in Operations
      BY <2>1 DEF TablesOK, Idle
    <3>3. op.row \in Rows
      BY <2>1, <3>2, AdministrationAssumption
    <3>4. "name" \in DOMAIN op.row
      BY <3>3 DEF Rows
    <3>. QED
      BY <1>5, <2>1, <2>2, <3>1, <3>4
  <2>3. CASE ~NameFree(op.row.name, r)
    <3>1. UNCHANGED <<cameras, operation>> /\ Step(r, "conflict")
      BY <1>6, <2>3 DEF CommitCreate
    <3>2. PICK d \in Stored \ {r} : cameras[d].name = op.row.name
      BY <2>3 DEF NameFree
    <3>3. <<op.row.name, r>> \in Claims(r, op)
      BY <2>1 DEF Claims
    <3>4. <<op.row.name, d>> \in Owned(cameras, users)
      BY <3>2, OwnersKnown
    <3>5. \E claim \in Claims(r, operation[r]) : \E own \in Owned(cameras, users) :
             own[1] = claim[1] /\ own[2] # claim[2]
      BY <3>2, <3>3, <3>4
    <3>. QED
      BY <1>2, <2>1, <3>1, <3>5
  <2>. QED
    BY <2>2, <2>3
<1>7. ASSUME NEW r \in Requests, CommitUpdate(r) PROVE AdminInv'
  <2> DEFINE c == operation[r].camera
             row == Written(r, cameras[c])
  <2>1. /\ stage[r] = "checked" /\ stage[r] \in Pending
        /\ operation[r].kind \in {"patch", "scene"} /\ UNCHANGED operation
    BY <1>7 DEF CommitUpdate, Pending
  <2>2. CASE c \notin Stored
    <3>1. UNCHANGED cameras /\ Step(r, "error")
      BY <1>7, <2>2 DEF CommitUpdate
    <3>. QED
      BY <1>2, <2>1, <3>1
  <2>3. CASE c \in Stored /\ ~NameFree(row.name, c)
    <3>1. UNCHANGED cameras /\ Step(r, "conflict")
      BY <1>7, <2>3 DEF CommitUpdate
    <3>2. \E claim \in Claims(r, operation[r]) : \E own \in Owned(cameras, users) :
             own[1] = claim[1] /\ own[2] # claim[2]
      BY <2>1, <2>3, LateHasCause
    <3>. QED
      BY <1>2, <2>1, <3>1, <3>2
  <2>4. CASE c \in Stored /\ NameFree(row.name, c)
    <3>1. cameras' = [cameras EXCEPT ![c] = row] /\ Step(r, "ok")
      BY <1>7, <2>4 DEF CommitUpdate
    <3>2. "name" \in DOMAIN row
      BY <2>4 DEF Written, TablesOK
    <3>. QED
      BY <1>5, <2>1, <2>4, <3>1, <3>2
  <2>. QED
    BY <2>2, <2>3, <2>4
<1>8. ASSUME NEW r \in Requests, CommitDelete(r) PROVE AdminInv'
  BY <1>5, <1>8 DEF CommitDelete
<1>9. ASSUME NEW r \in Requests, CommitUser(r) PROVE AdminInv'
  <2>1. stage[r] \in Pending /\ UNCHANGED <<cameras, operation>>
    BY <1>9 DEF CommitUser, Pending
  <2>2. Step(r, "ok") \/ Step(r, "error")
    BY <1>9 DEF CommitUser
  <2>. QED
    BY <1>2, <2>1, <2>2
<1>10. CASE UNCHANGED adminVars
  BY <1>10 DEF adminVars, TablesOK, NamesUnique, CreatedOnce, RefusedWithCause, Stored, Claims
<1>. QED
  BY <1>1, <1>3, <1>4, <1>6, <1>7, <1>8, <1>9, <1>10 DEF AdminNext

\* It holds of every reachable state.
THEOREM RequestsKeepTables == AdminSpec => []AdminInv
<1>1. AdminInit => AdminInv
  <2> SUFFICES ASSUME AdminInit PROVE AdminInv
    OBVIOUS
  <2>1. PICK row \in Existing \cup {NoRow} :
           cameras = [c \in Cameras |-> IF c = First THEN row ELSE NoRow]
    BY DEF AdminInit
  <2>2. Stored \subseteq {First} /\ (First \in Stored => "name" \in DOMAIN cameras[First])
    BY <2>1, AdministrationAssumption DEF Stored, Cameras, Rows
  <2>3. TablesOK
    BY <2>1, <2>2 DEF TablesOK, AdminInit
  <2>. QED
    BY <2>2, <2>3, AdministrationAssumption
       DEF AdminInv, NamesUnique, CreatedOnce, RefusedWithCause, AdminInit
<1>2. AdminInv /\ [AdminNext]_adminVars => AdminInv'
  BY AdminInductive
<1>. QED
  BY <1>1, <1>2, PTL DEF AdminSpec

\* Whoever is refused for a name or an email was in the way of another.
THEOREM RefusalsHaveCause == AdminSpec => []RefusedWithCause
<1>1. AdminInv => RefusedWithCause
  BY DEF AdminInv
<1>. QED
  BY <1>1, RequestsKeepTables, PTL

-------------------------------------------------------------------------------
(* Updates *)

\* An answer to a request that was checked.
LEMMA AnswerKeepsOthers ==
    ASSUME AdminInv, AdminNext, NEW r \in Requests, NEW c \in Stored,
           stage[r] = "checked", stage'[r] = "ok", cameras'[c] # NoRow,
           NEW column \in DOMAIN cameras[c], cameras'[c][column] # cameras[c][column]
    PROVE  column \in AskedFor(operation[r])
<1> USE DEF AdminInv
<1>1. \A q \in Requests : \A next : Step(q, next) => q = r /\ next = "ok"
  <2> SUFFICES ASSUME NEW q \in Requests, NEW next, Step(q, next) PROVE q = r /\ next = "ok"
    OBVIOUS
  <2>1. stage'[q] = next /\ \A p \in Requests \ {q} : stage'[p] = stage[p]
    BY StepOf
  <2>. QED
    BY <2>1
<1>2. c \in Cameras /\ DOMAIN cameras = Cameras /\ cameras' # cameras
  BY DEF Stored, TablesOK
<1>3. ASSUME NEW q \in Requests, CommitCreate(q) PROVE column \in AskedFor(operation[r])
  <2>1. q = r /\ cameras' = [cameras EXCEPT ![q] = operation[q].row]
    BY <1>1, <1>2, <1>3 DEF CommitCreate
  <2>2. r \notin Stored
    BY DEF CreatedOnce, Answers
  <2>3. cameras'[c] = cameras[c]
    BY <1>2, <2>1, <2>2
  <2>. QED
    BY <2>3
<1>4. ASSUME NEW q \in Requests, CommitUpdate(q) PROVE column \in AskedFor(operation[r])
  <2> DEFINE d == operation[q].camera
  <2>1. /\ q = r /\ operation[r].kind \in {"patch", "scene"}
        /\ cameras' = [cameras EXCEPT ![d] = Written(q, cameras[d])]
    BY <1>1, <1>2, <1>4 DEF CommitUpdate
  <2>2. c = d /\ cameras'[c] = Written(r, cameras[c])
    BY <1>2, <2>1
  <2>3. column \in Writes(r)
    BY <2>2 DEF Written
  <2>. QED
    BY <2>1, <2>3, WritesAskedFor
<1>5. ASSUME NEW q \in Requests, CommitDelete(q) PROVE column \in AskedFor(operation[r])
  <2>1. cameras' = [cameras EXCEPT ![operation[q].camera] = NoRow]
    BY <1>5 DEF CommitDelete
  <2>2. cameras'[c] = cameras[c]
    BY <1>2, <2>1
  <2>. QED
    BY <2>2
<1>6. ASSUME NEW q \in Requests, \E op \in Operations : Ask(q, op) PROVE column \in AskedFor(operation[r])
  BY <1>2, <1>6 DEF Ask
<1>7. ASSUME NEW q \in Requests, \E who \in Emails \cup {Service}, valid \in BOOLEAN : Authorize(q, who, valid)
      PROVE  column \in AskedFor(operation[r])
  BY <1>2, <1>7 DEF Authorize
<1>8. ASSUME NEW q \in Requests, Read(q) \/ CommitUser(q) PROVE column \in AskedFor(operation[r])
  BY <1>2, <1>8 DEF Read, CommitUser
<1>. QED
  BY <1>3, <1>4, <1>5, <1>6, <1>7, <1>8 DEF AdminNext

\* Requests keep what they are not about.
THEOREM OtherColumnsKept == AdminSpec => OthersKept
<1>1. ASSUME AdminInv, [AdminNext]_adminVars
      PROVE  [\A r \in Requests, c \in Stored :
                 stage[r] = "checked" /\ stage'[r] = "ok" /\ cameras'[c] # NoRow =>
                     \A column \in DOMAIN cameras[c] :
                         cameras'[c][column] # cameras[c][column] => column \in AskedFor(operation[r])]_adminVars
  BY <1>1, AnswerKeepsOthers
<1>. QED
  BY <1>1, RequestsKeepTables, PTL DEF AdminSpec, OthersKept

===============================================================================
