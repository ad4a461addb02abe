---------------------------- MODULE VideoIngestion ----------------------------
(***************************************************************************)
(* Uploads: VideoIngestionService.ingest over LocalVideoStorage and the    *)
(* videos table, any number of them at a time, together with the request   *)
(* that deletes a video and the one that deletes a camera.                 *)
(*                                                                         *)
(* An upload stores its file under a name of its own, looks for a video    *)
(* with the same checksum, reads the metadata of the file, inserts the     *)
(* video and its job and commits.  Every error after the file was stored   *)
(* rolls back and removes the file.  The unique index on the checksum      *)
(* makes an INSERT wait for an open transaction that inserted or deleted   *)
(* a row with the same checksum; the foreign key makes the removal of a    *)
(* camera wait for an open transaction that refers to it.                  *)
(*                                                                         *)
(* The file, the video and the job of upload r are all known as r.         *)
(***************************************************************************)
EXTENDS Naturals

CONSTANTS Requests,   \* uploads
          Contents,   \* checksums
          Content,    \* what each upload holds
          Named,      \* uploads that name the camera
          Mortal      \* requests that may be cut off: the server dies or the client goes

ASSUME IngestionAssumption ==
    /\ Content \in [Requests -> Contents]
    /\ Named \subseteq Requests
    /\ Mortal \subseteq Requests

VARIABLES at,          \* where each upload stands
          outcome,     \* what has become of it
          file,        \* its file: none, partial (.{key}.part) or whole ({key})
          registered,  \* uploads whose video and job are committed
          ended,       \* those whose job has ended
          deletion,    \* where the deletion of each video stands
          camera       \* the camera is registered

uploadVars    == <<at, outcome, file>>
ingestionVars == <<at, outcome, file, registered, ended, deletion, camera>>

Places    == {"new", "saving", "checking", "extracting", "inserting", "committing", "refreshing",
              "undoing", "answered", "gone"}
Outcomes  == {"open", "accepted", "created", "duplicate", "failed"}
Deletions == {"no", "checked", "deleting", "unlinking", "done", "gone"}

IngestionTypeOK == /\ at \in [Requests -> Places]
                   /\ outcome \in [Requests -> Outcomes]
                   /\ file \in [Requests -> {"none", "partial", "whole"}]
                   /\ registered \subseteq Requests
                   /\ ended \subseteq registered
                   /\ deletion \in [Requests -> Deletions]
                   /\ camera \in BOOLEAN

IngestionInit == /\ at = [r \in Requests |-> "new"]
                 /\ outcome = [r \in Requests |-> "open"]
                 /\ file = [r \in Requests |-> "none"]
                 /\ registered = {}
                 /\ ended = {}
                 /\ deletion = [r \in Requests |-> "no"]
                 /\ camera = TRUE

-------------------------------------------------------------------------------
(* The videos table *)

SameContent(r) == {s \in Requests \ {r} : Content[s] = Content[r]}

\* get_by_checksum sees committed rows only.
Known(r) == SameContent(r) \cap registered # {}

\* Mutant: a request that is cut off leaves its transaction open.
ContendedByGone(r) == \E s \in SameContent(r) : at[s] \in {"committing", "gone"} \/ deletion[s] = "deleting"

\* An open transaction has inserted or deleted a row with the checksum.
Contended(r) == \E s \in SameContent(r) : at[s] = "committing" \/ deletion[s] = "deleting"

\* The INSERT raises IntegrityError: the checksum is taken, or the camera that
\* was there at the beginning is not any more.
Refused(r) == Known(r) \/ (r \in Named /\ ~camera)

-------------------------------------------------------------------------------
(* An upload *)

GoTo(r, place) == at' = [at EXCEPT ![r] = place]

Turn(r, result) == outcome' = [outcome EXCEPT ![r] = result]

Store(r, state) == file' = [file EXCEPT ![r] = state]

Rest == <<registered, ended, deletion, camera>>

\* The file name, the type and the camera are looked at before anything is
\* written.
Start(r) == /\ at[r] = "new"
            /\ r \in Named => camera
            /\ GoTo(r, "saving") /\ Store(r, "partial")
            /\ UNCHANGED <<outcome, Rest>>

Decline(r) == /\ at[r] = "new"
              /\ GoTo(r, "answered") /\ Turn(r, "failed")
              /\ UNCHANGED <<file, Rest>>

\* save: the chunks are written and the file gets its name; or it is too
\* large, or the disk fails, and the partial file is removed.
Save(r) == /\ at[r] = "saving"
           /\ \/ GoTo(r, "checking") /\ Store(r, "whole") /\ UNCHANGED outcome
              \/ GoTo(r, "answered") /\ Store(r, "none") /\ Turn(r, "failed")
           /\ UNCHANGED Rest

Check(r) == /\ at[r] = "checking"
            /\ \/ Known(r) /\ GoTo(r, "undoing") /\ Turn(r, "duplicate")
               \/ ~Known(r) /\ GoTo(r, "extracting") /\ UNCHANGED outcome
            /\ UNCHANGED <<file, Rest>>

Extract(r) == /\ at[r] = "extracting"
              /\ GoTo(r, "inserting")
              /\ UNCHANGED <<outcome, file, Rest>>

\* Mutant: no unique index.
InsertAnyway(r) == /\ at[r] = "inserting"
                   /\ GoTo(r, "committing")
                   /\ UNCHANGED <<outcome, file, Rest>>

Insert(r) == /\ at[r] = "inserting"
             /\ ~Contended(r)
             /\ \/ Refused(r) /\ GoTo(r, "undoing") /\ Turn(r, "duplicate")
                \/ ~Refused(r) /\ GoTo(r, "committing") /\ UNCHANGED outcome
             /\ UNCHANGED <<file, Rest>>

Commit(r) == /\ at[r] = "committing"
             /\ registered' = registered \cup {r}
             /\ GoTo(r, "refreshing") /\ Turn(r, "accepted")
             /\ UNCHANGED <<file, ended, deletion, camera>>

Refresh(r) == /\ at[r] = "refreshing"
              /\ GoTo(r, "answered") /\ Turn(r, "created")
              /\ UNCHANGED <<file, Rest>>

\* Any of the calls after the file was stored raises: the metadata cannot be
\* read, the connection is lost.  One that raises after the COMMIT took effect
\* is no different.
Raise(r) == /\ at[r] \in {"checking", "extracting", "inserting", "committing", "refreshing"}
            /\ GoTo(r, "undoing") /\ Turn(r, "failed")
            /\ UNCHANGED <<file, Rest>>

\* Mutant: the file of a duplicate is left.
UndoErrorsOnly(r) == /\ at[r] = "undoing"
                     /\ GoTo(r, "answered")
                     /\ IF outcome[r] = "failed" THEN Store(r, "none") ELSE UNCHANGED file
                     /\ UNCHANGED <<outcome, Rest>>

\* except: rollback, storage.delete, raise.
Undo(r) == /\ at[r] = "undoing"
           /\ GoTo(r, "answered") /\ Store(r, "none")
           /\ UNCHANGED <<outcome, Rest>>

\* The server dies, or the task of the request is cancelled, which no except
\* clause of the code catches: the database rolls back, the file stays.
CutOff(r) == /\ r \in Mortal
             /\ at[r] \notin {"new", "answered", "gone"}
             /\ GoTo(r, "gone")
             /\ IF outcome[r] \in {"open", "accepted"} THEN Turn(r, "failed") ELSE UNCHANGED outcome
             /\ UNCHANGED <<file, Rest>>

-------------------------------------------------------------------------------
(* The job, the deletion of the video and that of the camera *)

EndJob(r) == /\ r \in registered
             /\ ended' = ended \cup {r}
             /\ UNCHANGED <<uploadVars, registered, deletion, camera>>

Delete(r, from, to) == deletion[r] = from /\ deletion' = [deletion EXCEPT ![r] = to]

\* A video whose job has not ended is not deleted.
RequestDelete(r) == /\ Delete(r, "no", "checked")
                    /\ r \in ended
                    /\ UNCHANGED <<uploadVars, registered, ended, camera>>

DeleteRow(r) == /\ Delete(r, "checked", "deleting")
                /\ UNCHANGED <<uploadVars, registered, ended, camera>>

\* Mutant: the file goes before the commit.
CommitAfterUnlink(r) == \/ /\ Delete(r, "deleting", "unlinking")
                           /\ Store(r, "none")
                           /\ UNCHANGED <<at, outcome, registered, ended, camera>>
                        \/ /\ Delete(r, "unlinking", "done")
                           /\ registered' = registered \ {r}
                           /\ ended' = ended \ {r}
                           /\ UNCHANGED <<uploadVars, camera>>

CommitDeletion(r) == /\ Delete(r, "deleting", "unlinking")
                     /\ registered' = registered \ {r}
                     /\ ended' = ended \ {r}
                     /\ UNCHANGED <<uploadVars, camera>>

RollbackDeletion(r) == /\ Delete(r, "checked", "no") \/ Delete(r, "deleting", "no")
                       /\ UNCHANGED <<uploadVars, registered, ended, camera>>

Unlink(r) == /\ Delete(r, "unlinking", "done")
             /\ Store(r, "none")
             /\ UNCHANGED <<at, outcome, registered, ended, camera>>

CutOffDeletion(r) == /\ r \in Mortal
                     /\ Delete(r, "unlinking", "gone")
                     /\ UNCHANGED <<uploadVars, registered, ended, camera>>

RemoveCamera == /\ camera
                /\ \A r \in Named : at[r] # "committing"
                /\ camera' = FALSE
                /\ UNCHANGED <<uploadVars, registered, ended, deletion>>

-------------------------------------------------------------------------------

\* What an upload does by itself once it has begun.
GoOn(r) == Save(r) \/ Check(r) \/ Extract(r) \/ Commit(r) \/ Refresh(r) \/ Undo(r)

Upload(r) == Start(r) \/ Decline(r) \/ GoOn(r) \/ Insert(r) \/ Raise(r)

Deletion(r) == \/ RequestDelete(r) \/ DeleteRow(r) \/ CommitDeletion(r) \/ RollbackDeletion(r)
               \/ Unlink(r)

IngestionNext == \/ \E r \in Requests : Upload(r) \/ EndJob(r) \/ Deletion(r)
                                        \/ CutOff(r) \/ CutOffDeletion(r)
                 \/ RemoveCamera

IngestionSpec == IngestionInit /\ [][IngestionNext]_ingestionVars

\* A request that is not cut off goes on, an open transaction ends, and the
\* database wakes an INSERT that waits for one.  Nothing has to raise.
FairIngestionSpec == /\ IngestionSpec
                     /\ \A r \in Requests : /\ WF_ingestionVars(GoOn(r))
                                            /\ SF_ingestionVars(Insert(r))
                                            /\ WF_ingestionVars(CommitDeletion(r) \/ RollbackDeletion(r))

-------------------------------------------------------------------------------
(* What the upload guarantees *)

\* A registered video has its whole file, which the worker is going to open:
\* no deletion and no error of another upload of the content removes it.  The
\* exception is a request that raised after its commit had taken effect.
RegisteredHasFile == \A r \in registered : outcome[r] # "failed" => file[r] = "whole"

\* A request that was answered without registering a video leaves no file, and
\* a deletion neither, unless they were cut off.
NoFileLeft ==
    \A r \in Requests :
        /\ at[r] = "answered" /\ r \notin registered /\ deletion[r] \in {"no", "done"} => file[r] = "none"
        /\ at[r] = "answered" => file[r] # "partial"

\* The uploads implement the catalogue.
Catalogue == INSTANCE VideoCatalogue WITH held <- registered

ImplementsCatalogue == Catalogue!CatalogueSpec

\* An upload whose INSERT waits for another's transaction is answered too.
EveryUploadEnds == \A r \in Requests : at[r] = "saving" ~> at[r] \in {"answered", "gone"}

===============================================================================
