------------------------- MODULE VideoIngestionProofs -------------------------
(***************************************************************************)
(* The uploads keep their types and files and implement the catalogue, for *)
(* any requests and contents.                                              *)
(***************************************************************************)
EXTENDS VideoIngestion, TLAPS

\* Where an upload stands says what has become of it.
OutcomeByPlace ==
    \A r \in Requests :
        /\ at[r] \in {"new", "saving", "checking", "extracting", "inserting", "committing"}
              => outcome[r] = "open" /\ r \notin registered /\ deletion[r] = "no"
        /\ at[r] = "refreshing" => outcome[r] = "accepted" /\ (deletion[r] = "no" => r \in registered)
        /\ at[r] = "undoing" => outcome[r] \in {"duplicate", "failed"}
        /\ outcome[r] = "duplicate" => r \notin registered /\ deletion[r] = "no"

\* A deletion has a committed row until it commits.
DeletesRegistered ==
    \A r \in Requests : /\ deletion[r] \in {"checked", "deleting"} => r \in registered
                        /\ deletion[r] \in {"unlinking", "done", "gone"} => r \notin registered

\* An upload about to commit is alone with its content.
CommitsAlone ==
    \A r, s \in Requests :
        at[r] = "committing" /\ Content[r] = Content[s] =>
            s \notin registered /\ (at[s] = "committing" => s = r)

\* The file of an upload, by where it stands.
FileByPlace ==
    \A r \in Requests :
        /\ at[r] = "new" => file[r] = "none"
        /\ at[r] \in {"checking", "extracting", "inserting", "committing", "refreshing"}
              /\ (r \in registered \/ deletion[r] = "no") => file[r] = "whole"
        /\ at[r] = "undoing" => file[r] # "partial"
        /\ file[r] = "partial" => at[r] \in {"saving", "gone"}
        /\ r \in registered /\ outcome[r] # "failed" => file[r] = "whole"
        /\ deletion[r] = "done" => file[r] = "none"
        /\ at[r] = "answered" /\ r \notin registered /\ deletion[r] = "no" => file[r] = "none"

IngestionInv == /\ IngestionTypeOK
                /\ OutcomeByPlace
                /\ DeletesRegistered
                /\ CommitsAlone
                /\ FileByPlace

-------------------------------------------------------------------------------

\* Every step keeps the types.
LEMMA TypeStep ==
    ASSUME IngestionTypeOK, [IngestionNext]_ingestionVars
    PROVE  IngestionTypeOK'
<1> USE DEF IngestionTypeOK, Places, Outcomes, Deletions,
           Rest, uploadVars, GoTo, Turn, Store, Delete
<1>0. CASE UNCHANGED ingestionVars
  BY <1>0 DEF ingestionVars
<1>1. CASE RemoveCamera
  BY <1>1 DEF RemoveCamera
<1>2. ASSUME NEW q \in Requests, Upload(q) \/ EndJob(q) \/ Deletion(q) \/ CutOff(q) \/ CutOffDeletion(q)
      PROVE  IngestionTypeOK'
  <2>1. CASE Start(q)
    BY <2>1 DEF Start
  <2>2. CASE Decline(q)
    BY <2>2 DEF Decline
  <2>3. CASE Save(q)
    BY <2>3 DEF Save
  <2>4. CASE Check(q)
    BY <2>4 DEF Check, Known
  <2>5. CASE Extract(q)
    BY <2>5 DEF Extract
  <2>6. CASE Insert(q)
    BY <2>6 DEF Insert, Contended, Refused, Known, SameContent
  <2>7. CASE Commit(q)
    BY <2>7 DEF Commit
  <2>8. CASE Refresh(q)
    BY <2>8 DEF Refresh
  <2>9. CASE Raise(q)
    BY <2>9 DEF Raise
  <2>10. CASE Undo(q)
    BY <2>10 DEF Undo
  <2>11. CASE CutOff(q)
    BY <2>11 DEF CutOff
  <2>12. CASE EndJob(q)
    BY <2>12 DEF EndJob
  <2>13. CASE RequestDelete(q)
    BY <2>13 DEF RequestDelete
  <2>14. CASE DeleteRow(q)
    BY <2>14 DEF DeleteRow
  <2>15. CASE CommitDeletion(q)
    BY <2>15 DEF CommitDeletion
  <2>16. CASE RollbackDeletion(q)
    BY <2>16 DEF RollbackDeletion
  <2>17. CASE Unlink(q)
    BY <2>17 DEF Unlink
  <2>18. CASE CutOffDeletion(q)
    BY <2>18 DEF CutOffDeletion
  <2>. QED
    BY <1>2, <2>1, <2>2, <2>3, <2>4, <2>5, <2>6, <2>7, <2>8, <2>9, <2>10, <2>11, <2>12, <2>13, <2>14, <2>15, <2>16, <2>17, <2>18 DEF Upload, GoOn, Deletion
<1>. QED
  BY <1>0, <1>1, <1>2 DEF IngestionNext

\* Every step keeps what the place of an upload says.
LEMMA OutcomeStep ==
    ASSUME IngestionTypeOK, OutcomeByPlace, DeletesRegistered, [IngestionNext]_ingestionVars
    PROVE  (OutcomeByPlace /\ DeletesRegistered)'
<1> USE DEF IngestionTypeOK, Places, Outcomes, Deletions, OutcomeByPlace, DeletesRegistered,
           Rest, uploadVars, GoTo, Turn, Store, Delete
<1>0. CASE UNCHANGED ingestionVars
  BY <1>0 DEF ingestionVars
<1>1. CASE RemoveCamera
  BY <1>1 DEF RemoveCamera
<1>2. ASSUME NEW q \in Requests, Upload(q) \/ EndJob(q) \/ Deletion(q) \/ CutOff(q) \/ CutOffDeletion(q)
      PROVE  (OutcomeByPlace /\ DeletesRegistered)'
  <2>1. CASE Start(q)
    BY <2>1 DEF Start
  <2>2. CASE Decline(q)
    BY <2>2 DEF Decline
  <2>3. CASE Save(q)
    BY <2>3 DEF Save
  <2>4. CASE Check(q)
    BY <2>4 DEF Check, Known
  <2>5. CASE Extract(q)
    BY <2>5 DEF Extract
  <2>6. CASE Insert(q)
    BY <2>6 DEF Insert, Contended, Refused, Known, SameContent
  <2>7. CASE Commit(q)
    BY <2>7 DEF Commit
  <2>8. CASE Refresh(q)
    BY <2>8 DEF Refresh
  <2>9. CASE Raise(q)
    BY <2>9 DEF Raise
  <2>10. CASE Undo(q)
    BY <2>10 DEF Undo
  <2>11. CASE CutOff(q)
    BY <2>11 DEF CutOff
  <2>12. CASE EndJob(q)
    BY <2>12 DEF EndJob
  <2>13. CASE RequestDelete(q)
    BY <2>13 DEF RequestDelete
  <2>14. CASE DeleteRow(q)
    BY <2>14 DEF DeleteRow
  <2>15. CASE CommitDeletion(q)
    BY <2>15 DEF CommitDeletion
  <2>16. CASE RollbackDeletion(q)
    BY <2>16 DEF RollbackDeletion
  <2>17. CASE Unlink(q)
    BY <2>17 DEF Unlink
  <2>18. CASE CutOffDeletion(q)
    BY <2>18 DEF CutOffDeletion
  <2>. QED
    BY <1>2, <2>1, <2>2, <2>3, <2>4, <2>5, <2>6, <2>7, <2>8, <2>9, <2>10, <2>11, <2>12, <2>13, <2>14, <2>15, <2>16, <2>17, <2>18 DEF Upload, GoOn, Deletion
<1>. QED
  BY <1>0, <1>1, <1>2 DEF IngestionNext

\* Every step leaves uploads that commit alone with their contents.
LEMMA AloneStep ==
    ASSUME IngestionTypeOK, OutcomeByPlace, CommitsAlone, [IngestionNext]_ingestionVars
    PROVE  CommitsAlone'
<1> USE DEF IngestionTypeOK, OutcomeByPlace, CommitsAlone,
           Rest, uploadVars, GoTo, Turn, Store, Delete
<1>0. CASE UNCHANGED ingestionVars
  BY <1>0 DEF ingestionVars
<1>1. CASE RemoveCamera
  BY <1>1 DEF RemoveCamera
<1>2. ASSUME NEW q \in Requests, Upload(q) \/ EndJob(q) \/ Deletion(q) \/ CutOff(q) \/ CutOffDeletion(q)
      PROVE  CommitsAlone'
  <2>1. CASE Start(q)
    BY <2>1 DEF Start
  <2>2. CASE Decline(q)
    BY <2>2 DEF Decline
  <2>3. CASE Save(q)
    BY <2>3 DEF Save
  <2>4. CASE Check(q)
    BY <2>4 DEF Check, Known
  <2>5. CASE Extract(q)
    BY <2>5 DEF Extract
  <2>6. CASE Insert(q)
    BY <2>6 DEF Insert, Contended, Refused, Known, SameContent
  <2>7. CASE Commit(q)
    BY <2>7 DEF Commit
  <2>8. CASE Refresh(q)
    BY <2>8 DEF Refresh
  <2>9. CASE Raise(q)
    BY <2>9 DEF Raise
  <2>10. CASE Undo(q)
    BY <2>10 DEF Undo
  <2>11. CASE CutOff(q)
    BY <2>11 DEF CutOff
  <2>12. CASE EndJob(q)
    BY <2>12 DEF EndJob
  <2>13. CASE RequestDelete(q)
    BY <2>13 DEF RequestDelete
  <2>14. CASE DeleteRow(q)
    BY <2>14 DEF DeleteRow
  <2>15. CASE CommitDeletion(q)
    BY <2>15 DEF CommitDeletion
  <2>16. CASE RollbackDeletion(q)
    BY <2>16 DEF RollbackDeletion
  <2>17. CASE Unlink(q)
    BY <2>17 DEF Unlink
  <2>18. CASE CutOffDeletion(q)
    BY <2>18 DEF CutOffDeletion
  <2>. QED
    BY <1>2, <2>1, <2>2, <2>3, <2>4, <2>5, <2>6, <2>7, <2>8, <2>9, <2>10, <2>11, <2>12, <2>13, <2>14, <2>15, <2>16, <2>17, <2>18 DEF Upload, GoOn, Deletion
<1>. QED
  BY <1>0, <1>1, <1>2 DEF IngestionNext

\* Every step keeps the files where they belong.
LEMMA FileStep ==
    ASSUME IngestionTypeOK, OutcomeByPlace, DeletesRegistered, FileByPlace, [IngestionNext]_ingestionVars
    PROVE  FileByPlace'
<1> USE DEF IngestionTypeOK, Places, Outcomes, Deletions, OutcomeByPlace, DeletesRegistered, FileByPlace,
           Rest, uploadVars, GoTo, Turn, Store, Delete
<1>0. CASE UNCHANGED ingestionVars
  BY <1>0 DEF ingestionVars
<1>1. CASE RemoveCamera
  BY <1>1 DEF RemoveCamera
<1>2. ASSUME NEW q \in Requests, Upload(q) \/ EndJob(q) \/ Deletion(q) \/ CutOff(q) \/ CutOffDeletion(q)
      PROVE  FileByPlace'
  <2>1. CASE Start(q)
    BY <2>1 DEF Start
  <2>2. CASE Decline(q)
    BY <2>2 DEF Decline
  <2>3. CASE Save(q)
    BY <2>3 DEF Save
  <2>4. CASE Check(q)
    BY <2>4 DEF Check, Known
  <2>5. CASE Extract(q)
    BY <2>5 DEF Extract
  <2>6. CASE Insert(q)
    BY <2>6 DEF Insert, Contended, Refused, Known, SameContent
  <2>7. CASE Commit(q)
    BY <2>7 DEF Commit
  <2>8. CASE Refresh(q)
    BY <2>8 DEF Refresh
  <2>9. CASE Raise(q)
    BY <2>9 DEF Raise
  <2>10. CASE Undo(q)
    BY <2>10 DEF Undo
  <2>11. CASE CutOff(q)
    BY <2>11 DEF CutOff
  <2>12. CASE EndJob(q)
    BY <2>12 DEF EndJob
  <2>13. CASE RequestDelete(q)
    BY <2>13 DEF RequestDelete
  <2>14. CASE DeleteRow(q)
    BY <2>14 DEF DeleteRow
  <2>15. CASE CommitDeletion(q)
    BY <2>15 DEF CommitDeletion
  <2>16. CASE RollbackDeletion(q)
    BY <2>16 DEF RollbackDeletion
  <2>17. CASE Unlink(q)
    BY <2>17 DEF Unlink
  <2>18. CASE CutOffDeletion(q)
    BY <2>18 DEF CutOffDeletion
  <2>. QED
    BY <1>2, <2>1, <2>2, <2>3, <2>4, <2>5, <2>6, <2>7, <2>8, <2>9, <2>10, <2>11, <2>12, <2>13, <2>14, <2>15, <2>16, <2>17, <2>18 DEF Upload, GoOn, Deletion
<1>. QED
  BY <1>0, <1>1, <1>2 DEF IngestionNext

-------------------------------------------------------------------------------
(* Theorems *)

LEMMA InvHolds == IngestionSpec => []IngestionInv
<1>1. IngestionInit => IngestionInv
  BY IngestionAssumption DEF IngestionInit, IngestionInv, IngestionTypeOK, Places, Outcomes, Deletions,
     OutcomeByPlace, DeletesRegistered, CommitsAlone, FileByPlace
<1>2. IngestionInv /\ [IngestionNext]_ingestionVars => IngestionInv'
  BY TypeStep, OutcomeStep, AloneStep, FileStep DEF IngestionInv
<1>. QED
  BY <1>1, <1>2, PTL DEF IngestionSpec

\* The state of the uploads keeps its types: in particular only registered
\* videos have jobs that ended.
THEOREM IngestionTypeCorrect == IngestionSpec => []IngestionTypeOK
BY InvHolds, PTL DEF IngestionInv

\* A registered video keeps its whole file, whatever other uploads of its
\* content and deletions do.
THEOREM RegisteredAlwaysHasFile == IngestionSpec => []RegisteredHasFile
<1>1. IngestionInv => RegisteredHasFile
  BY DEF IngestionInv, FileByPlace, RegisteredHasFile, IngestionTypeOK
<1>. QED
  BY <1>1, InvHolds, PTL

\* An upload that was answered without registering a video leaves no file.
THEOREM NoFileEverLeft == IngestionSpec => []NoFileLeft
<1>1. IngestionInv => NoFileLeft
  BY DEF IngestionInv, FileByPlace, NoFileLeft
<1>. QED
  BY <1>1, InvHolds, PTL

-------------------------------------------------------------------------------

\* Every step of the uploads is one of the catalogue or leaves it as it is.
LEMMA CatalogueStep ==
    ASSUME IngestionInv, [IngestionNext]_ingestionVars
    PROVE  [Catalogue!CatalogueNext]_Catalogue!catalogueVars
<1> USE DEF IngestionInv, IngestionTypeOK, Places, Outcomes, Deletions, OutcomeByPlace, DeletesRegistered,
           Rest, uploadVars, GoTo, Turn, Store, Delete, Catalogue!catalogueVars, Catalogue!Turns, Catalogue!Held
<1>0. CASE UNCHANGED ingestionVars
  BY <1>0 DEF ingestionVars
<1>1. CASE RemoveCamera
  BY <1>1 DEF RemoveCamera, Catalogue!CatalogueNext, Catalogue!RemoveCamera
<1>2. ASSUME NEW q \in Requests, Upload(q) \/ EndJob(q) \/ Deletion(q) \/ CutOff(q) \/ CutOffDeletion(q)
      PROVE  \/ UNCHANGED Catalogue!catalogueVars
             \/ Catalogue!Accept(q) \/ Catalogue!Confirm(q) \/ Catalogue!Refuse(q) \/ Catalogue!GiveUp(q)
             \/ Catalogue!Discard(q)
  <2>1. CASE Start(q)
    BY <2>1 DEF Start
  <2>2. CASE Decline(q)
    BY <2>2 DEF Decline, Catalogue!GiveUp
  <2>3. CASE Save(q)
    BY <2>3 DEF Save, Catalogue!GiveUp
  <2>4. CASE Check(q)
    BY <2>4 DEF Check, Known, SameContent, Catalogue!Refuse
  <2>5. CASE Extract(q)
    BY <2>5 DEF Extract
  <2>6. CASE Insert(q)
    BY <2>6 DEF Insert, Refused, Known, SameContent, Catalogue!Refuse
  <2>7. CASE Commit(q)
    BY <2>7 DEF Commit, CommitsAlone, Catalogue!Accept
  <2>8. CASE Refresh(q)
    BY <2>8 DEF Refresh, Catalogue!Confirm
  <2>9. CASE Raise(q)
    BY <2>9 DEF Raise, Catalogue!GiveUp
  <2>10. CASE Undo(q)
    BY <2>10 DEF Undo
  <2>11. CASE CutOff(q)
    BY <2>11 DEF CutOff, Catalogue!GiveUp
  <2>12. CASE EndJob(q)
    BY <2>12 DEF EndJob
  <2>13. CASE RequestDelete(q)
    BY <2>13 DEF RequestDelete
  <2>14. CASE DeleteRow(q)
    BY <2>14 DEF DeleteRow
  <2>15. CASE CommitDeletion(q)
    BY <2>15 DEF CommitDeletion, Catalogue!Discard
  <2>16. CASE RollbackDeletion(q)
    BY <2>16 DEF RollbackDeletion
  <2>17. CASE Unlink(q)
    BY <2>17 DEF Unlink
  <2>18. CASE CutOffDeletion(q)
    BY <2>18 DEF CutOffDeletion
  <2>. QED
    BY <1>2, <2>1, <2>2, <2>3, <2>4, <2>5, <2>6, <2>7, <2>8, <2>9, <2>10, <2>11, <2>12, <2>13, <2>14, <2>15, <2>16, <2>17, <2>18
       DEF Upload, GoOn, Deletion
<1>. QED
  BY <1>0, <1>1, <1>2 DEF IngestionNext, Catalogue!CatalogueNext

\* The uploads implement the catalogue: a content is registered at most once
\* at a time, and an upload is refused as a duplicate only where it is one or
\* has lost its camera.
THEOREM UploadsImplementCatalogue == IngestionSpec => ImplementsCatalogue
<1>1. IngestionInit => Catalogue!CatalogueInit
  BY DEF IngestionInit, Catalogue!CatalogueInit
<1>2. IngestionInv /\ [IngestionNext]_ingestionVars => [Catalogue!CatalogueNext]_Catalogue!catalogueVars
  BY CatalogueStep
<1>. QED
  BY <1>1, <1>2, InvHolds, PTL DEF IngestionSpec, ImplementsCatalogue, Catalogue!CatalogueSpec

===============================================================================
