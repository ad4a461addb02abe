--------------------------- MODULE TrafficArtifacts ---------------------------
(***************************************************************************)
(* The files of a job: TrafficVideoArtifactWriter of                       *)
(* backend/app/artifacts/traffic_video.py.  A writer fills the directory   *)
(* .{job}.part and, when the video is done, renames it to {job}.           *)
(*                                                                         *)
(* Both names are those of the job, not of the attempt: two attempts of a  *)
(* job that overlap share them.  What a directory holds is abstracted to   *)
(* who put it there:                                                       *)
(*   maker     the attempt that created it; its detections file, open from *)
(*             the constructor on, lives here wherever the directory goes  *)
(*   files     the attempts that wrote previews or evidence here, by name  *)
(*   summary   the attempt that wrote summary.json, if any                 *)
(*   closed    the maker has closed its detections file                    *)
(* An attempt is known by its number, 1 for the first.                     *)
(***************************************************************************)
EXTENDS Integers

CONSTANT NoDir

VARIABLES part,      \* part[j]: the directory .{job}.part
          final      \* final[j]: the directory {job}

artifactVars == <<part, final>>

NoRun == 0

Directories(runs) == [maker : runs, files : SUBSET runs, summary : runs \cup {NoRun}, closed : BOOLEAN]

ArtifactsTypeOK(jobs, runs) == /\ part \in [jobs -> Directories(runs) \cup {NoDir}]
                               /\ final \in [jobs -> Directories(runs) \cup {NoDir}]

ArtifactsInit(jobs) == /\ part = [j \in jobs |-> NoDir]
                       /\ final = [j \in jobs |-> NoDir]

\* Mutant: the directory of an earlier attempt is reused.
CreateOverOld(j, r) == /\ part' = [part EXCEPT ![j] = IF @ # NoDir THEN @
                                       ELSE [maker |-> r, files |-> {}, summary |-> NoRun, closed |-> FALSE]]
                       /\ UNCHANGED final

\* The constructor: whatever an earlier attempt left is removed first.
Create(j, r) == /\ part' = [part EXCEPT ![j] = [maker |-> r, files |-> {}, summary |-> NoRun,
                                                closed |-> FALSE]]
                /\ UNCHANGED final

\* The constructor raises: before it touched the directory, after it removed an
\* old one, or with its own made.
CreateFails(j, r) == \/ UNCHANGED artifactVars
                     \/ part' = [part EXCEPT ![j] = NoDir] /\ UNCHANGED final
                     \/ Create(j, r)

\* write: the preview is opened and evidence images are stored by path, in
\* whatever directory bears the name now.  Without it the write raises.
CanWrite(j) == part[j] # NoDir

WriteFiles(j, r) == /\ CanWrite(j)
                    /\ part' = [part EXCEPT ![j].files = @ \cup {r}]
                    /\ UNCHANGED final

\* The open handles of r reach the directory r made, under either name.
CloseIn(dir, r) == IF dir # NoDir /\ dir.maker = r THEN [dir EXCEPT !.closed = TRUE] ELSE dir

\* Mutant: the detections file is left open.
TranscodeOnly(j, r) ==
    /\ part' = [part EXCEPT ![j] = IF @ # NoDir /\ @.files # {} THEN [@ EXCEPT !.files = @ \cup {r}] ELSE @]
    /\ UNCHANGED final

\* The preview is transcoded by path; no raw preview, no transcoding.
Transcoded(dir, r) == IF dir # NoDir /\ dir.files # {}
                      THEN [CloseIn(dir, r) EXCEPT !.files = @ \cup {r}]
                      ELSE CloseIn(dir, r)

\* finish, first part: the files are closed and transcoded, which takes up to
\* five minutes.
CloseAndTranscode(j, r) ==
    /\ part' = [part EXCEPT ![j] = Transcoded(@, r)]
    /\ final' = [final EXCEPT ![j] = CloseIn(@, r)]

\* finish, second part: summary.json, by path.
WriteSummary(j, r) == /\ CanWrite(j)
                      /\ part' = [part EXCEPT ![j].summary = r]
                      /\ UNCHANGED final

\* finish, third part: what was published before is removed ...
RemovePublished(j) == /\ final' = [final EXCEPT ![j] = NoDir]
                      /\ UNCHANGED part

\* ... and the directory is renamed; os.replace raises when there is nothing
\* to rename or the target exists and is not empty.
CanPublish(j) == part[j] # NoDir /\ final[j] = NoDir

Publish(j) == /\ CanPublish(j)
              /\ final' = [final EXCEPT ![j] = part[j]]
              /\ part' = [part EXCEPT ![j] = NoDir]

\* abort of a writer that did not publish; the handles are closed first.
Abort(j, r) == /\ part' = [part EXCEPT ![j] = NoDir]
               /\ final' = [final EXCEPT ![j] = CloseIn(@, r)]

\* abort closes the handles and raises while it removes the directory.
AbortFails(j, r) == /\ part' = [part EXCEPT ![j] = CloseIn(@, r)]
                    /\ final' = [final EXCEPT ![j] = CloseIn(@, r)]

\* Mutant: what a killed attempt left is not looked for.
RemoveNothing(j) == UNCHANGED artifactVars

\* delete_video removes {job}, which RemovePublished is, and then .{job}.part.
RemovePartial(j) == /\ part' = [part EXCEPT ![j] = NoDir]
                    /\ UNCHANGED final

\* The directory is the complete work of attempt r and of nobody else.
Intact(dir, r) == /\ dir # NoDir
                  /\ dir.maker = r
                  /\ dir.files \subseteq {r}
                  /\ dir.summary = r
                  /\ dir.closed

===============================================================================
