--------------------------- MODULE TrafficPipeline ---------------------------
(***************************************************************************)
(* The analysis of videos by one worker: the tracker, the riders and their *)
(* helmets, the traffic lights, the stop lines, the detectors of           *)
(* violations and the output, all of which keep state from frame to frame. *)
(* Every video gets a pipeline of its own.                                 *)
(*                                                                         *)
(* The parts share nothing but what one gives to the next in a frame.  A   *)
(* video exercises one part (a bound): the parts before it may give it     *)
(* anything of its inputs, and the frames of the others are left out.  The *)
(* riders are exercised together with the two detectors that observe them, *)
(* the two detectors that observe vehicles on their own.                   *)
(***************************************************************************)
EXTENDS RedLight, TrafficLight, RiderRelations, ObjectTracker, EvidenceImages, ViolationDetector

VARIABLE part           \* the part that the video exercises

pipelineVars == <<part, trackerVars, riderVars, lightVars, redLightVars, detectorVars, evidenceVars>>

Parts == {"tracker", "riders", "lights", "junction", "violations", "output"}

PipelineInit == /\ part \in Parts
                /\ TrackerInit
                /\ RidersInit
                /\ LightInit
                /\ RedLightInit
                /\ DetectorInit
                /\ EvidenceInit

-------------------------------------------------------------------------------
(* start *)

\* The next video, whatever became of the one before, which may have been
\* finished or have failed in any frame: the worker has fresh parts created for
\* it, whose states start resets once more, and opens a new writer.
Start(p) == /\ part' = p
            /\ ForgetTracks
            /\ ForgetRiders
            /\ ForgetLights
            /\ ForgetVehicles
            /\ Reset
            /\ NewWriter

-------------------------------------------------------------------------------
(* process_frame, by the part that is exercised *)

InVideo(p) == part = p /\ ~flushed /\ UNCHANGED part

TrackerFrame == /\ InVideo("tracker")
                /\ \E detections \in Shots : TrackFrame(detections)
                /\ UNCHANGED <<riderVars, lightVars, redLightVars, detectorVars, evidenceVars>>

\* The detectors observe the riders that the smoother has confirmed.
RidersFrame == /\ InVideo("riders")
               /\ \E s \in RiderScenes : \E seen \in RiderChoices[s] : WatchRiders(s, seen)
               /\ Update((TripleRiding' \cup Bareheaded') \cap Keys)
               /\ UNCHANGED <<trackerVars, lightVars, redLightVars, evidenceVars>>

LightsFrame == /\ InVideo("lights")
               /\ \E seen \in [Regions -> Readings] : Stabilize(seen)
               /\ UNCHANGED <<trackerVars, riderVars, redLightVars, detectorVars, evidenceVars>>

JunctionFrame == /\ InVideo("junction")
                 /\ \E f \in JunctionFrames : WatchStopLines(f.tracks, f.signals)
                 /\ UNCHANGED <<trackerVars, riderVars, lightVars, detectorVars, evidenceVars>>

\* The keys of vehicles: those of wrong_way and of lane_violation.
VehicleKeys == Keys \ (Persons \cup Motorcycles)

ViolationsFrame == /\ InVideo("violations")
                   /\ \E seen \in SUBSET VehicleKeys : Update(seen)
                   /\ UNCHANGED <<trackerVars, riderVars, lightVars, redLightVars, evidenceVars>>

OutputFrame == /\ InVideo("output")
               /\ \E starts, confident \in BOOLEAN : WriteFrame(starts, confident)
               /\ UNCHANGED <<trackerVars, riderVars, lightVars, redLightVars, detectorVars>>

-------------------------------------------------------------------------------
(* finish *)

Finish == /\ Flush
          /\ UNCHANGED <<part, trackerVars, riderVars, lightVars, redLightVars, evidenceVars>>

PipelineNext == \/ \E p \in Parts : Start(p)
                \/ TrackerFrame
                \/ RidersFrame
                \/ LightsFrame
                \/ JunctionFrame
                \/ ViolationsFrame
                \/ OutputFrame
                \/ Finish

PipelineSpec == PipelineInit /\ [][PipelineNext]_pipelineVars

===============================================================================
