---------------------------- MODULE ObjectTracker ----------------------------
(***************************************************************************)
(* The tracker: it gives the detections of the frames of a video the ids   *)
(* of objects.  Detections of high confidence are matched with the tracks  *)
(* first, those of low confidence with the tracks that are left, by how    *)
(* much the boxes overlap; a detection of high confidence that is left     *)
(* begins a track, a track that is missed too often ends.                  *)
(*                                                                         *)
(* Where a track is expected in a frame is estimated by a Kalman filter,   *)
(* which is not modelled: every estimate may be any of Boxes.              *)
(***************************************************************************)
EXTENDS RoadGeometry, Assignment

CONSTANTS Boxes,                \* the estimates
          HighConfidence,       \* percent
          LowConfidence,        \* percent
          PrimaryIoU,           \* percent
          SecondaryIoU,         \* percent
          MinimumHits,          \* TRACKER_MIN_CONFIRMED_HITS
          MaxMisses,            \* TRACKER_MAX_MISSED_FRAMES
          Shots,                \* what a frame may show: sets of detections
          MaxTracks,            \* bound: ids of a video
          MaxTrackerFrames      \* bound: analysed frames of a video

ASSUME TrackerAssumption ==
    /\ LowConfidence \in Int /\ HighConfidence \in Int /\ LowConfidence <= HighConfidence
    /\ MinimumHits \in Nat \ {0}
    /\ MaxMisses \in Nat
    /\ MaxTracks \in Nat
    /\ MaxTrackerFrames \in Nat
    /\ \A s \in Shots : /\ IsFiniteSet(s)
                        /\ \A d \in s : d.index \in Int /\ d.confidence \in Int
                        /\ \A d, e \in s : d.index = e.index => d = e

VARIABLES trackerFrame, \* number of analysed frames
          nextTrack,    \* next_track_id
          live,         \* ids of the tracks
          classOf,
          hits,
          misses,       \* missed_frames
          sure,         \* the confirmed tracks
          shot,         \* the detections of the last frame
          shows,        \* <<track, detection>> of the last frame
          created,      \* the tracks that it created
          seenIn        \* history: the frames in which each live track was detected

trackerState == <<nextTrack, live, classOf, hits, misses, sure>>
trackerVars  == <<trackerFrame, trackerState, shot, shows, created, seenIn>>

TrackIds == 1..MaxTracks
TrackerFrames == 0..MaxTrackerFrames
NoClass == "none"

TrackerInit == /\ trackerFrame = 0
               /\ nextTrack = 1
               /\ live = {}
               /\ classOf = [t \in TrackIds |-> NoClass]
               /\ hits = [t \in TrackIds |-> 0]
               /\ misses = [t \in TrackIds |-> 0]
               /\ sure = {}
               /\ shot = {}
               /\ shows = {}
               /\ created = {}
               /\ seenIn = [t \in TrackIds |-> {}]

-------------------------------------------------------------------------------
(* One frame *)

Certain(detections) == {d \in detections : d.confidence >= HighConfidence}

Faint(detections) ==
    {d \in detections : d.confidence >= LowConfidence /\ d.confidence < HighConfidence}

\* A box of a track and of a detection match.
Fits(t, d, estimate, minimum) == classOf[t] = d.class /\ IoU(estimate[t], d.box) >= minimum

MatchesOf(ids, detections, estimate, minimum) ==
    LET pairs == {p \in ids \X detections : Fits(p[1], p[2], estimate, minimum)}
        CostOf(p) == 100 - IoU(estimate[p[1]], p[2].box)
    IN  Assignments(pairs, CostOf)

LeftOver(primary) == live \ {p[1] : p \in primary}

\* Mutant: faint detections begin tracks, too.
BeginsFromAny(detections, primary) == (Certain(detections) \cup Faint(detections)) \ {p[2] : p \in primary}

\* The detections that begin a track.
Begins(detections, primary) == Certain(detections) \ {p[2] : p \in primary}

\* They are numbered in their order in the frame.
Numbered(detections) ==
    {<<nextTrack + Cardinality({e \in detections : e.index < d.index}), d>> : d \in detections}

\* Mutant: the limit itself is too many.
EndedLate(matched) == {t \in live \ matched : misses[t] > MaxMisses}

Ended(matched) == {t \in live \ matched : misses[t] + 1 > MaxMisses}

\* MultiObjectTracker.update with the matches of the two rounds.
Take(detections, primary, secondary) ==
    LET new     == Numbered(Begins(detections, primary))
        newIds  == {p[1] : p \in new}
        matched == {p[1] : p \in primary \cup secondary}
        ended   == Ended(matched)
        hit(t)  == IF t \in newIds THEN 1 ELSE IF t \in matched THEN hits[t] + 1 ELSE hits[t]
        stay    == (live \cup newIds) \ ended
        f       == trackerFrame + 1
    IN  /\ f <= MaxTrackerFrames
        /\ newIds \subseteq TrackIds
        /\ trackerFrame' = f
        /\ nextTrack' = nextTrack + Cardinality(new)
        /\ live' = stay
        /\ classOf' = [t \in TrackIds |->
              IF t \in newIds THEN (CHOOSE p \in new : p[1] = t)[2].class
              ELSE IF t \in stay THEN classOf[t] ELSE NoClass]
        /\ hits' = [t \in TrackIds |-> IF t \in stay THEN hit(t) ELSE 0]
        /\ misses' = [t \in TrackIds |-> IF t \in (stay \ matched) \ newIds THEN misses[t] + 1 ELSE 0]
        /\ sure' = (sure \cup {t \in matched \cup newIds : hit(t) >= MinimumHits}) \cap stay
        /\ shot' = detections
        /\ shows' = primary \cup secondary \cup new
        /\ created' = newIds
        /\ seenIn' = [t \in TrackIds |-> IF t \in matched \cup newIds THEN seenIn[t] \cup {f}
                                         ELSE IF t \in stay THEN seenIn[t] ELSE {}]

Estimates == [live -> Boxes]

TrackFrame(detections) ==
    \E estimate \in Estimates :
        \E primary \in MatchesOf(live, Certain(detections), estimate, PrimaryIoU) :
            \E secondary \in MatchesOf(LeftOver(primary), Faint(detections), estimate, SecondaryIoU) :
                Take(detections, primary, secondary)

ForgetTracks == /\ trackerFrame' = 0
                /\ nextTrack' = 1
                /\ live' = {}
                /\ classOf' = [t \in TrackIds |-> NoClass]
                /\ hits' = [t \in TrackIds |-> 0]
                /\ misses' = [t \in TrackIds |-> 0]
                /\ sure' = {}
                /\ shot' = {}
                /\ shows' = {}
                /\ created' = {}
                /\ seenIn' = [t \in TrackIds |-> {}]

TrackerNext == (\E detections \in Shots : TrackFrame(detections)) \/ ForgetTracks

TrackerSpec == TrackerInit /\ [][TrackerNext]_trackerVars

-------------------------------------------------------------------------------

\* An object has one identity at a time: every confident detection is shown by
\* exactly one track, every other by at most one and never by one that it
\* began, no track shows two, and all are of the class of what they show.
OneIdentity ==
    /\ \A d \in Certain(shot) : \E p \in shows : p[2] = d
    /\ \A p, q \in shows : p[1] = q[1] \/ p[2] = q[2] => p = q
    /\ \A p \in shows : /\ p[2].confidence >= LowConfidence
                        /\ p[1] \in live /\ classOf[p[1]] = p[2].class
                        /\ p[1] \in created => p[2] \in Certain(shot)

\* Tracks live and are confirmed by the frames that showed them: one lives until
\* it was missed in more than MaxMisses frames in a row, and is confirmed for
\* good by its MinimumHits-th detection, however they are spread.
TrackedAsDetected ==
    \A t \in live : /\ t < nextTrack
                    /\ \E f \in seenIn[t] : trackerFrame - f <= MaxMisses
                    /\ (t \in {p[1] : p \in shows}) <=> trackerFrame \in seenIn[t]
                    /\ t \in sure <=> Cardinality(seenIn[t]) >= MinimumHits
                    /\ \A f, g \in seenIn[t] :
                          f < g /\ (\A n \in (f + 1)..(g - 1) : n \notin seenIn[t])
                              => g - f <= MaxMisses + 1

===============================================================================
