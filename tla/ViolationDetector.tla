-------------------------- MODULE ViolationDetector --------------------------
(***************************************************************************)
(* The four detectors that turn observations of single frames into         *)
(* violations: triple riding, no helmet, wrong way and lane violation.     *)
(*                                                                         *)
(* Each keeps one state per key: a motorcycle, a person, a vehicle and a   *)
(* lane, or a vehicle.  A key that is observed in ConfirmationFrames       *)
(* frames in a row is in violation, and stays so until it is missed in     *)
(* more than MaximumMissedFrames frames in a row or the video ends.  They  *)
(* differ in one thing: the lane detector dates an unconfirmed candidate   *)
(* that comes back after a gap anew.                                       *)
(*                                                                         *)
(* What makes an observation (riders, labels, directions, lanes) is the    *)
(* matter of RiderRelations and LaneRules: here any set of keys may be     *)
(* observed in a frame.                                                    *)
(***************************************************************************)
EXTENDS Naturals

CONSTANTS Keys,                  \* what may be in violation
          LaneKeys,              \* the keys of the lane detector
          ConfirmationFrames,
          MaximumMissedFrames,
          MaxFrames              \* bound: analysed frames of a video

ASSUME DetectorAssumption ==
    /\ LaneKeys \subseteq Keys
    /\ ConfirmationFrames \in Nat \ {0}
    /\ MaximumMissedFrames \in Nat
    /\ MaxFrames \in Nat

VARIABLES frame,        \* number of the last analysed frame
          flushed,      \* the video has ended
          tracked,      \* keys that have a state
          consecutive,  \* consecutive_violation_frames
          missed,       \* missed_frames
          first,        \* first_candidate_frame
          confirmed,    \* confirmed_frame; 0 while the candidate is not confirmed
          transitions,  \* what the last call returned
          observed,     \* history: the frames in which each key was observed
          started,      \* history: <<key, confirmed_frame>> of the transitions STARTED
          ended         \* history: the same of the transitions ENDED

statesOf     == <<tracked, consecutive, missed, first, confirmed>>
detectorVars == <<frame, flushed, statesOf, transitions, observed, started, ended>>

Frames == 0..MaxFrames

DetectorTypeOK == /\ frame \in Frames
                  /\ flushed \in BOOLEAN
                  /\ tracked \subseteq Keys
                  /\ consecutive \in [Keys -> Frames]
                  /\ missed \in [Keys -> 0..MaximumMissedFrames]
                  /\ first \in [Keys -> Frames]
                  /\ confirmed \in [Keys -> Frames]
                  /\ transitions \subseteq {"started", "ended"} \X Keys \X Frames
                  /\ observed \in [Keys -> SUBSET Frames]
                  /\ started \subseteq Keys \X Frames
                  /\ ended \subseteq Keys \X Frames

\* No state; the columns of a key without a state are 0.
Clear == /\ tracked' = {}
         /\ consecutive' = [k \in Keys |-> 0]
         /\ missed' = [k \in Keys |-> 0]
         /\ first' = [k \in Keys |-> 0]
         /\ confirmed' = [k \in Keys |-> 0]

DetectorInit == /\ frame = 0
                /\ flushed = FALSE
                /\ tracked = {}
                /\ consecutive = [k \in Keys |-> 0]
                /\ missed = [k \in Keys |-> 0]
                /\ first = [k \in Keys |-> 0]
                /\ confirmed = [k \in Keys |-> 0]
                /\ transitions = {}
                /\ observed = [k \in Keys |-> {}]
                /\ started = {}
                /\ ended = {}

-------------------------------------------------------------------------------
(* One frame *)

Confirmed(k) == confirmed[k] # 0

\* The state of the key is dropped: it was missed once too often.
Lost(k, seen) == k \in tracked \ seen /\ missed[k] + 1 > MaximumMissedFrames

Kept(seen) == (tracked \cup seen) \ {k \in Keys : Lost(k, seen)}

\* Mutant: a gap does not interrupt the count.
CountThroughGaps(k, seen) == IF k \in seen THEN consecutive[k] + 1
                             ELSE IF k \in Kept(seen) THEN consecutive[k] ELSE 0

\* A key without a state begins at 1, one that was missed again at 1.
Count(k, seen) == IF k \in seen THEN consecutive[k] + 1 ELSE 0

Starts(k, seen) == k \in seen /\ ~Confirmed(k) /\ Count(k, seen) >= ConfirmationFrames

\* Mutant: a violation ends with its first missed frame, the state later.
EndsAtOnce(k, seen) == k \in tracked \ seen /\ Confirmed(k)

Ends(k, seen) == Lost(k, seen) /\ Confirmed(k)

\* Mutant: the lane detector dates its candidates as the others do.
DatedOnce(k, seen) == k \in seen \ tracked

\* The frame is the first of the candidate.
Dated(k, seen) == /\ k \in seen
                  /\ \/ k \notin tracked
                     \/ k \in LaneKeys /\ missed[k] > 0 /\ ~Confirmed(k)

Emit(starts, ends) ==
    /\ transitions' = {<<"started", k, confirmed'[k]>> : k \in starts}
                          \cup {<<"ended", k, confirmed[k]>> : k \in ends}
    /\ started' = started \cup {<<k, confirmed'[k]>> : k \in starts}
    /\ ended' = ended \cup {<<k, confirmed[k]>> : k \in ends}

Update(seen) ==
    /\ ~flushed /\ frame < MaxFrames
    /\ frame' = frame + 1
    /\ tracked' = Kept(seen)
    /\ consecutive' = [k \in Keys |-> Count(k, seen)]
    /\ missed' = [k \in Keys |-> IF k \in Kept(seen) \ seen THEN missed[k] + 1 ELSE 0]
    /\ first' = [k \in Keys |-> IF Dated(k, seen) THEN frame + 1
                                ELSE IF Lost(k, seen) THEN 0 ELSE first[k]]
    /\ confirmed' = [k \in Keys |-> IF Starts(k, seen) THEN frame + 1
                                    ELSE IF Lost(k, seen) THEN 0 ELSE confirmed[k]]
    /\ Emit({k \in Keys : Starts(k, seen)}, {k \in Keys : Ends(k, seen)})
    /\ observed' = [k \in Keys |-> observed[k] \cup (IF k \in seen THEN {frame + 1} ELSE {})]
    /\ UNCHANGED flushed

-------------------------------------------------------------------------------
(* The end of the video and the start of the next *)

\* Mutant: flush forgets a violation that was missed in the last frame.
FlushObserved == /\ ~flushed
                 /\ flushed' = TRUE
                 /\ Clear
                 /\ Emit({}, {k \in tracked : Confirmed(k) /\ missed[k] = 0})
                 /\ UNCHANGED <<frame, observed>>

\* flush: confirmed violations end, candidates are forgotten.
Flush == /\ ~flushed
         /\ flushed' = TRUE
         /\ Clear
         /\ Emit({}, {k \in tracked : Confirmed(k)})
         /\ UNCHANGED <<frame, observed>>

\* reset, by the start of a pipeline; the attempt before may have failed
\* without a flush.
Reset == /\ frame' = 0
         /\ flushed' = FALSE
         /\ Clear
         /\ transitions' = {}
         /\ observed' = [k \in Keys |-> {}]
         /\ started' = {}
         /\ ended' = {}

DetectorNext == (\E seen \in SUBSET Keys : Update(seen)) \/ Flush \/ Reset

DetectorSpec == DetectorInit /\ [][DetectorNext]_detectorVars

-------------------------------------------------------------------------------
(* What a violation is, said of the observations alone *)

\* k was observed in all frames of a run that ends with frame f and confirms it.
ConfirmedAt(k, f) == /\ f >= ConfirmationFrames
                     /\ \A n \in Frames : f < n + ConfirmationFrames /\ n <= f => n \in observed[k]

\* k was missed in frame f and as many before it as end a violation.
LostAt(k, f) == \A n \in Frames : f <= n + MaximumMissedFrames /\ n <= f => n \notin observed[k]

InViolation(k) == \E f \in 1..frame : /\ ConfirmedAt(k, f)
                                      /\ \A n \in f..frame : ~LostAt(k, n)

\* A key has a confirmed state exactly while it is in violation: no gap within
\* the limit ends one, no sequence of shorter runs confirms one, and nothing
\* is left of another video.
ConfirmedInViolation == ~flushed => \A k \in Keys : Confirmed(k) <=> InViolation(k)

\* The violations that were started and not ended are the confirmed states: in
\* particular there are none once the video has ended.
OpenAreConfirmed == started \ ended = {<<k, confirmed[k]>> : k \in {j \in Keys : Confirmed(j)}}

\* A transition ENDED ends a violation that is open, and STARTED begins one
\* while the key has none and under a confirmed_frame it has not used, so that
\* no two events share a key.
Paired(t) == LET v == <<t[2], t[3]>>
             IN  IF t[1] = "ended" THEN v \in started \ ended
                 ELSE v \notin started /\ \A w \in started \ ended : w[1] # t[2]

TransitionsPaired == [][\A t \in transitions' : Paired(t)]_detectorVars

\* The evidence of a candidate has no gap that would have ended it; that of a
\* candidate of the lane detector has no gap at all up to its confirmation.
CandidateUnbroken ==
    \A k \in tracked :
        /\ first[k] \in observed[k]
        /\ \A f \in first[k]..frame : ~LostAt(k, f)
        /\ k \in LaneKeys =>
              LET last == IF Confirmed(k) THEN confirmed[k] ELSE frame - missed[k]
              IN  first[k]..last \subseteq observed[k]

===============================================================================
