------------------------------- MODULE RedLight -------------------------------
(***************************************************************************)
(* The detector of vehicles that cross a stop line while its signal is     *)
(* red.  It keeps, for a vehicle track and a stop line, where the vehicle  *)
(* was when it was last seen and whether it has been charged already, and  *)
(* forgets both when the vehicle is not seen in more than MaximumUnseen    *)
(* frames in a row.                                                        *)
(***************************************************************************)
EXTENDS LaneRules

CONSTANTS Ids,                  \* of tracks
          StopLines,            \* ids of the configured stop lines
          CrossingSpeed,        \* RED_LIGHT_MIN_SPEED
          CrossingCosine,       \* hundredths
          CrossingTolerance,    \* pixels
          SignalConfidence,     \* percent
          MaximumUnseen,        \* RED_LIGHT_MAX_MISSED_FRAMES
          JunctionFrames        \* what a frame may show: [tracks, signals]

\* No two tracks of a frame have the same id.
ASSUME RedLightAssumption ==
    /\ MaximumUnseen \in Nat
    /\ CrossingCosine \in 0..100
    /\ \A f \in JunctionFrames : \A t, u \in f.tracks :
          /\ t.id \in Ids
          /\ t.box \in Int \X Int \X Int \X Int
          /\ t.velocity \in Int \X Int
          /\ t.id = u.id => t = u

VARIABLES tracks,       \* of the frame that was analysed last
          signals,      \* stable state and confidence of the regions in it
          followed,     \* <<track, stop line>> that have a state
          anchor,       \* previous_anchor_pixel
          emitted,      \* violation_emitted
          unseen,       \* missed_frames
          crossings,    \* the observations of the last call
          charges,      \* the violations of the last call
          lastAt,       \* history: where each track was eligible last
          absent,       \* history: for how many frames it has not been since
          charged       \* history: the keys charged since the track appeared

redLightState == <<followed, anchor, emitted, unseen>>
redLightVars  == <<tracks, signals, redLightState, crossings, charges, lastAt, absent, charged>>

Passages == Ids \X StopLines
Nowhere == <<0, 0>>

RedLightInit == /\ tracks = {}
                /\ signals = <<>>
                /\ followed = {}
                /\ anchor = [k \in Passages |-> Nowhere]
                /\ emitted = [k \in Passages |-> FALSE]
                /\ unseen = [k \in Passages |-> 0]
                /\ crossings = {}
                /\ charges = {}
                /\ lastAt = [v \in Ids |-> Nowhere]
                /\ absent = [v \in Ids |-> MaximumUnseen + 1]
                /\ charged = {}

-------------------------------------------------------------------------------
(* One vehicle and one stop line *)

LaneOf(l) == CHOOSE lane \in Lanes : lane.id = Scene.lines[l].lane

Line(l) == PixelLine(Scene.lines[l].segment)

Along(l) == Minus(Line(l)[2], Line(l)[1])

\* Positive if legal travel leaves the line to the left in image coordinates,
\* zero if it runs along the line.
Sense(l) == Cross(Along(l), Stretched(LaneOf(l).direction))

\* Stop lines that are linked to a lane and to a signal, and lie across it.
Watched == {l \in StopLines : /\ "red_light" \in Scene.enabled
                              /\ Scene.lines[l].lane \in {lane.id : lane \in Lanes}
                              /\ Scene.lines[l].region # None
                              /\ Sense(l) # 0}

\* The signed distance times the length of the line; legal travel increases it.
Beyond(p, l) == LET side == Cross(Along(l), Minus(p, Line(l)[1]))
                IN  IF Sense(l) > 0 THEN side ELSE -side

\* The step is at least twice the tolerance long, measured across the line.
DeepEnough(p, q, l) ==
    LET depth == Beyond(q, l) - Beyond(p, l)
    IN  depth * depth >= 400 * CrossingTolerance * CrossingTolerance * Square(Along(l))

\* Mutant: the direction is not looked at.
ForwardAnyway(t, l) == Fast(t, CrossingSpeed)

Forward(t, l) ==
    /\ Fast(t, CrossingSpeed)
    /\ CosineAtLeast(t.velocity, Stretched(LaneOf(l).direction), CrossingCosine)

\* A vehicle that was at p, inside the lane, has crossed the line.
Crosses(p, t, l) ==
    LET q == RoadAnchor(t.box)
    IN  /\ InPolygon(p, LaneOf(l).polygon)
        /\ Beyond(p, l) < 0 /\ Beyond(q, l) >= 0
        /\ DeepEnough(p, q, l)
        /\ SegmentsIntersect(p, q, Line(l)[1], Line(l)[2])
        /\ Forward(t, l)

Red(seen, l) == /\ Scene.lines[l].region \in DOMAIN seen
                /\ seen[Scene.lines[l].region].state = "red"
                /\ seen[Scene.lines[l].region].confidence >= SignalConfidence

-------------------------------------------------------------------------------
(* One frame *)

Track(frameTracks, v) == CHOOSE t \in frameTracks : t.id = v

Present(frameTracks) == {t.id : t \in {s \in frameTracks : Eligible(s)}}

\* The keys whose state is brought up to date: a state begins inside the lane.
Updated(frameTracks) ==
    {k \in Present(frameTracks) \X Watched :
        k \in followed \/ InPolygon(RoadAnchor(Track(frameTracks, k[1]).box), LaneOf(k[2]).polygon)}

\* Mutant: the state is kept one frame too long.
ForgottenLate(frameTracks) ==
    {k \in followed \ Updated(frameTracks) : unseen[k] > MaximumUnseen}

Forgotten(frameTracks) ==
    {k \in followed \ Updated(frameTracks) : unseen[k] + 1 > MaximumUnseen}

\* The step of a followed key between its last frame and this one.
CrossedNow(frameTracks) ==
    {k \in followed \cap Updated(frameTracks) : Crosses(anchor[k], Track(frameTracks, k[1]), k[2])}

\* What has become of the tracks, said without the states.
Remember(frameTracks, now) ==
    /\ lastAt' = [v \in Ids |-> IF v \in Present(frameTracks)
                                THEN RoadAnchor(Track(frameTracks, v).box) ELSE lastAt[v]]
    /\ absent' = [v \in Ids |-> IF v \in Present(frameTracks) THEN 0
                                ELSE IF absent[v] > MaximumUnseen THEN absent[v] ELSE absent[v] + 1]
    /\ charged' = {k \in charged \cup now : absent'[k[1]] <= MaximumUnseen}

WatchStopLines(frameTracks, seen) ==
    LET updated == Updated(frameTracks)
        lost    == Forgotten(frameTracks)
        crossed == CrossedNow(frameTracks)
        now     == {k \in crossed : Red(seen, k[2]) /\ ~emitted[k]}
    IN  /\ tracks' = frameTracks
        /\ signals' = seen
        /\ followed' = (followed \cup updated) \ lost
        /\ anchor' = [k \in Passages |-> IF k \in updated THEN RoadAnchor(Track(frameTracks, k[1]).box)
                                     ELSE IF k \in lost THEN Nowhere ELSE anchor[k]]
        /\ emitted' = [k \in Passages |-> (emitted[k] /\ k \notin lost) \/ k \in now]
        /\ unseen' = [k \in Passages |-> IF k \in updated \cup lost THEN 0
                                     ELSE IF k \in followed THEN unseen[k] + 1 ELSE 0]
        /\ crossings' = crossed
        /\ charges' = now
        /\ Remember(frameTracks, now)

ForgetVehicles ==
    /\ tracks' = {}
    /\ signals' = <<>>
    /\ followed' = {}
    /\ anchor' = [k \in Passages |-> Nowhere]
    /\ emitted' = [k \in Passages |-> FALSE]
    /\ unseen' = [k \in Passages |-> 0]
    /\ crossings' = {}
    /\ charges' = {}
    /\ lastAt' = [v \in Ids |-> Nowhere]
    /\ absent' = [v \in Ids |-> MaximumUnseen + 1]
    /\ charged' = {}

RedLightNext == (\E f \in JunctionFrames : WatchStopLines(f.tracks, f.signals)) \/ ForgetVehicles

RedLightSpec == RedLightInit /\ [][RedLightNext]_redLightVars

-------------------------------------------------------------------------------
(* What is to be charged, said of the positions of the vehicles alone *)

\* The vehicle of the key was last seen, at most MaximumUnseen frames ago,
\* before the line and in its lane, crosses it in this frame while the signal
\* is red, and has not been charged since it appeared.
Caught(k) == /\ k[1] \in Present(tracks')
             /\ k[2] \in Watched
             /\ absent[k[1]] <= MaximumUnseen
             /\ Crosses(lastAt[k[1]], Track(tracks', k[1]), k[2])
             /\ Red(signals', k[2])
             /\ k \notin charged

\* The detector charges in every frame exactly the vehicles that are caught: no
\* gap within the limit hides a crossing or charges one twice, no state of a
\* vehicle that was away longer is used, and none of another video.
CaughtExactly == [][charges' = {k \in Passages : Caught(k)}]_redLightVars

\* Two detectors judge the same movement by different formulas, one of which
\* stretches the direction as the image is: no vehicle that crosses a stop line
\* in the legal direction is seen against the direction of its lane.
RulesAgree == \A k \in crossings : <<k[1], LaneOf(k[2]).id>> \notin WrongWay(tracks)

\* A vehicle within the tolerance of a lane has not left the lanes: no pixel of
\* a lane is that near to one that has.
LaneKeepersSpared ==
    \A t \in tracks : t.id \in OffLane(tracks) =>
        \A x \in 0..MaximumX, y \in 0..MaximumY :
            Square(Minus(RoadAnchor(t.box), <<10 * x, 10 * y>>)) < 100 * LaneTolerance * LaneTolerance
                => \A lane \in Lanes : ~InPolygon(<<10 * x, 10 * y>>, lane.polygon)

===============================================================================
