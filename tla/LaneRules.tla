------------------------------ MODULE LaneRules ------------------------------
(***************************************************************************)
(* What a single frame says about a vehicle on the road of a scene: the    *)
(* lane it is in, whether it drives against the direction of that lane,    *)
(* and whether it has left the lanes.                                      *)
(*                                                                         *)
(* A track is a record of its id, its class, whether it is confirmed, its  *)
(* box and its velocity; the tracker only passes on tracks that were       *)
(* detected in the frame.                                                  *)
(***************************************************************************)
EXTENDS RoadGeometry

CONSTANTS Scene,                \* [enabled, zone, lanes, lines] of the camera
          None,                 \* no monitoring zone, no linked lane, ...
          WrongWaySpeed,        \* WRONG_WAY_MIN_SPEED, pixels per second
          OppositeCosine,       \* hundredths below zero
          LaneSpeed,            \* LANE_VIOLATION_MIN_SPEED
          LaneTolerance         \* pixels

Lanes == {Scene.lanes[i] : i \in DOMAIN Scene.lanes}

\* A lane is known by its id; the threshold of the detector is below zero.
ASSUME RulesAssumption ==
    /\ OppositeCosine \in 1..100
    /\ LaneTolerance \in Nat
    /\ \A lane \in Lanes : lane.direction \in Int \X Int /\ lane.polygon \in Seq(Int \X Int)
    /\ \A lane, other \in Lanes : lane.id = other.id => lane = other

\* The constructor of the wrong-way detector allows a minimum speed of 0, with
\* which a vehicle at rest makes _score_direction divide by zero.  That setting
\* is outside the model.
ASSUME SpeedAssumption == WrongWaySpeed \in Nat \ {0}

VehicleClasses == {"bicycle", "car", "motorcycle", "bus", "truck"}

Eligible(t) == t.confirmed /\ t.class \in VehicleClasses

Fast(t, speed) == Square(t.velocity) >= speed * speed

Contains(lane, t) == InPolygon(RoadAnchor(t.box), lane.polygon)

\* The first configured lane that contains the vehicle; lanes may overlap.
InLane(t, lane) ==
    \E i \in DOMAIN Scene.lanes :
        /\ Scene.lanes[i] = lane
        /\ Contains(lane, t)
        /\ \A j \in 1..(i - 1) : ~Contains(Scene.lanes[j], t)

\* The velocity, in pixels, against the direction, in normalized coordinates.
Opposes(t, lane) == /\ Fast(t, WrongWaySpeed)
                    /\ CosineAtMost(t.velocity, lane.direction, OppositeCosine)

\* The keys of the wrong-way detector that the tracks of a frame support.
WrongWay(tracks) ==
    IF "wrong_way" \notin Scene.enabled THEN {}
    ELSE {<<p[1].id, p[2].id>> :
             p \in {q \in tracks \X Lanes : Eligible(q[1]) /\ InLane(q[1], q[2]) /\ Opposes(q[1], q[2])}}

\* Mutant: there is no tolerance.
NearLaneNever(t) == FALSE

\* The border of some lane is within the tolerance.
NearLane(t) ==
    \E lane \in Lanes :
        NearEdge(OnImage(RoadAnchor(t.box)), PixelPolygon(lane.polygon), 10 * LaneTolerance)

\* A candidate of the lane detector: in the zone, out of all lanes and moving.
LeftLanes(t) ==
    /\ Scene.zone = None \/ InPolygon(RoadAnchor(t.box), Scene.zone)
    /\ \A lane \in Lanes : ~Contains(lane, t)
    /\ ~NearLane(t)
    /\ Fast(t, LaneSpeed)

OffLane(tracks) ==
    IF "lane_violation" \notin Scene.enabled \/ Lanes = {} THEN {}
    ELSE {t.id : t \in {s \in tracks : Eligible(s) /\ LeftLanes(s)}}

===============================================================================
