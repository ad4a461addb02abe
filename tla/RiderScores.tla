----------------------------- MODULE RiderScores -----------------------------
(***************************************************************************)
(* Who rides which motorcycle in a single frame, and which helmet label    *)
(* belongs to which rider.  Scores are in percent, rounded down, and their *)
(* weighted sums in hundredths of a percent.                               *)
(***************************************************************************)
EXTENDS RoadGeometry, Assignment

CONSTANTS MinimumRiderScore,    \* percent
          MaxRiders,            \* of a motorcycle
          MaxAnchorRatio,       \* percent of the diagonal of the motorcycle
          MinimumOverlap,       \* percent
          MotionSpeed,          \* RIDER_ASSOCIATION_MINIMUM_MOTION_SPEED
          HeadHeight,           \* twentieths of the height of a person
          HeadExpansion,        \* twentieths of the width, on either side
          MinimumHelmetScore    \* percent

Percent(n) == Clamp(n, 0, 100)

-------------------------------------------------------------------------------
(* A person and a motorcycle.  Anchors are in twentieths of a pixel: the feet *)
(* of the person, and the seat of the motorcycle.                             *)

Feet(box) == <<10 * (box[1] + box[3]), 20 * box[4]>>
Seat(box) == <<10 * (box[1] + box[3]), 20 * box[2] + 7 * Height(box)>>

Overlap(p, m) ==
    Percent((100 * High(Low(p.box[3], m.box[3]) - High(p.box[1], m.box[1]), 0))
                \div High(Low(Width(p.box), Width(m.box)), 1))

\* Beyond the limit the exact value does not matter.
AnchorRatio(p, m) ==
    Ratio(Minus(Feet(p.box), Seat(m.box)), <<20 * Width(m.box), 20 * Height(m.box)>>,
          MaxAnchorRatio + 1)

AnchorScore(p, m) == Percent(100 - (100 * AnchorRatio(p, m)) \div MaxAnchorRatio)

VerticalScore(p, m) ==
    LET off     == Feet(p.box)[2] - Seat(m.box)[2]
        contact == 100 - (100 * High(off, -off)) \div (20 * Height(m.box))
        above   == IF p.box[2] + p.box[4] <= m.box[2] + m.box[4] THEN 100 ELSE 25
    IN  Percent((75 * contact + 25 * above) \div 100)

Moves(t) == Square(t.velocity) >= MotionSpeed * MotionSpeed

\* The cosine of the angle between two velocities, in percent.
Cosine(u, v) == LET c == Root(Dot(u, v) * Dot(u, v), Square(u) * Square(v), 100)
                IN  IF Dot(u, v) < 0 THEN -c ELSE c

MotionScore(p, m) ==
    IF ~Moves(p) /\ ~Moves(m) THEN 50
    ELSE IF ~Moves(p) \/ ~Moves(m) THEN 20
    ELSE LET ratio == IF Square(p.velocity) <= Square(m.velocity)
                      THEN Ratio(p.velocity, m.velocity, 100)
                      ELSE Ratio(m.velocity, p.velocity, 100)
         IN  Percent((70 * ((Cosine(p.velocity, m.velocity) + 100) \div 2) + 30 * ratio) \div 100)

ContainmentScore(p, m) ==
    LET feet == Feet(p.box)
        across == /\ 20 * m.box[1] - 7 * Width(m.box) <= feet[1]
                  /\ feet[1] <= 20 * m.box[3] + 7 * Width(m.box)
        along == /\ 20 * m.box[2] - 15 * Height(m.box) <= feet[2]
                 /\ feet[2] <= 20 * m.box[4] + 5 * Height(m.box)
    IN  IF across /\ along THEN 100 ELSE IF across THEN 50 ELSE 0

Near(p, m) ==
    /\ \/ Overlap(p, m) >= MinimumOverlap
       \/ LET d == Feet(p.box)[1] - Seat(m.box)[1] IN High(d, -d) <= 30 * Width(m.box)
    /\ AnchorRatio(p, m) <= MaxAnchorRatio
    /\ p.box[2] + p.box[4] <= 2 * m.box[4] + Height(m.box)

RiderScore(p, m) == 25 * Overlap(p, m) + 30 * AnchorScore(p, m) + 20 * VerticalScore(p, m)
                        + 15 * MotionScore(p, m) + 10 * ContainmentScore(p, m)

MayRide(p, m) == Near(p, m) /\ RiderScore(p, m) >= 100 * MinimumRiderScore

OfClass(tracks, class) == {t \in tracks : t.confirmed /\ t.class = class}

\* A motorcycle offers MaxRiders places, the later ones at a small penalty.
Places(tracks) == OfClass(tracks, "motorcycle") \X (0..(MaxRiders - 1))

PlaceCost(a) == 10000 - RiderScore(a[1], a[2][1]) + 100 * a[2][2]

\* The sets of <<person, motorcycle>> that the frame may yield.
Associations(tracks) ==
    LET pairs == {a \in OfClass(tracks, "person") \X Places(tracks) : MayRide(a[1], a[2][1])}
    IN  {{<<a[1].id, a[2][1].id>> : a \in A} : A \in Assignments(pairs, PlaceCost)}

-------------------------------------------------------------------------------
(* A head and a label, in twentieths of a pixel *)

Scaled(box) == [i \in 1..4 |-> 20 * box[i]]

HeadOf(box) == <<20 * box[1] - HeadExpansion * Width(box), 20 * box[2],
                 20 * box[3] + HeadExpansion * Width(box), 20 * box[2] + HeadHeight * Height(box)>>

\* Twice the center.
Center(box) == <<box[1] + box[3], box[2] + box[4]>>

ContainedShare(head, box) ==
    IF Area(box) = 0 THEN 0 ELSE (100 * Area(Common(head, box))) \div Area(box)

CenterScore(head, box) ==
    100 - Ratio(Minus(Center(box), Center(head)), <<2 * Width(head), 2 * Height(head)>>, 100)

CenterInside(head, box) ==
    /\ 2 * head[1] <= Center(box)[1] /\ Center(box)[1] <= 2 * head[3]
    /\ 2 * head[2] <= Center(box)[2] /\ Center(box)[2] <= 2 * head[4]

HelmetScore(person, label) ==
    LET head == HeadOf(person.box)
        box  == Scaled(label.box)
    IN  50 * ContainedShare(head, box) + 25 * CenterScore(head, box) + 25 * label.confidence

MayWear(person, label) ==
    LET head == HeadOf(person.box)
        box  == Scaled(label.box)
    IN  /\ CenterInside(head, box) \/ ContainedShare(head, box) >= 20
        /\ HelmetScore(person, label) >= 100 * MinimumHelmetScore

===============================================================================
