---------------------------- MODULE PipelineProofs ----------------------------
(***************************************************************************)
(* The pipeline is composed of parts: every behaviour of it is, for each   *)
(* part, a behaviour of that part alone.  What is proved of the parts      *)
(* therefore holds in the pipeline, in every video.  The tracker and the   *)
(* evidence images have no proof module of their own: what holds of them   *)
(* is proved here, of the pipeline they are part of.                       *)
(***************************************************************************)
EXTENDS TrafficPipeline, SignalProofs, DetectorProofs, FiniteSetTheorems

\* The stabilizer of lights sees one frame, is reset, or is left alone.
LEMMA LightsStep == PipelineNext => [LightNext]_lightVars
<1>1. \A p \in Parts : Start(p) => LightNext
  BY DEF Start, LightNext
<1>2. LightsFrame => LightNext
  BY DEF LightsFrame, LightNext
<1>3. TrackerFrame \/ RidersFrame \/ JunctionFrame \/ ViolationsFrame \/ OutputFrame \/ Finish
          => UNCHANGED lightVars
  BY DEF TrackerFrame, RidersFrame, JunctionFrame, ViolationsFrame, OutputFrame, Finish
<1>. QED
  BY <1>1, <1>2, <1>3 DEF PipelineNext

\* So does the detector of red lights.
LEMMA JunctionStep == PipelineNext => [RedLightNext]_redLightVars
<1>1. \A p \in Parts : Start(p) => RedLightNext
  BY DEF Start, RedLightNext
<1>2. JunctionFrame => RedLightNext
  BY DEF JunctionFrame, RedLightNext
<1>3. TrackerFrame \/ RidersFrame \/ LightsFrame \/ ViolationsFrame \/ OutputFrame \/ Finish
          => UNCHANGED redLightVars
  BY DEF TrackerFrame, RidersFrame, LightsFrame, ViolationsFrame, OutputFrame, Finish
<1>. QED
  BY <1>1, <1>2, <1>3 DEF PipelineNext

\* So does the smoother of riders.
LEMMA RidersStep == PipelineNext => [RidersNext]_riderVars
<1>1. \A p \in Parts : Start(p) => RidersNext
  BY DEF Start, RidersNext
<1>2. RidersFrame => RidersNext
  BY DEF RidersFrame, RidersNext
<1>3. TrackerFrame \/ JunctionFrame \/ LightsFrame \/ ViolationsFrame \/ OutputFrame \/ Finish
          => UNCHANGED riderVars
  BY DEF TrackerFrame, JunctionFrame, LightsFrame, ViolationsFrame, OutputFrame, Finish
<1>. QED
  BY <1>1, <1>2, <1>3 DEF PipelineNext

\* The detectors of violations are also flushed at the end of a video.
LEMMA DetectorStep == PipelineNext => [DetectorNext]_detectorVars
<1>1. \A p \in Parts : Start(p) => DetectorNext
  BY DEF Start, DetectorNext
<1>2. ASSUME RidersFrame PROVE DetectorNext
  <2>1. (TripleRiding' \cup Bareheaded') \cap Keys \in SUBSET Keys
    OBVIOUS
  <2>. QED
    BY <1>2, <2>1 DEF RidersFrame, DetectorNext
<1>3. ASSUME ViolationsFrame PROVE DetectorNext
  BY <1>3 DEF ViolationsFrame, VehicleKeys, DetectorNext
<1>4. Finish => DetectorNext
  BY DEF Finish, DetectorNext
<1>5. TrackerFrame \/ JunctionFrame \/ LightsFrame \/ OutputFrame => UNCHANGED detectorVars
  BY DEF TrackerFrame, JunctionFrame, LightsFrame, OutputFrame
<1>. QED
  BY <1>1, <1>2, <1>3, <1>4, <1>5 DEF PipelineNext

\* The pipeline at rest leaves every part at rest.
LEMMA PartsRest ==
    UNCHANGED pipelineVars =>
        UNCHANGED <<lightVars, redLightVars, riderVars, detectorVars>>
BY DEF pipelineVars

\* Every behaviour of the pipeline is one of each of its parts: of the
\* stabilizer, the red-light detector, the smoother of riders and the detectors
\* of violations.
THEOREM PipelineComposed ==
    PipelineSpec => LightSpec /\ RedLightSpec /\ RidersSpec /\ DetectorSpec
<1>1. PipelineInit => LightInit /\ RedLightInit /\ RidersInit /\ DetectorInit
  BY DEF PipelineInit
<1>2. [PipelineNext]_pipelineVars =>
          /\ [LightNext]_lightVars /\ [RedLightNext]_redLightVars
          /\ [RidersNext]_riderVars /\ [DetectorNext]_detectorVars
  BY LightsStep, JunctionStep, RidersStep, DetectorStep, PartsRest
<1>. QED
  BY <1>1, <1>2, PTL DEF PipelineSpec, LightSpec, RedLightSpec, RidersSpec, DetectorSpec

\* In the pipeline, too, the lights are what they show, exactly the vehicles are
\* charged that are caught, the confirmed riders and violations are those of the
\* frames of the video, and the labels of riders are a stable choice.
THEOREM PipelineDecidesRightly ==
    PipelineSpec => /\ []StableAsShown
                    /\ CaughtExactly
                    /\ []ConfirmedAsRidden
                    /\ []LabelsStable
                    /\ []ConfirmedInViolation
                    /\ []OpenAreConfirmed
                    /\ []CandidateUnbroken
                    /\ TransitionsPaired
BY PipelineComposed, LightsAreAsShown, ChargesAreCaught, RidersAreConfirmed, LabelsAreStable,
   ConfirmationsAreRight, OpenEventsAreConfirmed, CandidatesUnbroken, EventsArePaired

\* And its rules against wrong-way driving and for the lanes agree, for any image
\* that is not too far from a square.
THEOREM PipelineRulesAgree ==
    ASSUME ImageNearlySquare
    PROVE  PipelineSpec => []RulesAgree
BY PipelineComposed, RulesAlwaysAgree

-------------------------------------------------------------------------------
(* Lanes: where a segment meets an edge *)

\* Signs of products.
LEMMA Signs ==
    ASSUME NEW x \in Int, NEW y \in Int
    PROVE  /\ x >= 0 /\ y >= 0 => x * y >= 0
           /\ x <= 0 /\ y >= 0 => x * y <= 0
           /\ x >= 0 /\ y <= 0 => x * y <= 0
           /\ x <= 0 /\ y <= 0 => x * y >= 0
           /\ x > 0 /\ y > 0 => x * y > 0
           /\ x < 0 /\ y > 0 => x * y < 0
           /\ x > 0 /\ y < 0 => x * y < 0
           /\ x < 0 /\ y < 0 => x * y > 0
           /\ x * y \in Int
OBVIOUS

\* The ends of either segment lie on different sides of the other one.
Opposed(o, q, s, t) ==
    \/ o >= 0 /\ q <= 0 /\ s <= 0 /\ t >= 0 /\ o - q > 0
    \/ o <= 0 /\ q >= 0 /\ s >= 0 /\ t <= 0 /\ q - o > 0

\* The two points agree about an edge unless just one of its ends is swept by the
\* segment between them; heights are sorted.
Alike(a, b, d, o, q, s, t) ==
    ((a <= 0 /\ 0 < b /\ o < 0) <=> (a <= d /\ d < b /\ q < 0))
        <=> ((0 < a /\ a <= d /\ s > 0) <=> (0 < b /\ b <= d /\ t > 0))

\* They do, unless the segments meet: the case of an ascending one.
LEMMA HeightsSorted ==
    ASSUME NEW a \in Int, NEW b \in Int, NEW d \in Int, 0 <= d, a <= b,
           NEW o \in Int, NEW q \in Int, NEW s \in Int, NEW t \in Int,
           o - q = t - s, o * d = t * a - s * b, ~Opposed(o, q, s, t)
    PROVE  Alike(a, b, d, o, q, s, t)
<1> USE DEF Alike
<1>1. /\ o * (d - b) + t * (b - a) = -(q * b)
      /\ s * (b - a) = -(o * (d - a)) - q * a
      /\ q * d = t * (a - d) - s * (b - d)
  <2>1. q = o + s - t
    OBVIOUS
  <2> QED BY <2>1
<1>2. CASE b <= 0 \/ a > d
  BY <1>2
<1>3. CASE a <= 0 /\ 0 < b /\ b <= d
  <2> SUFFICES (o < 0) <=> (t > 0)
    BY <1>3
  <2>1. ASSUME o >= 0, t > 0 PROVE FALSE
    <3>1. o * d >= 0 /\ t * a <= 0 /\ s * b = t * a - o * d
      BY <1>3, <2>1, Signs
    <3>2. s <= 0
      BY <3>1, <1>3, Signs
    <3>3. o * (d - b) >= 0 /\ t * (b - a) > 0
      BY <1>3, <2>1, Signs
    <3>4. q * b < 0
      BY <1>1, <3>3, Signs
    <3>5. q < 0
      BY <3>4, <1>3, Signs
    <3> QED BY <2>1, <3>2, <3>5 DEF Opposed
  <2>2. ASSUME o < 0, t <= 0 PROVE FALSE
    <3>1. o * d < 0 /\ t * a >= 0 /\ s * b = t * a - o * d
      BY <1>3, <2>2, Signs
    <3>2. s > 0
      BY <3>1, <1>3, Signs
    <3>3. o * (d - b) <= 0 /\ t * (b - a) <= 0
      BY <1>3, <2>2, Signs
    <3>4. q * b >= 0
      BY <1>1, <3>3, Signs
    <3>5. q >= 0
      BY <3>4, <1>3, Signs
    <3>. QED
      BY <2>2, <3>2, <3>5 DEF Opposed
  <2>. QED
    BY <2>1, <2>2
<1>4. CASE a <= 0 /\ b > d
  <2> SUFFICES (o < 0) <=> (q < 0)
    BY <1>4
  <2>0. t * (b - a) = o * (b - d) - q * b /\ s * (b - a) = -(o * (d - a)) - q * a
    BY <1>1
  <2>1. ASSUME o < 0, q >= 0 PROVE FALSE
    <3>1. o * (b - d) < 0 /\ q * b >= 0 /\ o * (d - a) <= 0 /\ q * a <= 0
      BY <1>4, <2>1, Signs
    <3>2. t < 0 /\ s >= 0
      BY <2>0, <3>1, <1>4, Signs
    <3>. QED
      BY <2>1, <3>2 DEF Opposed
  <2>2. ASSUME o >= 0, q < 0 PROVE FALSE
    <3>1. o * (b - d) >= 0 /\ q * b < 0 /\ o * (d - a) >= 0 /\ q * a >= 0
      BY <1>4, <2>2, Signs
    <3>2. t > 0 /\ s <= 0
      BY <2>0, <3>1, <1>4, Signs
    <3>. QED
      BY <2>2, <3>2 DEF Opposed
  <2>. QED
    BY <2>1, <2>2
<1>5. CASE 0 < a /\ b <= d
  <2> SUFFICES (s > 0) <=> (t > 0)
    BY <1>5
  <2>1. ASSUME s > 0, t <= 0 PROVE FALSE
    <3>1. t * a <= 0 /\ s * b > 0 /\ t * (a - d) >= 0 /\ s * (b - d) <= 0
      BY <1>5, <2>1, Signs
    <3>2. o < 0 /\ q >= 0
      BY <1>1, <3>1, <1>5, Signs
    <3>. QED
      BY <2>1, <3>2 DEF Opposed
  <2>2. ASSUME s <= 0, t > 0 PROVE FALSE
    <3>1. t * a > 0 /\ s * b <= 0 /\ t * (a - d) <= 0 /\ s * (b - d) >= 0
      BY <1>5, <2>2, Signs
    <3>2. o > 0 /\ q <= 0
      BY <1>1, <3>1, <1>5, Signs
    <3>. QED
      BY <2>2, <3>2 DEF Opposed
  <2>. QED
    BY <2>1, <2>2
<1>6. CASE 0 < a /\ a <= d /\ d < b
  <2> SUFFICES (q < 0) <=> (s > 0)
    BY <1>6
  <2>0. t * (a - d) = q * d + s * (b - d) /\ o * (d - a) = -(s * (b - a)) - q * a
    BY <1>1
  <2>1. ASSUME q < 0, s <= 0 PROVE FALSE
    <3>1. q * d < 0 /\ s * (b - d) <= 0 /\ s * (b - a) <= 0 /\ q * a < 0
      BY <1>6, <2>1, Signs
    <3>2. t > 0 /\ o > 0
      BY <2>0, <3>1, <1>6, Signs
    <3>. QED
      BY <2>1, <3>2 DEF Opposed
  <2>2. ASSUME q >= 0, s > 0 PROVE FALSE
    <3>1. q * d >= 0 /\ s * (b - d) > 0 /\ s * (b - a) > 0 /\ q * a >= 0
      BY <1>6, <2>2, Signs
    <3>2. t < 0 /\ o < 0
      BY <2>0, <3>1, <1>6, Signs
    <3>. QED
      BY <2>2, <3>2 DEF Opposed
  <2>. QED
    BY <2>1, <2>2
<1>. QED
  BY <1>2, <1>3, <1>4, <1>5, <1>6

\* A segment whose ends have the heights a and b crosses the height h to the
\* right of a point; its side of the line is negative if that is so.
Right(a, b, h, side) == (a > h) # (b > h) /\ IF a < b THEN side < 0 ELSE side > 0

\* A point at height a lies between the heights 0 and d, to the right.
Swept(a, d, side) == (a > 0) # (a > d) /\ IF 0 < d THEN side > 0 ELSE side < 0

\* The same for ends and points in any order.
LEMMA Heights ==
    ASSUME NEW a \in Int, NEW b \in Int, NEW d \in Int,
           NEW o \in Int, NEW q \in Int, NEW s \in Int, NEW t \in Int,
           o - q = t - s, o * d = t * a - s * b, ~Opposed(o, q, s, t)
    PROVE  (Right(a, b, 0, o) <=> Right(a, b, d, q)) <=> (Swept(a, d, s) <=> Swept(b, d, t))
<1>1. CASE 0 <= d /\ a <= b
  <2>1. Alike(a, b, d, o, q, s, t)
    BY <1>1, HeightsSorted
  <2>. QED
    BY <1>1, <2>1 DEF Alike, Right, Swept
<1>2. CASE 0 <= d /\ b <= a
  <2> DEFINE a1 == b
             b1 == a
             d1 == d
             o1 == -o
             q1 == -q
             s1 == t
             t1 == s
  <2>1. /\ a1 \in Int /\ b1 \in Int /\ d1 \in Int
        /\ o1 \in Int /\ q1 \in Int /\ s1 \in Int /\ t1 \in Int
        /\ 0 <= d1 /\ a1 <= b1 /\ o1 - q1 = t1 - s1
    BY <1>2
  <2>2. o1 * d1 = t1 * a1 - s1 * b1
    <3>1. q = o + s - t
      OBVIOUS
    <3>. QED
      BY <3>1
  <2>3. ~Opposed(o1, q1, s1, t1)
    BY DEF Opposed
  <2> HIDE DEF a1, b1, d1, o1, q1, s1, t1
  <2>4. Alike(a1, b1, d1, o1, q1, s1, t1)
    BY <2>1, <2>2, <2>3, HeightsSorted
  <2>. QED
    BY <1>2, <2>4 DEF a1, b1, d1, o1, q1, s1, t1, Alike, Right, Swept
<1>3. CASE d <= 0 /\ a <= b
  <2> DEFINE a1 == a - d
             b1 == b - d
             d1 == -d
             o1 == q
             q1 == o
             s1 == -s
             t1 == -t
  <2>1. /\ a1 \in Int /\ b1 \in Int /\ d1 \in Int
        /\ o1 \in Int /\ q1 \in Int /\ s1 \in Int /\ t1 \in Int
        /\ 0 <= d1 /\ a1 <= b1 /\ o1 - q1 = t1 - s1
    BY <1>3
  <2>2. o1 * d1 = t1 * a1 - s1 * b1
    <3>1. q = o + s - t
      OBVIOUS
    <3>. QED
      BY <3>1
  <2>3. ~Opposed(o1, q1, s1, t1)
    BY DEF Opposed
  <2> HIDE DEF a1, b1, d1, o1, q1, s1, t1
  <2>4. Alike(a1, b1, d1, o1, q1, s1, t1)
    BY <2>1, <2>2, <2>3, HeightsSorted
  <2>. QED
    BY <1>3, <2>4 DEF a1, b1, d1, o1, q1, s1, t1, Alike, Right, Swept
<1>4. CASE d <= 0 /\ b <= a
  <2> DEFINE a1 == b - d
             b1 == a - d
             d1 == -d
             o1 == -q
             q1 == -o
             s1 == -t
             t1 == -s
  <2>1. /\ a1 \in Int /\ b1 \in Int /\ d1 \in Int
        /\ o1 \in Int /\ q1 \in Int /\ s1 \in Int /\ t1 \in Int
        /\ 0 <= d1 /\ a1 <= b1 /\ o1 - q1 = t1 - s1
    BY <1>4
  <2>2. o1 * d1 = t1 * a1 - s1 * b1
    <3>1. q = o + s - t
      OBVIOUS
    <3>. QED
      BY <3>1
  <2>3. ~Opposed(o1, q1, s1, t1)
    BY DEF Opposed
  <2> HIDE DEF a1, b1, d1, o1, q1, s1, t1
  <2>4. Alike(a1, b1, d1, o1, q1, s1, t1)
    BY <2>1, <2>2, <2>3, HeightsSorted
  <2>. QED
    BY <1>4, <2>4 DEF a1, b1, d1, o1, q1, s1, t1, Alike, Right, Swept
<1>. QED
  BY <1>1, <1>2, <1>3, <1>4

\* The edge from a to c lies to the right of p, at its height.
EdgeRight(p, a, c) ==
    LET e == Minus(a, c)
        d == Minus(p, c)
    IN  /\ (c[2] > p[2]) # (a[2] > p[2])
        /\ IF e[2] > 0 THEN d[1] * e[2] < e[1] * d[2] ELSE d[1] * e[2] > e[1] * d[2]

\* The ray from p to the right passes c before that from q, if p moves to q.
SweptBy(c, p, q) == Swept(c[2] - p[2], q[2] - p[2], Cross(Minus(c, p), Minus(q, p)))

\* The segments from p to q and from a to c meet.
Meet(p, q, a, c) ==
    Opposed(Cross(Minus(p, a), Minus(c, a)), Cross(Minus(q, a), Minus(c, a)),
            Cross(Minus(a, p), Minus(q, p)), Cross(Minus(c, p), Minus(q, p)))

\* What the sides of four points have to do with each other.
LEMMA FourPoints ==
    ASSUME NEW p \in Int \X Int, NEW q \in Int \X Int, NEW a \in Int \X Int, NEW c \in Int \X Int,
           NEW o, NEW r, NEW s, NEW t,
           o = Cross(Minus(p, a), Minus(c, a)), r = Cross(Minus(q, a), Minus(c, a)),
           s = Cross(Minus(a, p), Minus(q, p)), t = Cross(Minus(c, p), Minus(q, p))
    PROVE  /\ o \in Int /\ r \in Int /\ s \in Int /\ t \in Int /\ o - r = t - s
           /\ o * (q[1] - p[1]) = t * (a[1] - p[1]) - s * (c[1] - p[1])
           /\ o * (q[2] - p[2]) = t * (a[2] - p[2]) - s * (c[2] - p[2])
<1> DEFINE ax == a[1] - p[1]
           ay == a[2] - p[2]
           cx == c[1] - p[1]
           cy == c[2] - p[2]
           dx == q[1] - p[1]
           dy == q[2] - p[2]
<1>1. ax \in Int /\ ay \in Int /\ cx \in Int /\ cy \in Int /\ dx \in Int /\ dy \in Int
  OBVIOUS
<1>2. /\ p[1] - a[1] = -ax /\ p[2] - a[2] = -ay /\ c[1] - a[1] = cx - ax /\ c[2] - a[2] = cy - ay
      /\ q[1] - a[1] = dx - ax /\ q[2] - a[2] = dy - ay
  OBVIOUS
<1>3. /\ o = (-ax) * (cy - ay) - (-ay) * (cx - ax)
      /\ r = (dx - ax) * (cy - ay) - (dy - ay) * (cx - ax)
      /\ s = ax * dy - ay * dx
      /\ t = cx * dy - cy * dx
  BY <1>2 DEF Cross, Minus
<1> HIDE DEF ax, ay, cx, cy, dx, dy
<1>4. /\ o \in Int /\ r \in Int /\ s \in Int /\ t \in Int /\ o - r = t - s
      /\ o * dx = t * ax - s * cx
      /\ o * dy = t * ay - s * cy
  BY <1>1, <1>3
<1>. QED
  BY <1>4 DEF ax, ay, cx, cy, dx, dy

\* An edge on the right of a point is one whose ends lie on different sides of
\* its height, and it on the proper side of the edge.
LEMMA EdgeIsRight ==
    ASSUME NEW p \in Int \X Int, NEW q \in Int \X Int, NEW a \in Int \X Int, NEW c \in Int \X Int
    PROVE  EdgeRight(q, a, c) <=> Right(a[2] - p[2], c[2] - p[2], q[2] - p[2],
                                        Cross(Minus(q, a), Minus(c, a)))
<1> DEFINE o == Cross(Minus(q, a), Minus(c, a))
           l == (q[1] - c[1]) * (a[2] - c[2])
           m == (a[1] - c[1]) * (q[2] - c[2])
<1>1. o = m - l /\ l \in Int /\ m \in Int
  <2>1. \A u, v, w, x, y, z \in Int : (u - v) * (z - w) - (x - w) * (y - v)
            = (v - y) * (x - z) - (u - y) * (w - z)
    OBVIOUS
  <2>2. o = (q[1] - a[1]) * (c[2] - a[2]) - (q[2] - a[2]) * (c[1] - a[1])
    BY DEF Cross, Minus
  <2>. QED
    BY <2>1, <2>2
<1>2. EdgeRight(q, a, c) <=> /\ (c[2] > q[2]) # (a[2] > q[2])
                             /\ IF a[2] - c[2] > 0 THEN l < m ELSE l > m
  BY DEF EdgeRight, Minus
<1> HIDE DEF o, l, m
<1>3. EdgeRight(q, a, c) <=> Right(a[2] - p[2], c[2] - p[2], q[2] - p[2], o)
  BY <1>1, <1>2 DEF Right
<1>. QED
  BY <1>3 DEF o

\* An edge that the segment from p to q does not meet is on the right of both or
\* of neither, unless just one of its ends is swept.
LEMMA EdgeParity ==
    ASSUME NEW p \in Int \X Int, NEW q \in Int \X Int, NEW a \in Int \X Int, NEW c \in Int \X Int,
           ~Meet(p, q, a, c)
    PROVE  (EdgeRight(p, a, c) <=> EdgeRight(q, a, c)) <=> (SweptBy(a, p, q) <=> SweptBy(c, p, q))
<1> DEFINE o == Cross(Minus(p, a), Minus(c, a))
           r == Cross(Minus(q, a), Minus(c, a))
           s == Cross(Minus(a, p), Minus(q, p))
           t == Cross(Minus(c, p), Minus(q, p))
           ay == a[2] - p[2]
           cy == c[2] - p[2]
           dy == q[2] - p[2]
<1>1. /\ o \in Int /\ r \in Int /\ s \in Int /\ t \in Int /\ o - r = t - s
      /\ o * dy = t * ay - s * cy
  BY FourPoints
<1>2. ay \in Int /\ cy \in Int /\ dy \in Int /\ p[2] - p[2] = 0
  OBVIOUS
<1>3. ~Opposed(o, r, s, t)
  BY DEF Meet
<1>4. EdgeRight(p, a, c) <=> Right(ay, cy, 0, o)
  <2>1. EdgeRight(p, a, c) <=> Right(ay, cy, p[2] - p[2], o)
    BY EdgeIsRight
  <2>. QED
    BY <1>2, <2>1
<1>5. EdgeRight(q, a, c) <=> Right(ay, cy, dy, r)
  BY EdgeIsRight
<1>6. (SweptBy(a, p, q) <=> Swept(ay, dy, s)) /\ (SweptBy(c, p, q) <=> Swept(cy, dy, t))
  BY DEF SweptBy
<1> HIDE DEF o, r, s, t, ay, cy, dy
<1>7. (Right(ay, cy, 0, o) <=> Right(ay, cy, dy, r)) <=> (Swept(ay, dy, s) <=> Swept(cy, dy, t))
  BY <1>1, <1>2, <1>3, Heights
<1>. QED
  BY <1>4, <1>5, <1>6, <1>7, Zenon

-------------------------------------------------------------------------------
(* Lanes: inside and outside *)

\* The parities along a polygon, edge by edge, the last of which decides.
ParitiesOf(f, p, polygon, N) ==
    /\ Inside(p, polygon) <=> f[N]
    /\ ~f[0]
    /\ \A i \in 1..N : f[i] <=> ~(f[i - 1] <=> EdgeOnTheRight(p, polygon, i))

\* There are such parities.
LEMMA Parities ==
    ASSUME NEW p, NEW polygon, NEW N \in Nat, N = Len(polygon)
    PROVE  \E f \in [0..N -> BOOLEAN] : ParitiesOf(f, p, polygon, N)
<1> DEFINE Rec(f) == f = [i \in 0..Len(polygon) |->
                            IF i = 0 THEN FALSE ELSE f[i - 1] # EdgeOnTheRight(p, polygon, i)]
           parity == CHOOSE f : Rec(f)
           E(i) == EdgeOnTheRight(p, polygon, i)
           Step == [i \in 1..N |-> [v \in BOOLEAN |-> v # E(i)]]
           none == FALSE
<1>1. Inside(p, polygon) = parity[Len(polygon)]
  BY Zenon DEF Inside
<1>2. Step \in [1..N -> [BOOLEAN -> BOOLEAN]] /\ none \in BOOLEAN
  <2> HIDE DEF E
  <2>. QED
    OBVIOUS
<1>3. \A i \in 1..N, v \in BOOLEAN : Step[i][v] = (v # E(i))
  <2> HIDE DEF E
  <2>. QED
    OBVIOUS
<1> HIDE DEF Step
<1>4. PICK f \in [0..N -> BOOLEAN] : f[0] = FALSE /\ \A i \in 1..N : f[i] = Step[i][f[i - 1]]
  <2> HIDE DEF none
  <2>1. \E f \in [0..N -> BOOLEAN] : Runs(f, N, none, Step)
    BY <1>2, RecursionExists
  <2>. QED
    BY <2>1 DEF Runs, none
<1>5. ASSUME NEW i \in 1..N PROVE f[i] = (f[i - 1] # E(i))
  <2>1. i - 1 \in 0..N
    OBVIOUS
  <2>2. f[i - 1] \in BOOLEAN /\ f[i] = Step[i][f[i - 1]]
    BY <1>4, <2>1
  <2> HIDE DEF E
  <2>. QED
    BY <1>3, <2>2
<1>6. ASSUME NEW i \in 0..N PROVE f[i] = IF i = 0 THEN FALSE ELSE f[i - 1] # E(i)
  <2> HIDE DEF E
  <2>1. CASE i = 0
    BY <1>4, <2>1
  <2>2. CASE i # 0
    <3>1. i \in 1..N
      BY <2>2
    <3>. QED
      BY <1>5, <2>2, <3>1
  <2>. QED
    BY <2>1, <2>2
<1>7. Rec(f)
  BY <1>4, <1>6
<1>8. Rec(parity)
  <2> HIDE DEF Rec
  <2>. QED
    BY <1>7
<1> DEFINE g == parity
<1>9. g = [i \in 0..N |-> IF i = 0 THEN FALSE ELSE g[i - 1] # E(i)]
  BY <1>8
<1> HIDE DEF g, E
<1>10. g \in [0..N -> BOOLEAN]
  BY <1>9
<1>11. ~g[0] /\ Inside(p, polygon) = g[N]
  <2>1. 0 \in 0..N
    OBVIOUS
  <2>. QED
    BY <1>1, <1>9, <2>1 DEF g
<1>12. ASSUME NEW i \in 1..N PROVE g[i] <=> ~(g[i - 1] <=> E(i))
  <2>1. i \in 0..N /\ i # 0 /\ i - 1 \in 0..N
    OBVIOUS
  <2>2. g[i] = (g[i - 1] # E(i)) /\ g[i - 1] \in BOOLEAN /\ E(i) \in BOOLEAN
    BY <1>9, <1>10, <2>1 DEF E, EdgeOnTheRight
  <2>. QED
    BY <2>2
<1>13. ParitiesOf(g, p, polygon, N)
  BY <1>11, <1>12, Zenon DEF ParitiesOf, E
<1>. QED
  BY <1>10, <1>13

\* Two points of which the segment meets no edge are both inside or both outside.
LEMMA InsideAlike ==
    ASSUME NEW p \in Int \X Int, NEW q \in Int \X Int, NEW polygon \in Seq(Int \X Int),
           \A i \in DOMAIN polygon : ~Meet(p, q, polygon[Before(i, polygon)], polygon[i])
    PROVE  Inside(p, polygon) <=> Inside(q, polygon)
<1> DEFINE N == Len(polygon)
           corner(i) == IF i = 0 THEN polygon[N] ELSE polygon[i]
           swept(i) == SweptBy(corner(i), p, q)
<1>1. N \in Nat /\ DOMAIN polygon = 1..N
  OBVIOUS
<1>2. PICK f \in [0..N -> BOOLEAN] : ParitiesOf(f, p, polygon, N)
  <2> HIDE DEF N
  <2>. QED
    BY <1>1, Parities DEF N
<1>3. PICK g \in [0..N -> BOOLEAN] : ParitiesOf(g, q, polygon, N)
  <2> HIDE DEF N
  <2>. QED
    BY <1>1, Parities DEF N
<1>4. ASSUME NEW i \in 1..N
      PROVE  (EdgeOnTheRight(p, polygon, i) <=> EdgeOnTheRight(q, polygon, i)) <=> (swept(i - 1) <=> swept(i))
  <2>1. /\ polygon[Before(i, polygon)] = corner(i - 1) /\ polygon[i] = corner(i)
        /\ corner(i - 1) \in Int \X Int /\ corner(i) \in Int \X Int
    <3>1. Before(i, polygon) = IF i = 1 THEN N ELSE i - 1
      BY DEF Before
    <3>2. i \in Nat /\ i # 0 /\ i \in 1..N /\ N \in 1..N /\ (i # 1 => i - 1 # 0 /\ i - 1 \in 1..N)
      BY <1>1
    <3>3. corner(i) = polygon[i] /\ corner(i - 1) = IF i = 1 THEN polygon[N] ELSE polygon[i - 1]
      BY <3>2
    <3>4. \A k \in 1..N : polygon[k] \in Int \X Int
      BY <1>1
    <3> HIDE DEF corner, N
    <3>. QED
      BY <3>1, <3>2, <3>3, <3>4
  <2>2. \A x : EdgeOnTheRight(x, polygon, i) <=> EdgeRight(x, polygon[Before(i, polygon)], polygon[i])
    BY DEF EdgeOnTheRight, EdgeRight
  <2>3. ~Meet(p, q, corner(i - 1), corner(i))
    BY <1>1, <2>1
  <2> HIDE DEF corner
  <2>4. (EdgeRight(p, corner(i - 1), corner(i)) <=> EdgeRight(q, corner(i - 1), corner(i)))
          <=> (swept(i - 1) <=> swept(i))
    BY <2>1, <2>3, EdgeParity
  <2>. QED
    BY <2>1, <2>2, <2>4
<1> DEFINE T == {i \in 0..N : (f[i] <=> g[i]) <=> (swept(0) <=> swept(i))}
<1> HIDE DEF swept
<1>5. 0 \in T
  BY <1>1, <1>2, <1>3 DEF ParitiesOf
<1>6. ASSUME NEW i \in 0..N, i \in T, i < N PROVE i + 1 \in T
  <2>1. i + 1 \in 1..N /\ (i + 1) - 1 = i
    BY <1>1, <1>6
  <2>2. /\ f[i + 1] <=> ~(f[i] <=> EdgeOnTheRight(p, polygon, i + 1))
        /\ g[i + 1] <=> ~(g[i] <=> EdgeOnTheRight(q, polygon, i + 1))
        /\ (EdgeOnTheRight(p, polygon, i + 1) <=> EdgeOnTheRight(q, polygon, i + 1)) <=> (swept(i) <=> swept(i + 1))
    BY <1>2, <1>3, <1>4, <2>1 DEF ParitiesOf
  <2>3. (f[i] <=> g[i]) <=> (swept(0) <=> swept(i))
    BY <1>6
  <2>4. (f[i + 1] <=> g[i + 1]) <=> (swept(0) <=> swept(i + 1))
    BY <2>2, <2>3, Zenon
  <2>. QED
    BY <2>1, <2>4
<1>7. N \in T
  <2>1. \A i \in 0..N : i \in T /\ i < N => i + 1 \in T
    BY <1>6
  <2> HIDE DEF T, N
  <2>2. \A i \in 0..N : i \in T
    BY <1>1, <1>5, <2>1, UpTo
  <2>. QED
    BY <1>1, <2>2
<1>8. swept(0) <=> swept(N)
  BY DEF swept
<1>9. f[N] <=> g[N]
  BY <1>7, <1>8
<1>. QED
  BY <1>2, <1>3, <1>9, Zenon DEF ParitiesOf

-------------------------------------------------------------------------------
(* Lanes: near an edge *)

\* A factor that is positive can be left out.
LEMMA Cancel ==
    ASSUME NEW M \in Int, M > 0, NEW x \in Int, NEW y \in Int, M * x <= M * y
    PROVE  x <= y
<1> SUFFICES ASSUME y < x PROVE FALSE
  OBVIOUS
<1>1. M * (x - y) > 0
  BY Signs
<1>. QED
  BY <1>1

\* The product of two numbers that are not negative is not.
LEMMA NoNegative ==
    ASSUME NEW x \in Int, NEW y \in Int, x >= 0, y >= 0
    PROVE  x * y >= 0
OBVIOUS

\* The triangle inequality.
LEMMA Triangle ==
    ASSUME NEW x \in Int, NEW y \in Int, NEW v \in Int, NEW w \in Int, NEW X \in Nat, NEW Y \in Nat,
           x * x + y * y <= X * X, v * v + w * w <= Y * Y
    PROVE  (x + v) * (x + v) + (y + w) * (y + w) <= (X + Y) * (X + Y)
<1> DEFINE d == x * v - y * (-w)
           u == x * x + y * y
           n == v * v + (-w) * (-w)
           Z == X * Y
<1>1. d * d <= u * n
  BY Plane
<1>2. /\ d \in Int /\ u \in Int /\ n \in Int /\ Z \in Int /\ u >= 0 /\ n >= 0
      /\ u <= X * X /\ n <= Y * Y /\ Z >= 0 /\ X * X \in Int /\ Y * Y \in Int /\ X * X >= 0
      /\ Z * Z = (X * X) * (Y * Y)
  OBVIOUS
<1>3. (x + v) * (x + v) + (y + w) * (y + w) = u + n + 2 * d
  OBVIOUS
<1>4. (X + Y) * (X + Y) = X * X + Y * Y + 2 * Z
  OBVIOUS
<1> HIDE DEF d, u, n, Z
<1>5. u * n <= (X * X) * (Y * Y)
  <2> DEFINE S == X * X
             T == Y * Y
  <2>1. S \in Int /\ T \in Int /\ u <= S /\ n <= T /\ S >= 0
    BY <1>2
  <2> HIDE DEF S, T
  <2>2. u * n <= S * n /\ S * n <= S * T
    BY <1>2, <2>1, ProductGrows
  <2>3. u * n <= S * T
    BY <1>2, <2>1, <2>2
  <2>. QED
    BY <2>3 DEF S, T
<1>6. d <= Z
  <2> SUFFICES ASSUME Z < d PROVE FALSE
    BY <1>2
  <2>1. Z * Z < d * d
    BY <1>2, SquareSmaller
  <2>2. d * d \in Int /\ Z * Z \in Int /\ u * n \in Int
    BY <1>2
  <2>. QED
    BY <1>1, <1>2, <1>5, <2>1, <2>2
<1>. QED
  BY <1>2, <1>3, <1>4, <1>6

\* A point whose connection with some point of a segment is short is near to it.
LEMMA ShortIsNear ==
    ASSUME NEW z \in Int \X Int, NEW a \in Int \X Int, NEW c \in Int \X Int, NEW limit \in Nat,
           NEW M \in Nat \ {0}, NEW m \in 0..M, NEW x \in Int, NEW y \in Int,
           M * (z[1] - a[1]) = m * (c[1] - a[1]) + x,
           M * (z[2] - a[2]) = m * (c[2] - a[2]) + y,
           x * x + y * y <= (M * limit) * (M * limit)
    PROVE  NearSegment(z, a, c, limit)
<1> DEFINE u == z[1] - a[1]
           v == z[2] - a[2]
           s == c[1] - a[1]
           t == c[2] - a[2]
           along == u * s + v * t
           length == s * s + t * t
           f == x * x + y * y
<1>1. /\ u \in Int /\ v \in Int /\ s \in Int /\ t \in Int /\ along \in Int /\ length \in Int /\ f \in Int
      /\ length >= 0 /\ m >= 0 /\ M > 0 /\ M - m >= 0 /\ m \in Int /\ M \in Int
      /\ z[1] - c[1] = u - s /\ z[2] - c[2] = v - t
  OBVIOUS
<1>2. NearSegment(z, a, c, limit) <=>
          IF along <= 0 THEN u * u + v * v <= limit * limit
          ELSE IF along >= length THEN (u - s) * (u - s) + (v - t) * (v - t) <= limit * limit
          ELSE (u * t - v * s) * (u * t - v * s) <= limit * limit * length
  BY <1>1 DEF NearSegment, Square, Dot, Cross, Minus
<1>3. M * u = m * s + x /\ M * v = m * t + y /\ f <= (M * limit) * (M * limit)
  OBVIOUS
<1>4. (M * limit) * (M * limit) = (M * M) * (limit * limit) /\ M * M \in Int /\ M * M > 0 /\ limit * limit \in Int
  <2>1. M * M > 0
    BY <1>1, Signs
  <2>. QED
    BY <2>1
<1> HIDE DEF u, v, s, t, along, length, f
<1>5. CASE along <= 0
  <2>1. f = (M * M) * (u * u + v * v) + (m * m) * length + 2 * ((M * m) * (-along))
    <3>1. x = M * u - m * s /\ y = M * v - m * t
      BY <1>1, <1>3
    <3>. QED
      BY <1>1, <3>1 DEF f, length, along
  <2>2. (m * m) * length >= 0 /\ (M * m) * (-along) >= 0
    <3>1. m * m >= 0 /\ M * m >= 0 /\ m * m \in Int /\ M * m \in Int /\ -along \in Int /\ -along >= 0
      BY <1>1, <1>5, NoNegative
    <3>. QED
      BY <1>1, <3>1, NoNegative
  <2>3. /\ u * u + v * v \in Int /\ (M * M) * (u * u + v * v) \in Int
        /\ (m * m) * length \in Int /\ (M * m) * (-along) \in Int
    BY <1>1
  <2>4. (M * M) * (u * u + v * v) <= (M * M) * (limit * limit)
    <3> DEFINE P == (M * M) * (u * u + v * v)
               Q == (m * m) * length
               R == (M * m) * (-along)
               L == (M * M) * (limit * limit)
    <3>1. P \in Int /\ Q \in Int /\ R \in Int /\ L \in Int /\ f = P + Q + 2 * R /\ f <= L /\ Q >= 0 /\ R >= 0
      BY <1>3, <1>4, <2>1, <2>2, <2>3
    <3> HIDE DEF P, Q, R, L
    <3>2. P <= L
      BY <1>1, <3>1
    <3>. QED
      BY <3>2 DEF P, L
  <2>5. u * u + v * v <= limit * limit
    BY <1>4, <2>3, <2>4, Cancel
  <2>. QED
    BY <1>2, <1>5, <2>5
<1>6. CASE along > 0 /\ along >= length
  <2> DEFINE k == M - m
             w == (u - s) * (u - s) + (v - t) * (v - t)
             after == along - length
  <2>0. k \in Int /\ k >= 0 /\ w \in Int /\ after \in Int /\ after >= 0
    BY <1>1, <1>6
  <2>1. f = (M * M) * w + (k * k) * length + 2 * ((M * k) * after)
    <3>1. x = M * (u - s) + k * s /\ y = M * (v - t) + k * t
      BY <1>1, <1>3
    <3>2. after = (u - s) * s + (v - t) * t
      BY <1>1 DEF along, length
    <3> HIDE DEF k, after
    <3>. QED
      BY <1>1, <2>0, <3>1, <3>2 DEF f, length
  <2> HIDE DEF k, w, after
  <2>2. (k * k) * length >= 0 /\ (M * k) * after >= 0
    <3>1. k * k >= 0 /\ M * k >= 0 /\ k * k \in Int /\ M * k \in Int
      BY <1>1, <2>0, NoNegative
    <3>. QED
      BY <1>1, <2>0, <3>1, NoNegative
  <2>3. (M * M) * w \in Int /\ (k * k) * length \in Int /\ (M * k) * after \in Int
    BY <1>1, <2>0
  <2>4. (M * M) * w <= (M * M) * (limit * limit)
    BY <1>1, <1>3, <1>4, <2>1, <2>2, <2>3
  <2>5. w <= limit * limit
    BY <1>4, <2>0, <2>4, Cancel
  <2>. QED
    BY <1>1, <1>2, <1>6, <2>5 DEF w
<1>7. CASE along > 0 /\ along < length
  <2> DEFINE g == u * t - v * s
             h == x * t - y * s
  <2>0. g \in Int /\ h \in Int /\ M * g = h
    <3>1. x = M * u - m * s /\ y = M * v - m * t
      BY <1>1, <1>3
    <3>. QED
      BY <1>1, <3>1
  <2>1. h * h <= f * length
    BY <1>1, Plane DEF f, length
  <2> HIDE DEF g, h
  <2>2. (M * M) * (g * g) = h * h
    BY <1>1, <2>0
  <2>3. f * length <= ((M * M) * (limit * limit)) * length
    <3> DEFINE B == (M * M) * (limit * limit)
    <3>1. B \in Int /\ f <= B
      BY <1>1, <1>3, <1>4
    <3> HIDE DEF B
    <3>2. f * length <= B * length
      BY <1>1, <3>1, ProductGrows
    <3>. QED
      BY <3>2 DEF B
  <2>4. (M * M) * (g * g) <= (M * M) * ((limit * limit) * length)
    BY <1>1, <1>4, <2>0, <2>1, <2>2, <2>3
  <2>5. g * g <= (limit * limit) * length
    <3>1. g * g \in Int /\ (limit * limit) * length \in Int
      BY <1>1, <1>4, <2>0
    <3>. QED
      BY <1>4, <2>4, <3>1, Cancel
  <2>. QED
    BY <1>1, <1>2, <1>7, <2>5 DEF g
<1>. QED
  BY <1>1, <1>5, <1>6, <1>7

\* The segment from p to q meets the edge from a to c, in whole multiples: the
\* point is n of K parts from q and m of K parts from a.
LEMMA MeetIn ==
    ASSUME NEW p \in Int \X Int, NEW q \in Int \X Int, NEW a \in Int \X Int, NEW c \in Int \X Int,
           Meet(p, q, a, c)
    PROVE  \E K \in Nat \ {0} : \E m, n \in 0..K :
              /\ K * (q[1] - a[1]) = m * (c[1] - a[1]) + n * (q[1] - p[1])
              /\ K * (q[2] - a[2]) = m * (c[2] - a[2]) + n * (q[2] - p[2])
<1> DEFINE o == Cross(Minus(p, a), Minus(c, a))
           r == Cross(Minus(q, a), Minus(c, a))
           s == Cross(Minus(a, p), Minus(q, p))
           t == Cross(Minus(c, p), Minus(q, p))
           Multiple(K, m, n, k) == K * (q[k] - a[k]) = m * (c[k] - a[k]) + n * (q[k] - p[k])
<1>1. /\ o \in Int /\ r \in Int /\ s \in Int /\ t \in Int /\ o - r = t - s
      /\ o * (q[1] - p[1]) = t * (a[1] - p[1]) - s * (c[1] - p[1])
      /\ o * (q[2] - p[2]) = t * (a[2] - p[2]) - s * (c[2] - p[2])
  BY FourPoints
<1>2. Opposed(o, r, s, t)
  BY DEF Meet
<1> HIDE DEF o, r, s, t
<1>3. \A k \in {1, 2} : p[k] \in Int /\ q[k] \in Int /\ a[k] \in Int /\ c[k] \in Int
                         /\ o * (q[k] - p[k]) = t * (a[k] - p[k]) - s * (c[k] - p[k])
  BY <1>1
<1>4. ASSUME NEW k \in {1, 2} PROVE Multiple(o - r, -s, -r, k) /\ Multiple(r - o, s, r, k)
  <2> DEFINE A == a[k] - p[k]
             C == c[k] - p[k]
             D == q[k] - p[k]
  <2>1. A \in Int /\ C \in Int /\ D \in Int /\ o * D = t * A - s * C
        /\ q[k] - a[k] = D - A /\ c[k] - a[k] = C - A /\ t = o - r + s
    BY <1>1, <1>3
  <2> HIDE DEF A, C, D
  <2>2. /\ (o - r) * (D - A) = (-s) * (C - A) + (-r) * D
        /\ (r - o) * (D - A) = s * (C - A) + r * D
    BY <1>1, <2>1
  <2>. QED
    BY <2>1, <2>2 DEF D
<1>5. \E K \in Nat \ {0} : \E m, n \in 0..K : Multiple(K, m, n, 1) /\ Multiple(K, m, n, 2)
  <2>1. CASE o >= 0 /\ r <= 0 /\ s <= 0 /\ t >= 0 /\ o - r > 0
    <3>1. o - r \in Nat \ {0} /\ -s \in 0..(o - r) /\ -r \in 0..(o - r)
      BY <1>1, <2>1
    <3>2. Multiple(o - r, -s, -r, 1) /\ Multiple(o - r, -s, -r, 2)
      BY <1>4
    <3> HIDE DEF Multiple
    <3>. QED
      BY <3>1, <3>2
  <2>2. CASE o <= 0 /\ r >= 0 /\ s >= 0 /\ t <= 0 /\ r - o > 0
    <3>1. r - o \in Nat \ {0} /\ s \in 0..(r - o) /\ r \in 0..(r - o)
      BY <1>1, <2>2
    <3>2. Multiple(r - o, s, r, 1) /\ Multiple(r - o, s, r, 2)
      BY <1>4
    <3> HIDE DEF Multiple
    <3>. QED
      BY <3>1, <3>2
  <2>. QED
    BY <1>2, <2>1, <2>2 DEF Opposed
<1>. QED
  BY <1>5

\* In one coordinate, z is m of K parts on the edge from b to d, but for what is
\* left of the way from p and a drift of at most H.
Drifts(U, K, m, n, H, z, p, b, d, g) ==
    /\ (K * U) * (z - b) = (m * U) * (d - b) + (n * (U * z - p) + g)
    /\ -(K * H) <= g /\ g <= K * H

\* One coordinate of a point that is n of K parts from q and m of K parts on an
\* edge whose ends are known up to H.
LEMMA Drift ==
    ASSUME NEW U \in Int, NEW K \in Int, NEW m \in Int, NEW n \in Int, NEW H \in Int,
           NEW z \in Int, NEW p \in Int, NEW a \in Int, NEW b \in Int, NEW c \in Int, NEW d \in Int,
           0 <= m, m <= K,
           K * (U * z - a) = m * (c - a) + n * (U * z - p),
           -H <= U * b - a, U * b - a <= H, -H <= U * d - c, U * d - c <= H,
           NEW g \in Int, g = -((K - m) * (U * b - a)) - m * (U * d - c)
    PROVE  Drifts(U, K, m, n, H, z, p, b, d, g)
<1> DEFINE x == U * b - a
           y == U * d - c
           k == K - m
<1>0. g = -(k * x) - m * y
  OBVIOUS
<1>1. x \in Int /\ y \in Int /\ k \in Int /\ k >= 0 /\ k + m = K /\ a = U * b - x /\ c = U * d - y
  OBVIOUS
<1>2. K * (U * z - (U * b - x)) = m * ((U * d - y) - (U * b - x)) + n * (U * z - p)
  BY <1>1
<1>3. -H <= x /\ x <= H /\ -H <= y /\ y <= H
  OBVIOUS
<1> HIDE DEF x, y, k
<1>4. (K * U) * (z - b) = (m * U) * (d - b) + (n * (U * z - p) + g)
  <2>1. /\ K * (U * z - (U * b - x)) = (K * U) * (z - b) + K * x
        /\ m * ((U * d - y) - (U * b - x)) = (m * U) * (d - b) - m * y + m * x
        /\ K * x = k * x + m * x
    BY <1>1
  <2>2. /\ (K * U) * (z - b) \in Int /\ (m * U) * (d - b) \in Int /\ n * (U * z - p) \in Int
        /\ K * x \in Int /\ k * x \in Int /\ m * x \in Int /\ m * y \in Int
    BY <1>1
  <2>. QED
    BY <1>0, <1>2, <2>1, <2>2
<1>5. -(K * H) <= g /\ g <= K * H
  <2>1. k * x <= k * H /\ k * (-H) <= k * x /\ m * y <= m * H /\ m * (-H) <= m * y
    <3>1. -H \in Int
      OBVIOUS
    <3>. QED
      BY <1>1, <1>3, <3>1, ProductGrows
  <2>2. k * (-H) = -(k * H) /\ m * (-H) = -(m * H) /\ k * H + m * H = K * H
    BY <1>1
  <2>3. k * x \in Int /\ m * y \in Int /\ k * H \in Int /\ m * H \in Int /\ K * H \in Int
    BY <1>1
  <2>. QED
    BY <1>0, <2>1, <2>2, <2>3
<1>. QED
  BY <1>4, <1>5 DEF Drifts

\* A part of a short vector is short.
LEMMA PartIsShort ==
    ASSUME NEW v \in Int, NEW w \in Int, NEW B \in Int, NEW n \in Int, NEW K \in Int,
           0 <= n, n <= K, v * v + w * w <= B * B
    PROVE  (n * v) * (n * v) + (n * w) * (n * w) <= (K * B) * (K * B)
<1> DEFINE f == v * v + w * w
<1>1. f \in Int /\ f <= B * B /\ f >= 0
  OBVIOUS
<1>2. (n * v) * (n * v) + (n * w) * (n * w) = (n * n) * f
  OBVIOUS
<1> HIDE DEF f
<1>3. n * n <= K * K /\ n * n \in Int /\ K * K \in Int /\ K * K >= 0 /\ B * B \in Int
  BY SquareGrows
<1>4. (n * n) * f <= (K * K) * f /\ (K * K) * f <= (K * K) * (B * B)
  BY <1>1, <1>3, ProductGrows
<1>5. (K * K) * (B * B) = (K * B) * (K * B)
  OBVIOUS
<1>6. (n * n) * f \in Int /\ (K * K) * f \in Int /\ (K * K) * (B * B) \in Int
  BY <1>1
<1>. QED
  BY <1>2, <1>4, <1>5, <1>6

\* A point from which a short segment meets an edge is near to the edge, even if
\* the edge is known only up to h.
LEMMA MeetIsNear ==
    ASSUME NEW U \in Nat \ {0}, NEW h \in Nat, NEW limit \in Nat, 2 * h <= limit,
           NEW p \in Int \X Int, NEW q \in Int \X Int, NEW a \in Int \X Int, NEW c \in Int \X Int,
           NEW z \in Int \X Int, NEW b \in Int \X Int, NEW d \in Int \X Int,
           q[1] = U * z[1], q[2] = U * z[2],
           \A k \in {1, 2} : /\ -(h * U) <= U * b[k] - a[k] /\ U * b[k] - a[k] <= h * U
                             /\ -(h * U) <= U * d[k] - c[k] /\ U * d[k] - c[k] <= h * U,
           (q[1] - p[1]) * (q[1] - p[1]) + (q[2] - p[2]) * (q[2] - p[2])
               <= (U * (limit - 2 * h)) * (U * (limit - 2 * h)),
           Meet(p, q, a, c)
    PROVE  NearSegment(z, b, d, limit)
<1>0. PICK K \in Nat \ {0} : \E m, n \in 0..K :
              /\ K * (q[1] - a[1]) = m * (c[1] - a[1]) + n * (q[1] - p[1])
              /\ K * (q[2] - a[2]) = m * (c[2] - a[2]) + n * (q[2] - p[2])
  BY MeetIn
<1>1. PICK m \in 0..K, n \in 0..K :
              /\ K * (q[1] - a[1]) = m * (c[1] - a[1]) + n * (q[1] - p[1])
              /\ K * (q[2] - a[2]) = m * (c[2] - a[2]) + n * (q[2] - p[2])
  BY <1>0
<1> DEFINE e(k) == n * (q[k] - p[k])
           g(k) == -((K - m) * (U * b[k] - a[k])) - m * (U * d[k] - c[k])
           M == K * U
           X == K * (U * (limit - 2 * h))
           Y == 2 * (M * h)
<1>2. ASSUME NEW k \in {1, 2}
      PROVE  /\ p[k] \in Int /\ q[k] \in Int /\ a[k] \in Int /\ b[k] \in Int /\ c[k] \in Int
             /\ d[k] \in Int /\ z[k] \in Int /\ q[k] = U * z[k]
             /\ K * (q[k] - a[k]) = m * (c[k] - a[k]) + n * (q[k] - p[k])
             /\ U * b[k] - a[k] \in (-(h * U))..(h * U) /\ U * d[k] - c[k] \in (-(h * U))..(h * U)
  BY <1>1
<1>3. ASSUME NEW k \in {1, 2}
      PROVE  /\ M * (z[k] - b[k]) = (m * U) * (d[k] - b[k]) + (e(k) + g(k))
             /\ e(k) \in Int /\ g(k) \in Int /\ -(M * h) <= g(k) /\ g(k) <= M * h
  <2>1. e(k) \in Int /\ g(k) \in Int
    BY <1>2
  <2>2. M * h = K * (h * U) /\ h * U \in Int /\ -(h * U) <= U * b[k] - a[k] /\ U * b[k] - a[k] <= h * U
        /\ -(h * U) <= U * d[k] - c[k] /\ U * d[k] - c[k] <= h * U
    BY <1>2
  <2>3. /\ (K * U) * (z[k] - b[k]) = (m * U) * (d[k] - b[k]) + (n * (U * z[k] - p[k]) + g(k))
        /\ -(K * (h * U)) <= g(k) /\ g(k) <= K * (h * U)
    <3> DEFINE H == h * U
               v == z[k]
               r == p[k]
               i == a[k]
               j == b[k]
               s == c[k]
               t == d[k]
    <3>1. v \in Int /\ r \in Int /\ i \in Int /\ j \in Int /\ s \in Int /\ t \in Int /\ H \in Int
      BY <1>2
    <3>2. K * (U * v - i) = m * (s - i) + n * (U * v - r)
      BY <1>2
    <3>3. -H <= U * j - i /\ U * j - i <= H /\ -H <= U * t - s /\ U * t - s <= H
      BY <2>2
    <3>4. U \in Int /\ K \in Int /\ m \in Int /\ n \in Int /\ 0 <= m /\ m <= K
      OBVIOUS
    <3>5. g(k) = -((K - m) * (U * j - i)) - m * (U * t - s)
      OBVIOUS
    <3> HIDE DEF H, v, r, i, j, s, t, g
    <3>6. /\ (K * U) * (v - j) = (m * U) * (t - j) + (n * (U * v - r) + g(k))
          /\ -(K * H) <= g(k) /\ g(k) <= K * H
      <4> DEFINE G == g(k)
      <4>1. G \in Int /\ G = -((K - m) * (U * j - i)) - m * (U * t - s)
        BY <2>1, <3>5
      <4> HIDE DEF G
      <4>2. Drifts(U, K, m, n, H, v, r, j, t, G)
        BY <3>1, <3>2, <3>3, <3>4, <4>1, Drift
      <4>. QED
        BY <4>2 DEF G, Drifts
    <3>. QED
      BY <3>6 DEF H, v, r, i, j, s, t
  <2>4. n * (U * z[k] - p[k]) = e(k)
    BY <1>2
  <2> HIDE DEF e, g
  <2>. QED
    BY <2>1, <2>2, <2>3, <2>4
<1>4. M \in Nat \ {0} /\ m * U \in 0..M /\ X \in Nat /\ Y \in Nat /\ X + Y = M * limit
  <2>1. K \in Int /\ U \in Int /\ K > 0 /\ U > 0 /\ m \in Int /\ 0 <= m /\ m <= K /\ limit - 2 * h \in Int
        /\ limit - 2 * h >= 0 /\ h \in Int /\ h >= 0
    OBVIOUS
  <2>2. M \in Int /\ M > 0
    BY <2>1, Signs
  <2>3. m * U \in Int /\ 0 <= m * U /\ m * U <= M
    BY <2>1, ProductGrows, NoNegative
  <2>4. X \in Int /\ X >= 0 /\ Y \in Int /\ Y >= 0
    <3>1. U * (limit - 2 * h) \in Int /\ U * (limit - 2 * h) >= 0
      BY <2>1, NoNegative
    <3>2. M * h \in Int /\ M * h >= 0
      BY <2>1, <2>2, NoNegative
    <3>. QED
      BY <2>1, <3>1, <3>2, NoNegative
  <2>5. X + Y = M * limit
    BY <2>1
  <2>. QED
    BY <2>2, <2>3, <2>4, <2>5
<1>5. e(1) * e(1) + e(2) * e(2) <= X * X
  <2> DEFINE v == q[1] - p[1]
             w == q[2] - p[2]
             B == U * (limit - 2 * h)
  <2>1. v \in Int /\ w \in Int /\ B \in Int /\ v * v + w * w <= B * B
    OBVIOUS
  <2>2. n \in Int /\ 0 <= n /\ n <= K /\ K \in Int /\ e(1) = n * v /\ e(2) = n * w /\ X = K * B
    OBVIOUS
  <2> HIDE DEF v, w, B, e, X
  <2>3. (n * v) * (n * v) + (n * w) * (n * w) <= (K * B) * (K * B)
    BY <2>1, <2>2, PartIsShort
  <2>. QED
    BY <2>2, <2>3
<1>6. g(1) * g(1) + g(2) * g(2) <= Y * Y
  <2> DEFINE N == M * h
  <2>1. N \in Int /\ N >= 0 /\ Y = 2 * N
    BY <1>4 , NoNegative
  <2>2. ASSUME NEW k \in {1, 2} PROVE g(k) \in Int /\ g(k) * g(k) \in Int /\ g(k) * g(k) <= N * N
    <3>1. g(k) \in Int /\ -N <= g(k) /\ g(k) <= N
      BY <1>3
    <3> HIDE DEF g, N
    <3>2. CASE g(k) >= 0
      BY <2>1, <3>1, <3>2, SquareGrows
    <3>3. CASE g(k) < 0
      <4>1. -g(k) \in Int /\ 0 <= -g(k) /\ -g(k) <= N
        BY <2>1, <3>1, <3>3
      <4>2. (-g(k)) * (-g(k)) <= N * N
        BY <2>1, <4>1, SquareGrows
      <4>. QED
        BY <3>1, <4>2
    <3>. QED
      BY <3>1, <3>2, <3>3
  <2> HIDE DEF N, g, Y
  <2>3. N * N \in Int /\ N * N >= 0 /\ Y * Y = 4 * (N * N)
    BY <2>1
  <2>. QED
    BY <2>2, <2>3
<1>8. /\ M * (z[1] - b[1]) = (m * U) * (d[1] - b[1]) + (e(1) + g(1))
      /\ M * (z[2] - b[2]) = (m * U) * (d[2] - b[2]) + (e(2) + g(2))
      /\ e(1) \in Int /\ e(2) \in Int /\ g(1) \in Int /\ g(2) \in Int
  BY <1>3
<1> HIDE DEF e, g, M, X, Y
<1>7. (e(1) + g(1)) * (e(1) + g(1)) + (e(2) + g(2)) * (e(2) + g(2)) <= (M * limit) * (M * limit)
  <2>1. (e(1) + g(1)) * (e(1) + g(1)) + (e(2) + g(2)) * (e(2) + g(2)) <= (X + Y) * (X + Y)
    BY <1>4, <1>5, <1>6, <1>8, Triangle
  <2>. QED
    BY <1>4, <2>1
<1> DEFINE j == m * U
           x == e(1) + g(1)
           y == e(2) + g(2)
<1>9. j \in 0..M /\ x \in Int /\ y \in Int
  BY <1>4, <1>8
<1>10. /\ M * (z[1] - b[1]) = j * (d[1] - b[1]) + x
       /\ M * (z[2] - b[2]) = j * (d[2] - b[2]) + y
       /\ x * x + y * y <= (M * limit) * (M * limit)
  BY <1>7, <1>8
<1> HIDE DEF j, x, y
<1>. QED
  BY <1>4, <1>9, <1>10, ShortIsNear

-------------------------------------------------------------------------------
(* Lanes: vehicles that keep to them *)

\* Rounding is off by at most a half, and not at all for whole numbers.
LEMMA RoundIsNear ==
    ASSUME NEW a \in Int, NEW b \in Nat \ {0}
    PROVE  /\ Round(a, b) \in Int
           /\ -b <= 2 * (b * Round(a, b) - a) /\ 2 * (b * Round(a, b) - a) <= b
           /\ a % b = 0 => b * Round(a, b) = a
<1> DEFINE d == a \div b
           r == a % b
<1>1. d \in Int /\ r \in Int /\ 0 <= r /\ r < b /\ a = b * d + r
  OBVIOUS
<1>2. Round(a, b) = IF 2 * r < b \/ (2 * r = b /\ d % 2 = 0) THEN d ELSE d + 1
  BY DEF Round
<1>3. b \in Int /\ b > 0 /\ b * (d + 1) = b * d + b /\ b * d \in Int
  BY <1>1
<1> HIDE DEF d, r
<1>4. CASE 2 * r < b \/ (2 * r = b /\ d % 2 = 0)
  <2>1. Round(a, b) = d /\ 2 * r <= b
    BY <1>1, <1>2, <1>3, <1>4
  <2>2. b * Round(a, b) - a = -r
    BY <1>1, <1>3, <2>1
  <2>3. r = 0 => b * Round(a, b) = a
    BY <1>1, <1>3, <2>1
  <2>. QED
    BY <1>1, <1>3, <2>1, <2>2, <2>3 DEF r
<1>5. CASE ~(2 * r < b \/ (2 * r = b /\ d % 2 = 0))
  <2>1. Round(a, b) = d + 1 /\ 2 * r >= b
    BY <1>1, <1>2, <1>3, <1>5
  <2>2. b * Round(a, b) - a = b - r /\ r # 0
    BY <1>1, <1>3, <2>1
  <2>. QED
    BY <1>1, <1>3, <2>1, <2>2 DEF r
<1>. QED
  BY <1>4, <1>5

\* The pixel of a corner of a lane, and the corner, in tenths of a pixel times
\* Unit, are at most h tenths of a pixel apart in each coordinate.
CornersWithin(h) ==
    \A lane \in Lanes : \A i \in DOMAIN lane.polygon :
        LET n == lane.polygon[i]
        IN  /\ -(h * Unit) <= Unit * Pixel(n)[1] - 10 * MaximumX * n[1]
            /\ Unit * Pixel(n)[1] - 10 * MaximumX * n[1] <= h * Unit
            /\ -(h * Unit) <= Unit * Pixel(n)[2] - 10 * MaximumY * n[2]
            /\ Unit * Pixel(n)[2] - 10 * MaximumY * n[2] <= h * Unit

\* The corners of the lanes are pixels.
CornersOnPixels ==
    \A lane \in Lanes : \A i \in DOMAIN lane.polygon :
        /\ (lane.polygon[i][1] * MaximumX) % Unit = 0
        /\ (lane.polygon[i][2] * MaximumY) % Unit = 0

\* What is known of the constants.
LEMMA PlaneIsWhole ==
    /\ Unit \in Nat \ {0} /\ MaximumX \in Nat \ {0} /\ MaximumY \in Nat \ {0}
    /\ LaneTolerance \in Nat
    /\ \A lane \in Lanes : lane.polygon \in Seq(Int \X Int)
<1>1. MaximumX \in Nat \ {0} /\ MaximumY \in Nat \ {0}
  BY GeometryAssumption DEF MaximumX, MaximumY
<1>. QED
  BY <1>1, GeometryAssumption, RulesAssumption

\* One coordinate of it.
LEMMA CoordinateIsNear ==
    ASSUME NEW U \in Nat \ {0}, NEW m \in Nat, NEW n \in Int
    PROVE  /\ -(5 * U) <= U * (10 * Round(n * m, U)) - 10 * m * n
           /\ U * (10 * Round(n * m, U)) - 10 * m * n <= 5 * U
           /\ (n * m) % U = 0 => U * (10 * Round(n * m, U)) - 10 * m * n = 0
<1> DEFINE a == n * m
           R == Round(a, U)
<1>1. a \in Int
  OBVIOUS
<1>2. 10 * m * n = 10 * a
  OBVIOUS
<1> HIDE DEF a
<1>3. /\ R \in Int
      /\ -U <= 2 * (U * R - a) /\ 2 * (U * R - a) <= U
      /\ a % U = 0 => U * R = a
  BY <1>1, RoundIsNear
<1> HIDE DEF R
<1>4. U * (10 * R) = 10 * (U * R) /\ U * R \in Int
  BY <1>3
<1>5. /\ -(5 * U) <= U * (10 * R) - 10 * a
      /\ U * (10 * R) - 10 * a <= 5 * U
      /\ a % U = 0 => U * (10 * R) - 10 * a = 0
  BY <1>1, <1>3, <1>4
<1>. QED
  BY <1>2, <1>5 DEF R, a

\* The drawing of a lane is as near to it as rounding allows.
LEMMA CornersAreNear ==
    ASSUME ImageWidth > 1, ImageHeight > 1
    PROVE  /\ CornersWithin(5)
           /\ CornersOnPixels => CornersWithin(0)
<1>1. ImageWidth - 1 = MaximumX /\ ImageHeight - 1 = MaximumY
  BY DEF MaximumX, MaximumY
<1>2. ASSUME NEW lane \in Lanes, NEW i \in DOMAIN lane.polygon
      PROVE  LET n == lane.polygon[i]
             IN  /\ n \in Int \X Int
                 /\ Pixel(n) = <<10 * Round(n[1] * MaximumX, Unit), 10 * Round(n[2] * MaximumY, Unit)>>
  BY <1>1, PlaneIsWhole DEF Pixel
<1>3. CornersWithin(5)
  <2> SUFFICES ASSUME NEW lane \in Lanes, NEW i \in DOMAIN lane.polygon
               PROVE  LET n == lane.polygon[i]
                      IN  /\ -(5 * Unit) <= Unit * Pixel(n)[1] - 10 * MaximumX * n[1]
                          /\ Unit * Pixel(n)[1] - 10 * MaximumX * n[1] <= 5 * Unit
                          /\ -(5 * Unit) <= Unit * Pixel(n)[2] - 10 * MaximumY * n[2]
                          /\ Unit * Pixel(n)[2] - 10 * MaximumY * n[2] <= 5 * Unit
    BY DEF CornersWithin
  <2> DEFINE x == lane.polygon[i][1]
             y == lane.polygon[i][2]
             P == Pixel(lane.polygon[i])
  <2>1. x \in Int /\ y \in Int /\ P[1] = 10 * Round(x * MaximumX, Unit) /\ P[2] = 10 * Round(y * MaximumY, Unit)
    BY <1>2
  <2> HIDE DEF x, y, P
  <2>2. /\ -(5 * Unit) <= Unit * P[1] - 10 * MaximumX * x
        /\ Unit * P[1] - 10 * MaximumX * x <= 5 * Unit
    BY <2>1, PlaneIsWhole, CoordinateIsNear
  <2>3. /\ -(5 * Unit) <= Unit * P[2] - 10 * MaximumY * y
        /\ Unit * P[2] - 10 * MaximumY * y <= 5 * Unit
    BY <2>1, PlaneIsWhole, CoordinateIsNear
  <2>. QED
    BY <2>2, <2>3 DEF P, x, y
<1>4. ASSUME CornersOnPixels PROVE CornersWithin(0)
  <2> SUFFICES ASSUME NEW lane \in Lanes, NEW i \in DOMAIN lane.polygon
               PROVE  LET n == lane.polygon[i]
                      IN  /\ -(0 * Unit) <= Unit * Pixel(n)[1] - 10 * MaximumX * n[1]
                          /\ Unit * Pixel(n)[1] - 10 * MaximumX * n[1] <= 0 * Unit
                          /\ -(0 * Unit) <= Unit * Pixel(n)[2] - 10 * MaximumY * n[2]
                          /\ Unit * Pixel(n)[2] - 10 * MaximumY * n[2] <= 0 * Unit
    BY DEF CornersWithin
  <2> DEFINE x == lane.polygon[i][1]
             y == lane.polygon[i][2]
             P == Pixel(lane.polygon[i])
  <2>1. x \in Int /\ y \in Int /\ P[1] = 10 * Round(x * MaximumX, Unit) /\ P[2] = 10 * Round(y * MaximumY, Unit)
    BY <1>2
  <2>2. (x * MaximumX) % Unit = 0 /\ (y * MaximumY) % Unit = 0
    BY <1>4 DEF CornersOnPixels
  <2>3. 0 * Unit = 0 /\ -(0 * Unit) = 0
    BY PlaneIsWhole
  <2> HIDE DEF x, y, P
  <2>4. Unit * P[1] - 10 * MaximumX * x = 0
    BY <2>1, <2>2, PlaneIsWhole, CoordinateIsNear
  <2>5. Unit * P[2] - 10 * MaximumY * y = 0
    BY <2>1, <2>2, PlaneIsWhole, CoordinateIsNear
  <2>. QED
    BY <2>3, <2>4, <2>5 DEF P, x, y
<1>. QED
  BY <1>3, <1>4

\* Moving a number to the border of a range brings it nearer to each number in it.
LEMMA ClampIsNearer ==
    ASSUME NEW n \in Int, NEW high \in Nat, NEW x \in 0..high
    PROVE  /\ Clamp(n, 0, high) \in 0..high
           /\ (Clamp(n, 0, high) - x) * (Clamp(n, 0, high) - x) <= (n - x) * (n - x)
           /\ Clamp(x, 0, high) = x
<1> DEFINE c == Clamp(n, 0, high)
<1>1. c = IF n < 0 THEN 0 ELSE IF n < high THEN n ELSE high
  BY DEF Clamp, Low, High
<1>2. c \in 0..high /\ (n < 0 => c = 0) /\ (n >= high => c = high) /\ (0 <= n /\ n < high => c = n)
  BY <1>1
<1>3. Clamp(x, 0, high) = x
  BY DEF Clamp, Low, High
<1> HIDE DEF c
<1>4. (c - x) * (c - x) <= (n - x) * (n - x)
  <2>1. CASE n < 0
    <3>1. 0 <= x - c /\ x - c <= x - n /\ x - c \in Int /\ x - n \in Int
      BY <1>2, <2>1
    <3>2. (x - c) * (x - c) <= (x - n) * (x - n)
      BY <3>1, SquareGrows
    <3>. QED
      BY <1>2, <3>2
  <2>2. CASE n >= high
    <3>1. 0 <= c - x /\ c - x <= n - x /\ c - x \in Int /\ n - x \in Int
      BY <1>2, <2>2
    <3>. QED
      BY <3>1, SquareGrows
  <2>3. CASE 0 <= n /\ n < high
    BY <1>2, <2>3
  <2>. QED
    BY <2>1, <2>2, <2>3
<1>. QED
  BY <1>2, <1>3, <1>4 DEF c

\* A pixel is nearer to a vehicle than the tolerance less twice what the drawing
\* of the lanes is off.
PixelNear(t, x, y, h) ==
    LET left == 10 * LaneTolerance - 2 * h
    IN  Square(Minus(RoadAnchor(t.box), <<10 * x, 10 * y>>)) <= left * left

\* A pixel in tenths.
LEMMA Tenths ==
    ASSUME NEW m \in Nat, NEW x \in 0..m
    PROVE  10 * m \in Nat /\ 10 * x \in 0..(10 * m)
OBVIOUS

\* A corner, scaled.
LEMMA ScaledCorner ==
    ASSUME NEW k \in Nat, NEW m \in Nat, NEW n \in Int \X Int
    PROVE  <<10 * k * n[1], 10 * m * n[2]>> \in Int \X Int
OBVIOUS

\* A vehicle that has left the lanes, and is not near to one, is away from each of
\* their pixels, by the tolerance less twice what the drawing is off.
LEMMA AwayFromLanes ==
    ASSUME NEW h \in Nat, CornersWithin(h), 2 * h <= 10 * LaneTolerance,
           NEW t, t.box \in Int \X Int \X Int \X Int, LeftLanes(t),
           NEW x \in 0..MaximumX, NEW y \in 0..MaximumY,
           PixelNear(t, x, y, h), NEW lane \in Lanes
    PROVE  ~InPolygon(<<10 * x, 10 * y>>, lane.polygon)
<1> DEFINE z == OnImage(RoadAnchor(t.box))
           s == <<10 * x, 10 * y>>
           p == <<Unit * OnImage(s)[1], Unit * OnImage(s)[2]>>
           q == <<Unit * z[1], Unit * z[2]>>
           drawn == [i \in DOMAIN lane.polygon |-> <<10 * MaximumX * lane.polygon[i][1],
                                                     10 * MaximumY * lane.polygon[i][2]>>]
           limit == 10 * LaneTolerance
           L == limit - 2 * h
<1>1. /\ InPolygon(s, lane.polygon) <=> Inside(p, drawn)
      /\ Contains(lane, t) <=> Inside(q, drawn)
  BY DEF InPolygon, Contains
<1>2. ~Contains(lane, t) /\ ~NearEdge(z, PixelPolygon(lane.polygon), limit)
  BY DEF LeftLanes, NearLane
<1>3. lane.polygon \in Seq(Int \X Int) /\ drawn \in Seq(Int \X Int)
      /\ \A i \in DOMAIN lane.polygon : lane.polygon[i] \in Int \X Int /\ Pixel(lane.polygon[i]) \in Int \X Int
  <2>1. lane.polygon \in Seq(Int \X Int)
    BY PlaneIsWhole
  <2>2. \A i \in DOMAIN lane.polygon : lane.polygon[i] \in Int \X Int
    BY <2>1
  <2>3. \A n \in Int \X Int : Pixel(n) \in Int \X Int
    <3> SUFFICES ASSUME NEW n \in Int \X Int PROVE Pixel(n) \in Int \X Int
      OBVIOUS
    <3>1. n[1] * (ImageWidth - 1) \in Int /\ n[2] * (ImageHeight - 1) \in Int
      BY GeometryAssumption
    <3>2. Round(n[1] * (ImageWidth - 1), Unit) \in Int /\ Round(n[2] * (ImageHeight - 1), Unit) \in Int
      BY <3>1, PlaneIsWhole, RoundIsNear
    <3>. QED
      BY <3>2 DEF Pixel
  <2>4. drawn \in Seq(Int \X Int)
    <3>1. DOMAIN lane.polygon = 1..Len(lane.polygon) /\ Len(lane.polygon) \in Nat
      BY <2>1
    <3>2. \A i \in DOMAIN lane.polygon : <<10 * MaximumX * lane.polygon[i][1],
                                           10 * MaximumY * lane.polygon[i][2]>> \in Int \X Int
      BY <2>2, PlaneIsWhole, ScaledCorner
    <3>. QED
      BY <3>1, <3>2
  <2>. QED
    BY <2>1, <2>2, <2>3, <2>4
<1>4. /\ z \in Int \X Int /\ s \in Int \X Int /\ OnImage(s) = s
      /\ (z[1] - s[1]) * (z[1] - s[1]) + (z[2] - s[2]) * (z[2] - s[2]) <= L * L
  <2> DEFINE u == RoadAnchor(t.box)[1]
             v == RoadAnchor(t.box)[2]
             a == 10 * x
             b == 10 * y
             H == 10 * MaximumX
             V == 10 * MaximumY
  <2>1. u \in Int /\ v \in Int
    BY DEF RoadAnchor
  <2>2. H \in Nat /\ V \in Nat /\ a \in 0..H /\ b \in 0..V
    BY PlaneIsWhole, Tenths
  <2>3. z = <<Clamp(u, 0, H), Clamp(v, 0, V)>> /\ OnImage(s) = <<Clamp(a, 0, H), Clamp(b, 0, V)>>
        /\ s = <<a, b>>
    BY DEF OnImage
  <2>4. (u - a) * (u - a) + (v - b) * (v - b) <= L * L
    BY DEF PixelNear, Square, Dot, Minus
  <2>5. L * L \in Int
    BY PlaneIsWhole
  <2> HIDE DEF u, v, a, b, H, V, z, s, L
  <2>6. /\ Clamp(u, 0, H) \in 0..H /\ Clamp(a, 0, H) = a
        /\ (Clamp(u, 0, H) - a) * (Clamp(u, 0, H) - a) <= (u - a) * (u - a)
    BY <2>1, <2>2, ClampIsNearer
  <2>7. /\ Clamp(v, 0, V) \in 0..V /\ Clamp(b, 0, V) = b
        /\ (Clamp(v, 0, V) - b) * (Clamp(v, 0, V) - b) <= (v - b) * (v - b)
    BY <2>1, <2>2, ClampIsNearer
  <2> DEFINE c == Clamp(u, 0, H)
             d == Clamp(v, 0, V)
  <2>8. c \in Int /\ d \in Int /\ a \in Int /\ b \in Int
    BY <2>2, <2>6, <2>7
  <2>9. z = <<c, d>> /\ OnImage(s) = s /\ s = <<a, b>>
    BY <2>3, <2>6, <2>7
  <2>10. (c - a) * (c - a) <= (u - a) * (u - a) /\ (d - b) * (d - b) <= (v - b) * (v - b)
    BY <2>6, <2>7
  <2> HIDE DEF c, d
  <2>11. (c - a) * (c - a) + (d - b) * (d - b) <= L * L
    <3> DEFINE C == (c - a) * (c - a)
               D == (d - b) * (d - b)
               A == (u - a) * (u - a)
               B == (v - b) * (v - b)
               S == L * L
    <3>1. C \in Int /\ D \in Int /\ A \in Int /\ B \in Int /\ S \in Int
      BY <2>1, <2>5, <2>8
    <3>2. C <= A /\ D <= B /\ A + B <= S
      BY <2>4, <2>10
    <3> HIDE DEF A, B, C, D, S
    <3>3. C + D <= S
      BY <3>1, <3>2
    <3>. QED
      BY <3>3 DEF C, D, S
  <2>. QED
    BY <2>8, <2>9, <2>11
<1>12. /\ p \in Int \X Int /\ q \in Int \X Int
       /\ q[1] = Unit * z[1] /\ q[2] = Unit * z[2] /\ p[1] = Unit * s[1] /\ p[2] = Unit * s[2]
  <2>1. \A v \in Int : Unit * v \in Int
    BY PlaneIsWhole
  <2>2. OnImage(s) = s /\ s[1] \in Int /\ s[2] \in Int /\ z[1] \in Int /\ z[2] \in Int
    BY <1>4
  <2> HIDE DEF s, z
  <2>. QED
    BY <2>1, <2>2
<1>5. SUFFICES ASSUME NEW i \in DOMAIN drawn PROVE ~Meet(p, q, drawn[Before(i, drawn)], drawn[i])
  <2>1. p \in Int \X Int /\ q \in Int \X Int
    BY <1>12
  <2> HIDE DEF p, q, drawn, s
  <2>2. (\A i \in DOMAIN drawn : ~Meet(p, q, drawn[Before(i, drawn)], drawn[i]))
            => (Inside(p, drawn) <=> Inside(q, drawn))
    BY <1>3, <2>1, InsideAlike
  <2>. QED
    BY <1>1, <1>2, <2>2 DEF s
<1> DEFINE j == Before(i, lane.polygon)
           m == lane.polygon[j]
           n == lane.polygon[i]
<1>6. /\ i \in DOMAIN lane.polygon /\ j \in DOMAIN lane.polygon /\ Before(i, drawn) = j
      /\ m \in Int \X Int /\ n \in Int \X Int
      /\ drawn[j] = <<10 * MaximumX * m[1], 10 * MaximumY * m[2]>>
      /\ drawn[i] = <<10 * MaximumX * n[1], 10 * MaximumY * n[2]>>
  <2>1. DOMAIN drawn = DOMAIN lane.polygon /\ DOMAIN lane.polygon = 1..Len(lane.polygon) /\ Len(lane.polygon) \in Nat
    <3> DEFINE polygon == lane.polygon
    <3>1. polygon \in Seq(Int \X Int)
      BY <1>3
    <3> HIDE DEF polygon
    <3>2. DOMAIN polygon = 1..Len(polygon) /\ Len(polygon) \in Nat
      BY <3>1
    <3>. QED
      BY <3>2 DEF polygon
  <2>2. Len(drawn) = Len(lane.polygon)
    BY <1>3, <2>1
  <2>3. i \in DOMAIN lane.polygon /\ j \in DOMAIN lane.polygon /\ Before(i, drawn) = j
    BY <2>1, <2>2 DEF Before
  <2>. QED
    BY <1>3, <2>3
<1>7. ~NearSegment(z, Pixel(m), Pixel(n), limit)
  BY <1>2, <1>6 DEF NearEdge, PixelPolygon, Before
<1>8. SUFFICES ASSUME Meet(p, q, drawn[j], drawn[i]) PROVE FALSE
  BY <1>6
<1> DEFINE a == drawn[j]
           c == drawn[i]
           b == Pixel(m)
           d == Pixel(n)
<1>9. /\ a \in Int \X Int /\ c \in Int \X Int /\ z \in Int \X Int
      /\ b \in Int \X Int /\ d \in Int \X Int /\ Meet(p, q, a, c)
      /\ limit \in Nat /\ 2 * h <= limit /\ Unit \in Nat \ {0}
  <2>1. a \in Int \X Int /\ c \in Int \X Int
    BY <1>6, PlaneIsWhole, ScaledCorner
  <2>2. limit \in Nat /\ 2 * h <= limit /\ Unit \in Nat \ {0}
    BY PlaneIsWhole
  <2>3. b \in Int \X Int /\ d \in Int \X Int
    BY <1>3, <1>6
  <2>. QED
    BY <1>4, <1>8, <2>1, <2>2, <2>3
<1>10. \A k \in {1, 2} : /\ -(h * Unit) <= Unit * b[k] - a[k] /\ Unit * b[k] - a[k] <= h * Unit
                         /\ -(h * Unit) <= Unit * d[k] - c[k] /\ Unit * d[k] - c[k] <= h * Unit
  <2>1. a[1] = 10 * MaximumX * m[1] /\ a[2] = 10 * MaximumY * m[2]
        /\ c[1] = 10 * MaximumX * n[1] /\ c[2] = 10 * MaximumY * n[2]
    BY <1>6
  <2>2. /\ -(h * Unit) <= Unit * b[1] - 10 * MaximumX * m[1]
        /\ Unit * b[1] - 10 * MaximumX * m[1] <= h * Unit
        /\ -(h * Unit) <= Unit * b[2] - 10 * MaximumY * m[2]
        /\ Unit * b[2] - 10 * MaximumY * m[2] <= h * Unit
    BY <1>6 DEF CornersWithin
  <2>3. /\ -(h * Unit) <= Unit * d[1] - 10 * MaximumX * n[1]
        /\ Unit * d[1] - 10 * MaximumX * n[1] <= h * Unit
        /\ -(h * Unit) <= Unit * d[2] - 10 * MaximumY * n[2]
        /\ Unit * d[2] - 10 * MaximumY * n[2] <= h * Unit
    BY <1>6 DEF CornersWithin
  <2> HIDE DEF a, b, c, d, m, n
  <2>. QED
    BY <2>1, <2>2, <2>3
<1>11. (q[1] - p[1]) * (q[1] - p[1]) + (q[2] - p[2]) * (q[2] - p[2])
           <= (Unit * (limit - 2 * h)) * (Unit * (limit - 2 * h))
  <2> DEFINE v == z[1] - s[1]
             w == z[2] - s[2]
  <2>1. v \in Int /\ w \in Int /\ L \in Int /\ 0 <= Unit /\ Unit \in Int
        /\ v * v + w * w <= L * L
    BY <1>4, <1>9
  <2>2. q[1] - p[1] = Unit * v /\ q[2] - p[2] = Unit * w
    <3>1. z[1] \in Int /\ z[2] \in Int /\ s[1] \in Int /\ s[2] \in Int
      BY <1>4
    <3> HIDE DEF q, p, z, s
    <3>. QED
      BY <1>12, <2>1, <3>1
  <2> DEFINE K == Unit
  <2>3. K \in Int /\ 0 <= K
    BY <2>1
  <2> HIDE DEF v, w, L, q, p, K
  <2>4. (K * v) * (K * v) + (K * w) * (K * w) <= (K * L) * (K * L)
    BY <2>1, <2>3, PartIsShort
  <2>. QED
    BY <2>2, <2>4 DEF L, K
<1> HIDE DEF a, b, c, d, p, q, z, limit
<1>13. NearSegment(z, b, d, limit)
  BY <1>9, <1>10, <1>11, <1>12, MeetIsNear
<1>. QED
  BY <1>7, <1>13 DEF b, d

\* The tracks are those of a frame.
TracksOfFrame == tracks = {} \/ \E f \in JunctionFrames : tracks = f.tracks

\* It stays so.
LEMMA FramesAreShown ==
    RedLightSpec => []TracksOfFrame
<1>1. RedLightInit => TracksOfFrame
  BY DEF RedLightInit, TracksOfFrame
<1>2. TracksOfFrame /\ [RedLightNext]_redLightVars => TracksOfFrame'
  BY DEF TracksOfFrame, RedLightNext, WatchStopLines, ForgetVehicles, redLightVars
<1>. QED
  BY <1>1, <1>2, PTL DEF RedLightSpec

\* No pixel of a lane is within the tolerance, less 2 * h tenths of a pixel, of a
\* vehicle that has left the lanes.
SparedBut(h) ==
    \A t \in tracks : t.id \in OffLane(tracks) =>
        \A x \in 0..MaximumX, y \in 0..MaximumY :
            PixelNear(t, x, y, h) => \A lane \in Lanes : ~InPolygon(<<10 * x, 10 * y>>, lane.polygon)

\* Vehicles are spared as exactly as the lanes are drawn.
LEMMA SparedAsDrawn ==
    ASSUME NEW h \in Nat, CornersWithin(h), 2 * h <= 10 * LaneTolerance, TracksOfFrame
    PROVE  SparedBut(h)
<1> SUFFICES ASSUME NEW t \in tracks, t.id \in OffLane(tracks), NEW x \in 0..MaximumX, NEW y \in 0..MaximumY,
                    PixelNear(t, x, y, h), NEW lane \in Lanes
             PROVE  ~InPolygon(<<10 * x, 10 * y>>, lane.polygon)
  BY DEF SparedBut
<1>1. PICK s \in tracks : s.id = t.id /\ LeftLanes(s)
  BY DEF OffLane
<1>2. s = t /\ t.box \in Int \X Int \X Int \X Int
  BY <1>1, RedLightAssumption DEF TracksOfFrame
<1>. QED
  BY <1>1, <1>2, AwayFromLanes

\* Whatever the lanes, the vehicles and the tolerance are: if the corners of the
\* lanes are pixels, no vehicle within the tolerance of a lane is taken to have
\* left the lanes, be it inside of one or outside, on the image or beyond it.
THEOREM LaneKeepersAreSpared ==
    ASSUME ImageWidth > 1, ImageHeight > 1, CornersOnPixels
    PROVE  RedLightSpec => []LaneKeepersSpared
<1>1. CornersWithin(0) /\ 2 * 0 <= 10 * LaneTolerance
  BY CornersAreNear, PlaneIsWhole
<1>2. TracksOfFrame => SparedBut(0)
  BY <1>1, SparedAsDrawn
<1>3. TracksOfFrame /\ SparedBut(0) => LaneKeepersSpared
  <2> SUFFICES ASSUME TracksOfFrame, SparedBut(0), NEW t \in tracks, t.id \in OffLane(tracks),
                      NEW x \in 0..MaximumX, NEW y \in 0..MaximumY,
                      Square(Minus(RoadAnchor(t.box), <<10 * x, 10 * y>>)) < 100 * LaneTolerance * LaneTolerance
               PROVE  PixelNear(t, x, y, 0)
    BY DEF SparedBut, LaneKeepersSpared
  <2> DEFINE far == Square(Minus(RoadAnchor(t.box), <<10 * x, 10 * y>>))
             T == LaneTolerance
  <2>1. t.box \in Int \X Int \X Int \X Int
    BY RedLightAssumption DEF TracksOfFrame
  <2>2. far \in Int
    BY <2>1 DEF Square, Dot, Minus, RoadAnchor
  <2>3. T \in Nat /\ far < 100 * T * T
    BY PlaneIsWhole
  <2>4. PixelNear(t, x, y, 0) <=> far <= (10 * T - 2 * 0) * (10 * T - 2 * 0)
    BY DEF PixelNear
  <2> HIDE DEF far, T
  <2>. QED
    BY <2>2, <2>3, <2>4
<1>. QED
  BY <1>2, <1>3, FramesAreShown, PTL

\* For any lanes, that holds of the tolerance less one pixel: the detector draws
\* the borders of a lane through whole pixels, half a pixel off at most, and asks
\* the exact lane whether a vehicle is in it.
THEOREM LaneKeepersNearlySpared ==
    ASSUME ImageWidth > 1, ImageHeight > 1, LaneTolerance >= 1
    PROVE  RedLightSpec => []SparedBut(5)
<1>1. CornersWithin(5) /\ 2 * 5 <= 10 * LaneTolerance
  BY CornersAreNear, PlaneIsWhole
<1>2. TracksOfFrame => SparedBut(5)
  BY <1>1, SparedAsDrawn
<1>. QED
  BY <1>2, FramesAreShown, PTL

\* In the pipeline, too.
THEOREM PipelineSparesLaneKeepers ==
    ASSUME ImageWidth > 1, ImageHeight > 1
    PROVE  /\ CornersOnPixels => (PipelineSpec => []LaneKeepersSpared)
           /\ LaneTolerance >= 1 => (PipelineSpec => []SparedBut(5))
BY PipelineComposed, LaneKeepersAreSpared, LaneKeepersNearlySpared

-------------------------------------------------------------------------------
(* Evidence images *)

\* The last image is the one that was stored last.
LastIsLast == /\ lastEvidence = 0 <=> evidence = {}
              /\ evidence # {} => lastEvidence \in evidence
              /\ \A g \in evidence : g <= lastEvidence

EvidenceInv == EvidenceTypeOK /\ LastIsLast /\ EvidenceRule

\* The images before a frame can be counted.
LEMMA ImagesFinite ==
    ASSUME EvidenceTypeOK
    PROVE  /\ videoFrame \in Nat
           /\ IsFiniteSet(evidence) /\ Cardinality(evidence) \in Nat
           /\ evidence \subseteq Nat
<1>1. videoFrame \in Nat /\ MaxVideoFrames \in Nat
  BY EvidenceAssumption DEF EvidenceTypeOK
<1>2. IsFiniteSet(1..videoFrame)
  BY <1>1, FS_Interval
<1>3. evidence \in SUBSET (1..videoFrame)
  BY DEF EvidenceTypeOK
<1>4. IsFiniteSet(evidence)
  BY ONLY <1>2, <1>3, FS_Subset
<1>5. Cardinality(evidence) \in Nat
  BY <1>4, FS_CardinalityType
<1>. QED
  BY <1>1, <1>3, <1>4, <1>5

\* The cooldown counts from the last image.
LEMMA CooldownFromLast ==
    ASSUME EvidenceTypeOK, LastIsLast, NEW f \in Nat, f = videoFrame + 1
    PROVE  Cool(f) <=> (lastEvidence # 0 => f - lastEvidence >= Cooldown)
<1>1. /\ videoFrame \in Nat /\ lastEvidence \in Nat /\ Cooldown \in Nat
      /\ \A g \in evidence : g \in Nat /\ g < f
  BY ImagesFinite, EvidenceAssumption DEF EvidenceTypeOK
<1>2. CASE lastEvidence = 0
  BY <1>2 DEF LastIsLast, Cool
<1>3. CASE lastEvidence # 0
  <2>1. lastEvidence \in evidence /\ \A g \in evidence : g <= lastEvidence
    BY <1>3 DEF LastIsLast
  <2>2. (f - lastEvidence >= Cooldown) <=> (lastEvidence + Cooldown <= f)
    BY <1>1
  <2>3. ASSUME lastEvidence + Cooldown <= f, NEW g \in evidence
        PROVE  g + Cooldown <= f
    BY <1>1, <2>1, <2>3
  <2>. QED
    BY <1>1, <1>3, <2>1, <2>2, <2>3 DEF Cool
<1>. QED
  BY <1>2, <1>3

\* The limit is reached when no more images may be stored.
LEMMA FullAtLimit ==
    ASSUME EvidenceTypeOK
    PROVE  Full <=> ~(Cardinality({g \in evidence : g < videoFrame + 1}) < MaxEvidence)
<1>1. videoFrame \in Nat /\ \A g \in evidence : g \in Nat /\ g < videoFrame + 1
  BY ImagesFinite DEF EvidenceTypeOK
<1>2. {g \in evidence : g < videoFrame + 1} = evidence
  BY <1>1
<1>3. Cardinality(evidence) \in Nat /\ MaxEvidence \in Nat
  BY ImagesFinite, EvidenceAssumption
<1>4. Full <=> ~(Cardinality(evidence) < MaxEvidence)
  BY <1>3 DEF Full
<1>. QED
  BY <1>2, <1>4, Zenon

\* Later images change nothing for the frames before.
LEMMA EarlierImagesStay ==
    ASSUME EvidenceTypeOK, evidence' \in {evidence, evidence \cup {videoFrame + 1}},
           NEW g \in 1..(videoFrame + 1)
    PROVE  /\ {h \in evidence' : h < g} = {h \in evidence : h < g}
           /\ Cool(g)' = Cool(g)
<1>1. videoFrame \in Nat /\ evidence \subseteq Nat
  BY ImagesFinite
<1>2. \A h : h \in evidence' /\ h < g <=> h \in evidence /\ h < g
  BY <1>1
<1>. QED
  BY <1>1, <1>2 DEF Cool

\* The next frame.
LEMMA WriteFrameStep ==
    ASSUME EvidenceInv, NEW starts \in BOOLEAN, NEW confident \in BOOLEAN, WriteFrame(starts, confident)
    PROVE  EvidenceInv'
<1> DEFINE f == videoFrame + 1
<1> DEFINE stored == Analyzed(f) /\ ~Full /\ Worth(f, starts, confident)
<1>0. EvidenceTypeOK /\ LastIsLast /\ EvidenceRule
  BY DEF EvidenceInv
<1>1. /\ videoFrame \in Nat /\ videoFrame < MaxVideoFrames /\ MaxVideoFrames \in Nat
      /\ videoFrame' = f /\ f \in 1..MaxVideoFrames /\ f \notin 1..videoFrame
      /\ 1..videoFrame \subseteq 1..f /\ f \in 1..f /\ 1..f = (1..videoFrame) \cup {f}
      /\ evidence \subseteq 1..videoFrame /\ startedIn \subseteq 1..videoFrame
      /\ confidentIn \subseteq 1..videoFrame /\ lastEvidence \in 0..videoFrame
  BY <1>0, ImagesFinite, EvidenceAssumption DEF WriteFrame, EvidenceTypeOK
<1>2. /\ evidence' = IF stored THEN evidence \cup {f} ELSE evidence
      /\ lastEvidence' = IF stored THEN f ELSE lastEvidence
      /\ startedIn' = IF Analyzed(f) /\ starts THEN startedIn \cup {f} ELSE startedIn
      /\ confidentIn' = IF Analyzed(f) /\ confident THEN confidentIn \cup {f} ELSE confidentIn
  BY DEF WriteFrame, Store
<1>7. Full <=> ~(Cardinality({h \in evidence : h < f}) < MaxEvidence)
  BY <1>0, FullAtLimit
<1> HIDE DEF f, stored
<1>3. EvidenceTypeOK'
  <2>1. analyzedFrames' \in Nat /\ previewFrames' \in Nat
    BY <1>0 DEF WriteFrame, EvidenceTypeOK
  <2>2. /\ evidence' \subseteq 1..f /\ startedIn' \subseteq 1..f /\ confidentIn' \subseteq 1..f
    BY <1>1, <1>2
  <2>3. lastEvidence' \in 0..f /\ videoFrame' \in 0..MaxVideoFrames
    BY <1>1, <1>2
  <2>. QED
    BY <1>1, <2>1, <2>2, <2>3 DEF EvidenceTypeOK
<1>4. LastIsLast'
  <2>1. CASE stored
    BY <1>1, <1>2, <2>1 DEF LastIsLast
  <2>2. CASE ~stored
    BY <1>0, <1>2, <2>2 DEF LastIsLast
  <2>. QED
    BY <2>1, <2>2
<1>5. ASSUME NEW g \in 1..f
      PROVE  g \in evidence' <=> /\ Cardinality({h \in evidence' : h < g}) < MaxEvidence
                                 /\ g \in startedIn' \/ (g \in confidentIn' /\ Cool(g)')
  <2>1. /\ {h \in evidence' : h < g} = {h \in evidence : h < g}
        /\ Cool(g)' = Cool(g)
    BY <1>0, <1>2, EarlierImagesStay DEF f
  <2>2. CASE g \in 1..videoFrame
    <3>1. /\ g \in evidence' <=> g \in evidence
          /\ g \in startedIn' <=> g \in startedIn
          /\ g \in confidentIn' <=> g \in confidentIn
      BY <1>1, <1>2, <2>2
    <3>. QED
      BY <1>0, <2>1, <2>2, <3>1 DEF EvidenceRule
  <2>3. CASE g = f
    <3>1. /\ g \in evidence' <=> stored
          /\ g \in startedIn' <=> Analyzed(f) /\ starts
          /\ g \in confidentIn' <=> Analyzed(f) /\ confident
      BY <1>1, <1>2, <2>3
    <3>2. Cool(g) <=> (lastEvidence # 0 => g - lastEvidence >= Cooldown)
      BY <1>0, <1>1, <2>3, CooldownFromLast DEF f
    <3>3. Full <=> ~(Cardinality({h \in evidence : h < f}) < MaxEvidence)
      BY <1>7
    <3>. QED
      BY <2>1, <2>3, <3>1, <3>2, <3>3 DEF stored, Worth
  <2>. QED
    BY <1>1, <2>2, <2>3
<1>6. EvidenceRule'
  BY <1>1, <1>5 DEF EvidenceRule
<1>. QED
  BY <1>3, <1>4, <1>6 DEF EvidenceInv

\* A new writer has no images.
LEMMA FreshWriter ==
    /\ EvidenceInit => EvidenceInv
    /\ NewWriter => EvidenceInv'
<1>1. MaxVideoFrames \in Nat
  BY EvidenceAssumption
<1>. QED
  BY <1>1 DEF EvidenceInit, NewWriter, EvidenceInv, EvidenceTypeOK, LastIsLast, EvidenceRule

\* The images of a video are those of the first frames that deserve one, for any
\* limit, cooldown and stride.
THEOREM ImagesFollowRule == PipelineSpec => []EvidenceRule
<1>1. PipelineInit => EvidenceInv
  BY FreshWriter DEF PipelineInit
<1>2. EvidenceInv /\ [PipelineNext]_pipelineVars => EvidenceInv'
  <2> SUFFICES ASSUME EvidenceInv, [PipelineNext]_pipelineVars PROVE EvidenceInv'
    OBVIOUS
  <2>1. ASSUME NEW p \in Parts, Start(p) PROVE EvidenceInv'
    BY <2>1, FreshWriter DEF Start
  <2>2. ASSUME OutputFrame PROVE EvidenceInv'
    BY <2>2, WriteFrameStep DEF OutputFrame
  <2>3. ASSUME UNCHANGED evidenceVars PROVE EvidenceInv'
    BY <2>3 DEF evidenceVars, EvidenceInv, EvidenceTypeOK, LastIsLast, EvidenceRule, Cool
  <2>4. TrackerFrame \/ RidersFrame \/ LightsFrame \/ JunctionFrame \/ ViolationsFrame \/ Finish
            => UNCHANGED evidenceVars
    BY DEF TrackerFrame, RidersFrame, LightsFrame, JunctionFrame, ViolationsFrame, Finish
  <2>5. UNCHANGED pipelineVars => UNCHANGED evidenceVars
    BY DEF pipelineVars
  <2>. QED
    BY <2>1, <2>2, <2>3, <2>4, <2>5 DEF PipelineNext
<1>3. EvidenceInv => EvidenceRule
  BY DEF EvidenceInv
<1>. QED
  BY <1>1, <1>2, <1>3, PTL DEF PipelineSpec

-------------------------------------------------------------------------------
(* Tracks *)

\* Detections that the order in the frame tells apart.
Ordered(D) == /\ IsFiniteSet(D)
              /\ \A d \in D : d.index \in Int
              /\ \A d, e \in D : d.index = e.index => d = e

\* New tracks have ids of their own, the next ones that are free.
LEMMA NumberedOnce ==
    ASSUME NEW D, Ordered(D), nextTrack \in Nat
    PROVE  /\ Cardinality(Numbered(D)) \in Nat
           /\ \A d \in D : \E p \in Numbered(D) : p[2] = d
           /\ \A p \in Numbered(D) : /\ p[2] \in D /\ p[1] \in Nat
                                     /\ nextTrack <= p[1] /\ p[1] < nextTrack + Cardinality(Numbered(D))
           /\ \A p, q \in Numbered(D) : p[1] = q[1] \/ p[2] = q[2] => p = q
<1> DEFINE Ahead(d) == {e \in D : e.index < d.index}
<1> DEFINE number == [d \in D |-> <<nextTrack + Cardinality(Ahead(d)), d>>]
<1>1. ASSUME NEW d \in D
      PROVE  /\ IsFiniteSet(Ahead(d)) /\ Cardinality(Ahead(d)) \in Nat
             /\ Cardinality(Ahead(d)) < Cardinality(D)
  <2>1. Ahead(d) \in SUBSET D /\ Ahead(d) # D
    BY DEF Ordered
  <2>2. IsFiniteSet(D)
    BY DEF Ordered
  <2>3. /\ IsFiniteSet(Ahead(d)) /\ Cardinality(Ahead(d)) <= Cardinality(D)
        /\ Cardinality(D) = Cardinality(Ahead(d)) => D = Ahead(d)
    BY ONLY <2>1, <2>2, FS_Subset
  <2>4. Cardinality(Ahead(d)) \in Nat /\ Cardinality(D) \in Nat
    BY ONLY <2>2, <2>3, FS_CardinalityType
  <2>. QED
    BY <2>1, <2>3, <2>4
<1>2. ASSUME NEW d \in D, NEW e \in D, d.index < e.index
      PROVE  Cardinality(Ahead(d)) < Cardinality(Ahead(e))
  <2>1. Ahead(d) \in SUBSET Ahead(e) /\ d \in Ahead(e) /\ d \notin Ahead(d)
    BY <1>2 DEF Ordered
  <2>2. /\ Cardinality(Ahead(d)) <= Cardinality(Ahead(e))
        /\ Cardinality(Ahead(e)) = Cardinality(Ahead(d)) => Ahead(e) = Ahead(d)
    BY ONLY <1>1, <2>1, FS_Subset
  <2>. QED
    BY <1>1, <2>1, <2>2
<1> HIDE DEF Ahead
<1>3. ASSUME NEW d \in D, NEW e \in D, Cardinality(Ahead(d)) = Cardinality(Ahead(e))
      PROVE  d = e
  <2>1. d.index \in Int /\ e.index \in Int /\ (d.index = e.index => d = e)
    BY DEF Ordered
  <2>. QED
    BY <1>1, <1>2, <1>3, <2>1
<1>4. Numbered(D) = {<<nextTrack + Cardinality(Ahead(d)), d>> : d \in D}
  BY DEF Numbered, Ahead
<1>5. IsFiniteSet(D) /\ Cardinality(D) \in Nat
  BY FS_CardinalityType DEF Ordered
<1>6. Cardinality(Numbered(D)) = Cardinality(D)
  <2>1. number \in Bijection(D, Numbered(D))
    <3>1. number \in [D -> Numbered(D)]
      BY <1>4
    <3>2. \A d, e \in D : number[d] = number[e] => d = e
      OBVIOUS
    <3>3. \A p \in Numbered(D) : \E d \in D : number[d] = p
      BY <1>4
    <3> HIDE DEF number
    <3>4. number \in Injection(D, Numbered(D))
      BY ONLY <3>1, <3>2 DEF Injection, IsInjective
    <3>5. number \in Surjection(D, Numbered(D))
      BY ONLY <3>1, <3>3 DEF Surjection
    <3>. QED
      BY ONLY <3>4, <3>5 DEF Bijection
  <2>. QED
    BY <1>5, <2>1, FS_Bijection DEF ExistsBijection
<1>7. ASSUME NEW p \in Numbered(D)
      PROVE  /\ p[2] \in D /\ p = <<nextTrack + Cardinality(Ahead(p[2])), p[2]>>
             /\ p[1] = nextTrack + Cardinality(Ahead(p[2]))
             /\ p[1] \in Nat /\ nextTrack <= p[1] /\ p[1] < nextTrack + Cardinality(Numbered(D))
  <2>1. PICK d \in D : p = <<nextTrack + Cardinality(Ahead(d)), d>>
    BY <1>4
  <2>2. /\ Cardinality(Ahead(d)) \in Nat /\ Cardinality(Ahead(d)) < Cardinality(Numbered(D))
        /\ Cardinality(Numbered(D)) \in Nat
    BY <1>1, <1>5, <1>6
  <2>. QED
    BY <2>1, <2>2
<1>8. ASSUME NEW p \in Numbered(D), NEW q \in Numbered(D), p[1] = q[1] \/ p[2] = q[2]
      PROVE  p = q
  <2>1. /\ p[2] \in D /\ q[2] \in D
        /\ Cardinality(Ahead(p[2])) \in Nat /\ Cardinality(Ahead(q[2])) \in Nat
    BY <1>1, <1>7
  <2>2. p[1] = q[1] => Cardinality(Ahead(p[2])) = Cardinality(Ahead(q[2]))
    BY <1>7, <2>1
  <2>3. p[2] = q[2]
    BY <1>3, <1>8, <2>1, <2>2
  <2>. QED
    BY <1>7, <2>3
<1>9. ASSUME NEW d \in D PROVE \E p \in Numbered(D) : p[2] = d
  <2>1. <<nextTrack + Cardinality(Ahead(d)), d>> \in Numbered(D)
    BY <1>4
  <2>. QED
    BY <2>1
<1>. QED
  BY <1>5, <1>6, <1>7, <1>8, <1>9

\* A round of matches gives each track and each detection at most one other.
LEMMA MatchesMatch ==
    ASSUME NEW ids, NEW D, NEW estimate, NEW minimum, NEW A \in MatchesOf(ids, D, estimate, minimum)
    PROVE  /\ \A p \in A : p[1] \in ids /\ p[2] \in D /\ classOf[p[1]] = p[2].class
           /\ \A p, q \in A : p[1] = q[1] \/ p[2] = q[2] => p = q
<1> DEFINE pairs == {p \in ids \X D : Fits(p[1], p[2], estimate, minimum)}
<1>1. A \in Matchings(pairs)
  BY DEF MatchesOf, Assignments
<1>2. A \subseteq pairs /\ \A p, q \in A : p[1] = q[1] \/ p[2] = q[2] => p = q
  BY <1>1 DEF Matchings
<1>. QED
  BY <1>2 DEF Fits

\* The types, and the ids that were given.
TracksOK == /\ trackerFrame \in TrackerFrames
            /\ nextTrack \in Nat
            /\ live \subseteq TrackIds
            /\ \A t \in live : t < nextTrack
            /\ hits \in [TrackIds -> Nat]
            /\ misses \in [TrackIds -> Nat]
            /\ sure \subseteq live
            /\ DOMAIN seenIn = TrackIds
            /\ \A t \in TrackIds \ live : seenIn[t] = {}

\* What a track counts.
TracksCount ==
    \A t \in live :
        /\ seenIn[t] \subseteq 1..trackerFrame
        /\ hits[t] = Cardinality(seenIn[t])
        /\ misses[t] <= MaxMisses
        /\ trackerFrame - misses[t] \in seenIn[t]
        /\ \A f \in seenIn[t] : f <= trackerFrame - misses[t]
        /\ t \in {p[1] : p \in shows} <=> trackerFrame \in seenIn[t]
        /\ t \in sure <=> hits[t] >= MinimumHits
        /\ \A f, g \in seenIn[t] :
              f < g /\ (\A n \in (f + 1)..(g - 1) : n \notin seenIn[t]) => g - f <= MaxMisses + 1

TrackerInv == TracksOK /\ TracksCount /\ OneIdentity

\* One frame, with any matches in its two rounds.
LEMMA TakeStep ==
    ASSUME TrackerInv, NEW detections \in Shots, NEW estimate,
           NEW primary \in MatchesOf(live, Certain(detections), estimate, PrimaryIoU),
           NEW secondary \in MatchesOf(LeftOver(primary), Faint(detections), estimate, SecondaryIoU),
           Take(detections, primary, secondary)
    PROVE  TrackerInv'
<1> DEFINE new     == Numbered(Begins(detections, primary))
           newIds  == {p[1] : p \in new}
           matched == {p[1] : p \in primary \cup secondary}
           over    == Ended(matched)
           stay    == (live \cup newIds) \ over
           f       == trackerFrame + 1
           hit(t)  == IF t \in newIds THEN 1 ELSE IF t \in matched THEN hits[t] + 1 ELSE hits[t]
<1>0. TracksOK /\ TracksCount /\ OneIdentity
  BY DEF TrackerInv
<1>1. /\ f <= MaxTrackerFrames /\ newIds \subseteq TrackIds
      /\ trackerFrame' = f
      /\ nextTrack' = nextTrack + Cardinality(new)
      /\ live' = stay
      /\ classOf' = [t \in TrackIds |->
              IF t \in newIds THEN (CHOOSE p \in new : p[1] = t)[2].class
              ELSE IF t \in stay THEN classOf[t] ELSE NoClass]
      /\ hits' = [t \in TrackIds |-> IF t \in stay THEN hit(t) ELSE 0]
      /\ misses' = [t \in TrackIds |-> IF t \in (stay \ matched) \ newIds THEN misses[t] + 1 ELSE 0]
      /\ sure' = (sure \cup {t \in matched \cup newIds : hit(t) >= MinimumHits}) \cap stay
      /\ shot' = detections
      /\ shows' = primary \cup secondary \cup new
      /\ created' = newIds
      /\ seenIn' = [t \in TrackIds |-> IF t \in matched \cup newIds THEN seenIn[t] \cup {f}
                                       ELSE IF t \in stay THEN seenIn[t] ELSE {}]
  BY DEF Take
\* The detections of the frame and their three parts.
<1>2. /\ \A d \in detections : d.confidence \in Int
      /\ Ordered(detections)
      /\ LowConfidence \in Int /\ HighConfidence \in Int /\ LowConfidence <= HighConfidence
  <2>1. /\ IsFiniteSet(detections)
        /\ \A d \in detections : d.index \in Int /\ d.confidence \in Int
        /\ \A d, e \in detections : d.index = e.index => d = e
    BY TrackerAssumption
  <2>2. Ordered(detections)
    BY <2>1 DEF Ordered
  <2>. QED
    BY <2>1, <2>2, TrackerAssumption
<1>3. /\ \A d \in Certain(detections) : d \in detections /\ d \notin Faint(detections)
                                        /\ d.confidence >= LowConfidence
      /\ \A d \in Faint(detections) : d \in detections /\ d.confidence >= LowConfidence
  BY <1>2 DEF Certain, Faint
<1>4. /\ \A p \in primary : p[1] \in live /\ p[2] \in Certain(detections) /\ classOf[p[1]] = p[2].class
      /\ \A p, q \in primary : p[1] = q[1] \/ p[2] = q[2] => p = q
  BY MatchesMatch
<1>5. /\ \A p \in secondary : /\ p[1] \in LeftOver(primary) /\ p[2] \in Faint(detections)
                              /\ classOf[p[1]] = p[2].class
      /\ \A p, q \in secondary : p[1] = q[1] \/ p[2] = q[2] => p = q
  BY MatchesMatch
<1>6. /\ Begins(detections, primary) \subseteq Certain(detections)
      /\ \A d \in Certain(detections) : d \in Begins(detections, primary) \/ \E p \in primary : p[2] = d
      /\ \A p \in primary : p[2] \notin Begins(detections, primary)
  BY DEF Begins
<1>7. nextTrack \in Nat /\ Ordered(Begins(detections, primary))
  <2>1. Begins(detections, primary) \in SUBSET detections
    BY <1>3, <1>6
  <2>2. IsFiniteSet(Begins(detections, primary))
    BY <1>2, <2>1, FS_Subset DEF Ordered
  <2>. QED
    BY <1>0, <1>2, <2>1, <2>2 DEF Ordered, TracksOK
<1>8. /\ Cardinality(new) \in Nat
      /\ \A d \in Begins(detections, primary) : \E p \in new : p[2] = d
      /\ \A p \in new : /\ p[2] \in Begins(detections, primary) /\ p[1] \in Nat
                        /\ nextTrack <= p[1] /\ p[1] < nextTrack + Cardinality(new)
      /\ \A p, q \in new : p[1] = q[1] \/ p[2] = q[2] => p = q
  BY <1>7, NumberedOnce
<1> HIDE DEF new
<1>9. /\ \A t \in live : t \in Nat /\ t < nextTrack /\ t \notin newIds
      /\ matched \subseteq live /\ over \subseteq live \ matched /\ matched \subseteq stay /\ newIds \subseteq stay
      /\ stay \subseteq TrackIds
  <2>1. \A t \in live : t \in Nat /\ t < nextTrack
    BY <1>0, TrackerAssumption DEF TracksOK, TrackIds
  <2>2. \A t \in newIds : t \in Nat /\ nextTrack <= t
    BY <1>8
  <2>3. \A t \in live : t \notin newIds
    BY <1>7, <2>1, <2>2
  <2>4. matched \subseteq live
    BY <1>4, <1>5 DEF LeftOver
  <2>5. over \subseteq live \ matched
    BY DEF Ended
  <2>6. live \subseteq TrackIds
    BY <1>0 DEF TracksOK
  <2>. QED
    BY <1>1, <2>1, <2>3, <2>4, <2>5, <2>6
<1>10. \A t : t \in {p[1] : p \in shows'} <=> t \in matched \cup newIds
  BY <1>1
<1> HIDE DEF newIds, matched, over, stay, f, hit
<1>11. \A t \in TrackIds :
           /\ t \in newIds => hit(t) = 1
           /\ t \in matched => hit(t) = hits[t] + 1 /\ t \in live
           /\ t \notin newIds \cup matched => hit(t) = hits[t]
           /\ hits[t] \in Nat /\ hit(t) \in Nat
  BY <1>0, <1>9 DEF TracksOK, hit
<1>12. /\ trackerFrame \in Nat /\ f = trackerFrame + 1 /\ f \in TrackerFrames
       /\ MaxMisses \in Nat /\ MinimumHits \in Nat \ {0}
  BY <1>0, <1>1, TrackerAssumption DEF TracksOK, TrackerFrames, f
<1>13. TracksOK'
  <2>1. /\ trackerFrame' \in TrackerFrames /\ nextTrack' \in Nat /\ live' \subseteq TrackIds
        /\ DOMAIN seenIn' = TrackIds /\ sure' \subseteq live'
    BY <1>1, <1>7, <1>8, <1>9, <1>12
  <2>2. ASSUME NEW t \in live' PROVE t < nextTrack'
    <3>1. CASE t \in live
      BY <1>1, <1>7, <1>8, <1>9, <3>1
    <3>2. CASE t \in newIds
      BY <1>1, <1>8, <3>2 DEF newIds
    <3>. QED
      BY <1>1, <2>2, <3>1, <3>2 DEF stay
  <2>3. hits' \in [TrackIds -> Nat] /\ misses' \in [TrackIds -> Nat]
    <3>1. misses \in [TrackIds -> Nat]
      BY <1>0 DEF TracksOK
    <3>. QED
      BY <1>1, <1>11, <3>1
  <2>4. \A t \in TrackIds \ live' : seenIn'[t] = {}
    BY <1>1, <1>9
  <2>. QED
    BY <2>1, <2>2, <2>3, <2>4 DEF TracksOK
<1>14. ASSUME NEW t \in live'
       PROVE  /\ seenIn'[t] \subseteq 1..f
              /\ hits'[t] = Cardinality(seenIn'[t])
              /\ misses'[t] <= MaxMisses
              /\ f - misses'[t] \in seenIn'[t]
              /\ \A n \in seenIn'[t] : n <= f - misses'[t]
              /\ t \in matched \cup newIds <=> f \in seenIn'[t]
              /\ t \in sure' <=> hits'[t] >= MinimumHits
              /\ \A m, g \in seenIn'[t] :
                    m < g /\ (\A n \in (m + 1)..(g - 1) : n \notin seenIn'[t]) => g - m <= MaxMisses + 1
  <2>0. /\ t \in TrackIds /\ t \in stay /\ misses[t] \in Nat /\ sure \subseteq live
        /\ \A u \in TrackIds \ live : seenIn[u] = {}
    BY <1>0, <1>1, <1>9, <1>14 DEF TracksOK
  <2>1. CASE t \in newIds
    <3>1. t \notin live /\ seenIn'[t] = {f} /\ misses'[t] = 0 /\ hits'[t] = 1
      BY <1>1, <1>9, <1>11, <2>0, <2>1
    <3>2. Cardinality(seenIn'[t]) = 1
      BY <3>1, FS_Singleton
    <3>3. t \in sure' <=> 1 >= MinimumHits
      BY <1>1, <1>11, <2>0, <2>1, <3>1
    <3>. QED
      BY <1>12, <2>1, <3>1, <3>2, <3>3
  <2>2. CASE t \in live
    <3>1. /\ seenIn[t] \subseteq 1..trackerFrame
          /\ hits[t] = Cardinality(seenIn[t])
          /\ misses[t] <= MaxMisses
          /\ trackerFrame - misses[t] \in seenIn[t]
          /\ \A n \in seenIn[t] : n <= trackerFrame - misses[t]
          /\ t \in sure <=> hits[t] >= MinimumHits
          /\ \A m, g \in seenIn[t] :
                m < g /\ (\A n \in (m + 1)..(g - 1) : n \notin seenIn[t]) => g - m <= MaxMisses + 1
      BY <1>0, <2>2 DEF TracksCount
    <3>2. t \notin newIds /\ f \notin seenIn[t] /\ \A n \in seenIn[t] : n \in Nat /\ n < f /\ n \in 1..f
      BY <1>9, <1>12, <2>2, <3>1
    <3>3. CASE t \in matched
      <4>1. seenIn'[t] = seenIn[t] \cup {f} /\ misses'[t] = 0 /\ hits'[t] = hits[t] + 1
        BY <1>1, <1>11, <2>0, <3>2, <3>3
      <4>2. Cardinality(seenIn'[t]) = Cardinality(seenIn[t]) + 1
        <5>1. IsFiniteSet(1..trackerFrame)
          BY <1>12, FS_Interval
        <5>2. IsFiniteSet(seenIn[t])
          BY ONLY <3>1, <5>1, FS_Subset
        <5>. QED
          BY ONLY <3>2, <4>1, <5>2, FS_AddElement
      <4>3. t \in sure' <=> hits[t] + 1 >= MinimumHits
        BY <1>1, <1>11, <1>12, <2>0, <3>1, <3>3
      <4>4. f \in 1..f /\ f - 0 = f
        BY <1>12
      <4>5. ASSUME NEW m \in seenIn'[t], NEW g \in seenIn'[t], m < g,
                   \A n \in (m + 1)..(g - 1) : n \notin seenIn'[t]
            PROVE  g - m <= MaxMisses + 1
        <5>1. m \in seenIn[t] /\ m \in Nat
          BY <1>12, <3>2, <4>1, <4>5
        <5>2. CASE g \in seenIn[t]
          BY <3>1, <4>1, <4>5, <5>1, <5>2
        <5>3. CASE g = f
          <6>1. ~(trackerFrame - misses[t] \in (m + 1)..(f - 1))
            BY <3>1, <4>1, <4>5, <5>3
          <6>2. m = trackerFrame - misses[t]
            BY <1>12, <2>0, <3>1, <3>2, <5>1, <6>1
          <6>. QED
            BY <1>12, <2>0, <3>1, <5>3, <6>2
        <5>. QED
          BY <4>1, <5>2, <5>3
      <4>. QED
        BY <1>12, <3>1, <3>2, <3>3, <4>1, <4>2, <4>3, <4>4, <4>5
    <3>4. CASE t \notin matched
      <4>1. misses[t] + 1 <= MaxMisses
        <5>1. t \notin Ended(matched)
          BY <2>0 DEF stay, over
        <5>. QED
          BY <1>12, <2>0, <2>2, <3>4, <5>1 DEF Ended
      <4>2. seenIn'[t] = seenIn[t] /\ misses'[t] = misses[t] + 1 /\ hits'[t] = hits[t]
        BY <1>1, <1>11, <2>0, <3>2, <3>4
      <4>3. f - (misses[t] + 1) = trackerFrame - misses[t]
        BY <1>12, <2>0
      <4>4. t \in sure' <=> t \in sure
        BY <1>1, <2>0, <3>2, <3>4
      <4>. QED
        BY <3>1, <3>2, <3>4, <4>1, <4>2, <4>3, <4>4
    <3>. QED
      BY <3>3, <3>4
  <2>. QED
    BY <2>0, <2>1, <2>2 DEF stay
<1>15. TracksCount'
  BY <1>1, <1>10, <1>14 DEF TracksCount
<1>16. OneIdentity'
  <2>1. /\ \A p \in primary \cup secondary : p[1] \in matched
        /\ \A p \in new : p[1] \in newIds
        /\ \A t \in newIds : \E p \in new : p[1] = t
    BY DEF matched, newIds
  <2>2. \A d \in Certain(detections) : \E p \in shows' : p[2] = d
    BY <1>1, <1>6, <1>8
  <2>3. ASSUME NEW p \in shows', NEW q \in shows', p[1] = q[1] \/ p[2] = q[2]
        PROVE  p = q
    <3>1. \A a \in primary, b \in secondary : a[1] # b[1] /\ a[2] # b[2]
      BY <1>3, <1>4, <1>5 DEF LeftOver
    <3>2. \A a \in primary \cup secondary, b \in new : a[1] # b[1]
      BY <1>9, <2>1
    <3>3. \A a \in primary \cup secondary, b \in new : a[2] # b[2]
      BY <1>3, <1>5, <1>6, <1>8
    <3>. QED
      BY <1>1, <1>4, <1>5, <1>8, <2>3, <3>1, <3>2, <3>3
  <2>4. ASSUME NEW p \in shows'
        PROVE  /\ p[2].confidence >= LowConfidence
               /\ p[1] \in live' /\ classOf'[p[1]] = p[2].class
               /\ p[1] \in created' => p[2] \in Certain(detections)
    <3>1. CASE p \in new
      <4>1. p[1] \in newIds /\ p[1] \in live' /\ p[1] \in TrackIds
        BY <1>1, <1>9, <2>1, <3>1
      <4>2. (CHOOSE q \in new : q[1] = p[1]) = p
        BY <1>8, <3>1
      <4>3. classOf'[p[1]] = p[2].class
        BY <1>1, <4>1, <4>2
      <4>. QED
        BY <1>3, <1>6, <1>8, <3>1, <4>1, <4>3
    <3>2. CASE p \in primary \cup secondary
      <4>1. p[1] \in matched /\ p[1] \in stay /\ p[1] \in TrackIds /\ p[1] \notin newIds
        BY <1>9, <2>1, <3>2
      <4>2. classOf'[p[1]] = p[2].class
        BY <1>1, <1>4, <1>5, <3>2, <4>1
      <4>. QED
        BY <1>1, <1>3, <1>4, <1>5, <3>2, <4>1, <4>2
    <3>. QED
      BY <1>1, <3>1, <3>2
  <2>5. Certain(detections)' = Certain(detections)
    BY DEF Certain
  <2>. QED
    BY <1>1, <2>2, <2>3, <2>4 DEF OneIdentity, Certain
<1>. QED
  BY <1>13, <1>15, <1>16 DEF TrackerInv

\* A tracker without tracks.
LEMMA FreshTracker ==
    /\ TrackerInit => TrackerInv
    /\ ForgetTracks => TrackerInv'
<1>1. MaxTracks \in Nat /\ MaxTrackerFrames \in Nat
  BY TrackerAssumption
<1>2. TrackerInit => TrackerInv
  <2> SUFFICES ASSUME TrackerInit PROVE TrackerInv
    OBVIOUS
  <2>1. TracksOK
    BY <1>1 DEF TrackerInit, TracksOK, TrackerFrames, TrackIds
  <2>2. TracksCount
    BY DEF TrackerInit, TracksCount
  <2>3. OneIdentity
    BY DEF TrackerInit, OneIdentity, Certain
  <2>. QED
    BY <2>1, <2>2, <2>3 DEF TrackerInv
<1>3. ForgetTracks => TrackerInv'
  <2> SUFFICES ASSUME ForgetTracks PROVE TrackerInv'
    OBVIOUS
  <2>1. TracksOK'
    BY <1>1 DEF ForgetTracks, TracksOK, TrackerFrames, TrackIds
  <2>2. TracksCount'
    BY DEF ForgetTracks, TracksCount
  <2>3. OneIdentity'
    BY DEF ForgetTracks, OneIdentity, Certain
  <2>. QED
    BY <2>1, <2>2, <2>3 DEF TrackerInv
<1>. QED
  BY <1>2, <1>3

\* Every reachable state of the tracker is counted rightly.
LEMMA TrackerInvHolds == PipelineSpec => []TrackerInv
<1>1. PipelineInit => TrackerInv
  BY FreshTracker DEF PipelineInit
<1>2. TrackerInv /\ [PipelineNext]_pipelineVars => TrackerInv'
  <2> SUFFICES ASSUME TrackerInv, [PipelineNext]_pipelineVars PROVE TrackerInv'
    OBVIOUS
  <2>1. ASSUME NEW p \in Parts, Start(p) PROVE TrackerInv'
    BY <2>1, FreshTracker DEF Start
  <2>2. ASSUME TrackerFrame PROVE TrackerInv'
    BY <2>2, TakeStep DEF TrackerFrame, TrackFrame
  <2>3. ASSUME UNCHANGED trackerVars PROVE TrackerInv'
    BY <2>3 DEF trackerVars, trackerState, TrackerInv, TracksOK, TracksCount, OneIdentity, Certain
  <2>4. OutputFrame \/ RidersFrame \/ LightsFrame \/ JunctionFrame \/ ViolationsFrame \/ Finish
            => UNCHANGED trackerVars
    BY DEF OutputFrame, RidersFrame, LightsFrame, JunctionFrame, ViolationsFrame, Finish
  <2>5. UNCHANGED pipelineVars => UNCHANGED trackerVars
    BY DEF pipelineVars
  <2>. QED
    BY <2>1, <2>2, <2>3, <2>4, <2>5 DEF PipelineNext
<1>. QED
  BY <1>1, <1>2, PTL DEF PipelineSpec

\* In every frame, tracks and detections are given to each other at most once,
\* and no confident detection is left without a track, whatever the solver of
\* the assignment and the filter choose.
THEOREM IdentitiesAreUnique == PipelineSpec => []OneIdentity
BY TrackerInvHolds, PTL DEF TrackerInv

\* For any limits, tracks live and are confirmed by the frames that showed them.
THEOREM TracksAreAsDetected == PipelineSpec => []TrackedAsDetected
<1>1. TrackerInv => TrackedAsDetected
  <2> SUFFICES ASSUME TrackerInv, NEW t \in live
               PROVE  /\ t < nextTrack
                      /\ \E f \in seenIn[t] : trackerFrame - f <= MaxMisses
                      /\ (t \in {p[1] : p \in shows}) <=> trackerFrame \in seenIn[t]
                      /\ t \in sure <=> Cardinality(seenIn[t]) >= MinimumHits
                      /\ \A f, g \in seenIn[t] :
                            f < g /\ (\A n \in (f + 1)..(g - 1) : n \notin seenIn[t])
                                => g - f <= MaxMisses + 1
    BY DEF TrackedAsDetected
  <2>1. t < nextTrack /\ trackerFrame \in Nat /\ misses[t] \in Nat
    BY TrackerAssumption DEF TrackerInv, TracksOK, TrackerFrames
  <2>2. /\ hits[t] = Cardinality(seenIn[t])
        /\ misses[t] <= MaxMisses
        /\ trackerFrame - misses[t] \in seenIn[t]
        /\ t \in {p[1] : p \in shows} <=> trackerFrame \in seenIn[t]
        /\ t \in sure <=> hits[t] >= MinimumHits
        /\ \A f, g \in seenIn[t] :
              f < g /\ (\A n \in (f + 1)..(g - 1) : n \notin seenIn[t]) => g - f <= MaxMisses + 1
    BY DEF TrackerInv, TracksCount
  <2>3. \E f \in seenIn[t] : trackerFrame - f <= MaxMisses
    <3>1. trackerFrame - (trackerFrame - misses[t]) <= MaxMisses
      BY <2>1, <2>2
    <3>. QED
      BY <2>2, <3>1
  <2>. QED
    BY <2>1, <2>2, <2>3
<1>. QED
  BY <1>1, TrackerInvHolds, PTL

===============================================================================
