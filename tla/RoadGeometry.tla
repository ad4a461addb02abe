----------------------------- MODULE RoadGeometry -----------------------------
(***************************************************************************)
(* The plane geometry that the rules of the road are written in, in exact  *)
(* arithmetic.                                                             *)
(*                                                                         *)
(* A scene is drawn in normalized coordinates: Unit stands for the width   *)
(* and for the height of the image.  Boxes are in pixels.  A road anchor   *)
(* is in tenths of a pixel, so that no formula of the code is rounded that *)
(* the code does not round; distances and cosines are compared as squares. *)
(***************************************************************************)
EXTENDS Integers, Sequences

CONSTANTS ImageWidth, ImageHeight,   \* in pixels
          Unit                       \* of the normalized coordinates

ASSUME GeometryAssumption == /\ ImageWidth \in Nat \ {0}
                             /\ ImageHeight \in Nat \ {0}
                             /\ Unit \in Nat \ {0}

MaximumX == IF ImageWidth > 1 THEN ImageWidth - 1 ELSE 1
MaximumY == IF ImageHeight > 1 THEN ImageHeight - 1 ELSE 1

Low(a, b)  == IF a < b THEN a ELSE b
High(a, b) == IF a < b THEN b ELSE a
Clamp(n, low, high) == Low(High(n, low), high)

\* round of Python: to the nearest integer, ties to the even one.
Round(a, b) == LET q == a \div b
                   r == a % b
               IN  IF 2 * r < b \/ (2 * r = b /\ q % 2 = 0) THEN q ELSE q + 1

-------------------------------------------------------------------------------
(* Vectors and segments *)

Minus(p, q) == <<p[1] - q[1], p[2] - q[2]>>
Dot(u, v)   == u[1] * v[1] + u[2] * v[2]
Cross(u, v) == u[1] * v[2] - u[2] * v[1]
Square(v)   == Dot(v, v)

\* n / d lies between 0 and 1.
Fraction(n, d) == IF d > 0 THEN 0 <= n /\ n <= d ELSE d <= n /\ n <= 0

\* The parameters of the crossing point on both segments lie on them; parallel
\* segments do not intersect.
SegmentsIntersect(p, q, a, b) ==
    LET u == Minus(q, p)
        v == Minus(b, a)
        o == Minus(a, p)
        d == Cross(u, v)
    IN  d # 0 /\ Fraction(Cross(o, v), d) /\ Fraction(Cross(o, u), d)

\* The cosine of the angle between u and v is at least c hundredths, c >= 0; it
\* counts as 0 for a vector that vanishes.
CosineAtLeast(u, v, c) ==
    IF Square(u) * Square(v) = 0 THEN c = 0
    ELSE Dot(u, v) >= 0 /\ 10000 * Dot(u, v) * Dot(u, v) >= c * c * Square(u) * Square(v)

\* The same is at most c hundredths below zero, c > 0.
CosineAtMost(u, v, c) ==
    Dot(u, v) < 0 /\ 10000 * Dot(u, v) * Dot(u, v) >= c * c * Square(u) * Square(v)

\* p is at most limit away from the segment from a to b.
NearSegment(p, a, b, limit) ==
    LET s == Minus(b, a)
        along == Dot(Minus(p, a), s)
    IN  IF along <= 0 THEN Square(Minus(p, a)) <= limit * limit
        ELSE IF along >= Square(s) THEN Square(Minus(p, b)) <= limit * limit
        ELSE Cross(Minus(p, a), s) * Cross(Minus(p, a), s) <= limit * limit * Square(s)

\* The square root of a / b, in percent rounded down; at most limit.
Root(a, b, limit) ==
    CHOOSE r \in 0..limit : /\ r * r * b <= 10000 * a
                            /\ r = limit \/ (r + 1) * (r + 1) * b > 10000 * a

\* The length of u against that of v, in percent.
Ratio(u, v, limit) == Root(Square(u), Square(v), limit)

-------------------------------------------------------------------------------
(* Polygons: sequences of corners *)

Before(i, polygon) == IF i = 1 THEN Len(polygon) ELSE i - 1

NearEdge(p, polygon, limit) ==
    \E i \in DOMAIN polygon : NearSegment(p, polygon[Before(i, polygon)], polygon[i], limit)

\* The edge that ends at corner i crosses the height of p, to the right of it.
EdgeOnTheRight(p, polygon, i) ==
    LET c == polygon[i]
        e == Minus(polygon[Before(i, polygon)], c)
        d == Minus(p, c)
    IN  /\ (c[2] > p[2]) # (polygon[Before(i, polygon)][2] > p[2])
        /\ IF e[2] > 0 THEN d[1] * e[2] < e[1] * d[2] ELSE d[1] * e[2] > e[1] * d[2]

\* p lies inside if an odd number of edges does.
Inside(p, polygon) ==
    LET parity[i \in 0..Len(polygon)] ==
            IF i = 0 THEN FALSE ELSE parity[i - 1] # EdgeOnTheRight(p, polygon, i)
    IN  parity[Len(polygon)]

-------------------------------------------------------------------------------
(* Coordinates *)

\* The pixel of a normalized point, in tenths.
Pixel(n) == <<10 * Round(n[1] * (ImageWidth - 1), Unit),
              10 * Round(n[2] * (ImageHeight - 1), Unit)>>

PixelPolygon(polygon) == [i \in DOMAIN polygon |-> Pixel(polygon[i])]

PixelLine(line) == <<Pixel(line[1]), Pixel(line[2])>>

\* A direction of the scene, stretched as the image is.
Stretched(direction) == <<direction[1] * MaximumX, direction[2] * MaximumY>>

\* Boxes are <<x1, y1, x2, y2>>: the anchor is nine tenths down the middle.
RoadAnchor(box) == <<5 * (box[1] + box[3]), 10 * box[2] + 9 * (box[4] - box[2])>>

\* The anchor as a point of the scene is moved to the border of the image if it
\* lies outside.  Both are scaled to tenths of a pixel times Unit.
OnImage(anchor) == <<Clamp(anchor[1], 0, 10 * MaximumX), Clamp(anchor[2], 0, 10 * MaximumY)>>

InPolygon(anchor, polygon) ==
    Inside(<<Unit * OnImage(anchor)[1], Unit * OnImage(anchor)[2]>>,
           [i \in DOMAIN polygon |-> <<10 * MaximumX * polygon[i][1],
                                       10 * MaximumY * polygon[i][2]>>])

Width(box)  == box[3] - box[1]
Height(box) == box[4] - box[2]

Area(box) == High(Width(box), 0) * High(Height(box), 0)

Common(a, b) == <<High(a[1], b[1]), High(a[2], b[2]), Low(a[3], b[3]), Low(a[4], b[4])>>

\* Intersection over union, in percent rounded down.
IoU(a, b) == LET union == Area(a) + Area(b) - Area(Common(a, b))
             IN  IF union <= 0 THEN 0 ELSE (100 * Area(Common(a, b))) \div union

===============================================================================
