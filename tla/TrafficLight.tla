----------------------------- MODULE TrafficLight -----------------------------
(***************************************************************************)
(* The state of the traffic lights of a scene.  A frame is classified by   *)
(* the colour of the pixels of a light's region; the stabilizer replaces   *)
(* the stable state of a light only when a colour was seen in              *)
(* ConfirmationOfColor frames in a row, or none in more than               *)
(* MaximumUnknown frames in a row.  Confidences are in percent, rounded    *)
(* down.                                                                   *)
(***************************************************************************)
EXTENDS Integers, FiniteSets

CONSTANTS Regions,              \* of the traffic lights
          Patches,              \* what a region may look like
          MinimumSaturation,
          MinimumValue,
          MinimumActive,        \* percent of the pixels of a region
          Dominance,            \* percent: the winner against the second
          ConfirmationOfColor,  \* TRAFFIC_LIGHT_CONFIRMATION_FRAMES
          MaximumUnknown,       \* TRAFFIC_LIGHT_MAX_UNKNOWN_FRAMES
          Alpha,                \* percent: weight of the last confidence
          MaxLightFrames        \* bound: analysed frames of a video

ASSUME LightAssumption == /\ ConfirmationOfColor \in Nat \ {0}
                          /\ MaximumUnknown \in Nat
                          /\ Alpha \in 1..100
                          /\ MinimumActive \in 1..100
                          /\ Dominance \in Nat /\ Dominance >= 100
                          /\ MaxLightFrames \in Nat

VARIABLES lightFrame,       \* number of analysed frames
          stable,           \* stable_state
          confidence,       \* stable_confidence
          candidate,        \* candidate_state
          candidateConf,    \* candidate_confidence
          inARow,           \* consecutive_candidate_frames
          unknownFrames,
          shown             \* history: what each light showed in which frame

lightState == <<stable, confidence, candidate, candidateConf, inARow, unknownFrames>>
lightVars  == <<lightFrame, lightState, shown>>

Colors == {"red", "yellow", "green"}
States == Colors \cup {"unknown"}
LightFrames == 0..MaxLightFrames

Observations == [state : States, confidence : 0..100]
Unknown == [state |-> "unknown", confidence |-> 0]

LightTypeOK == /\ lightFrame \in LightFrames
               /\ stable \in [Regions -> States]
               /\ confidence \in [Regions -> 0..100]
               /\ candidate \in [Regions -> States]
               /\ candidateConf \in [Regions -> 0..100]
               /\ inARow \in [Regions -> Nat]
               /\ unknownFrames \in [Regions -> Nat]
               /\ shown \in [Regions -> [LightFrames -> Observations]]

\* A state begins UNKNOWN with the first frame of the video, in which every
\* region of the scene is observed.
LightInit == /\ lightFrame = 0
             /\ stable = [r \in Regions |-> "unknown"]
             /\ confidence = [r \in Regions |-> 0]
             /\ candidate = [r \in Regions |-> "unknown"]
             /\ candidateConf = [r \in Regions |-> 0]
             /\ inARow = [r \in Regions |-> 0]
             /\ unknownFrames = [r \in Regions |-> 0]
             /\ shown = [r \in Regions |-> [f \in LightFrames |-> Unknown]]

-------------------------------------------------------------------------------
(* One region in one frame: the pixels inside it, <<hue, saturation, value>> *)

HueOf(color, hue) == \/ color = "red" /\ (hue <= 10 \/ hue >= 170)
                     \/ color = "yellow" /\ hue >= 15 /\ hue < 40
                     \/ color = "green" /\ hue >= 40 /\ hue <= 95

Pixels(color, patch) ==
    Cardinality({i \in DOMAIN patch : /\ patch[i][2] >= MinimumSaturation
                                      /\ patch[i][3] >= MinimumValue
                                      /\ HueOf(color, patch[i][1])})

\* The colour has the highest score, the first of them if several have it, is
\* visible and dominates the second.
Wins(color, patch) ==
    /\ 100 * Pixels(color, patch) >= MinimumActive * Cardinality(DOMAIN patch)
    /\ \A other \in Colors \ {color} :
          /\ Pixels(color, patch) >= Pixels(other, patch)
          /\ Pixels(other, patch) > 0 => 100 * Pixels(color, patch) >= Dominance * Pixels(other, patch)
          /\ Pixels(other, patch) = Pixels(color, patch) =>
                color = "red" \/ (color = "yellow" /\ other = "green")

Share(color, patch) ==
    (100 * Pixels(color, patch))
        \div (Pixels("red", patch) + Pixels("yellow", patch) + Pixels("green", patch))

Classify(patch) ==
    IF DOMAIN patch = {} \/ \A c \in Colors : ~Wins(c, patch) THEN Unknown
    ELSE LET winner == CHOOSE c \in Colors : Wins(c, patch)
         IN  [state |-> winner, confidence |-> Share(winner, patch)]

Readings == {Classify(patch) : patch \in Patches}

-------------------------------------------------------------------------------
(* The stabilizer *)

Blend(previous, current) == (Alpha * current + (100 - Alpha) * previous) \div 100

\* How often in a row the candidate was seen, this frame included.
Row(r, o) == IF o.state \in {"unknown", stable[r]} THEN 0
             ELSE IF o.state = candidate[r] THEN inARow[r] + 1
             ELSE 1

RowConfidence(r, o) == IF o.state = candidate[r] THEN Blend(candidateConf[r], o.confidence)
                       ELSE o.confidence

Confirms(r, o) == o.state # "unknown" /\ Row(r, o) >= ConfirmationOfColor

\* Mutant: the light goes out one frame early.
GoesOutEarly(r, o) == o.state = "unknown" /\ unknownFrames[r] + 1 >= MaximumUnknown

GoesOut(r, o) == o.state = "unknown" /\ unknownFrames[r] + 1 > MaximumUnknown

\* An unknown frame, or one that shows the stable state, clears the candidate;
\* so does a confirmation.
Pending(r, o) == Row(r, o) > 0 /\ ~Confirms(r, o)

Stabilize(seen) ==
    /\ lightFrame < MaxLightFrames
    /\ lightFrame' = lightFrame + 1
    /\ stable' = [r \in Regions |-> IF Confirms(r, seen[r]) THEN seen[r].state
                                    ELSE IF GoesOut(r, seen[r]) THEN "unknown"
                                    ELSE stable[r]]
    /\ confidence' = [r \in Regions |->
          IF Confirms(r, seen[r]) THEN RowConfidence(r, seen[r])
          ELSE IF GoesOut(r, seen[r]) THEN 0
          ELSE IF seen[r].state = stable[r] /\ stable[r] # "unknown"
               THEN Blend(confidence[r], seen[r].confidence)
          ELSE confidence[r]]
    /\ candidate' = [r \in Regions |-> IF Pending(r, seen[r]) THEN seen[r].state ELSE "unknown"]
    /\ candidateConf' = [r \in Regions |-> IF Pending(r, seen[r]) THEN RowConfidence(r, seen[r]) ELSE 0]
    /\ inARow' = [r \in Regions |-> IF Pending(r, seen[r]) THEN Row(r, seen[r]) ELSE 0]
    /\ unknownFrames' = [r \in Regions |-> IF seen[r].state = "unknown" THEN unknownFrames[r] + 1 ELSE 0]
    /\ shown' = [r \in Regions |-> [shown[r] EXCEPT ![lightFrame + 1] = seen[r]]]

ForgetLights ==
    /\ lightFrame' = 0
    /\ stable' = [r \in Regions |-> "unknown"]
    /\ confidence' = [r \in Regions |-> 0]
    /\ candidate' = [r \in Regions |-> "unknown"]
    /\ candidateConf' = [r \in Regions |-> 0]
    /\ inARow' = [r \in Regions |-> 0]
    /\ unknownFrames' = [r \in Regions |-> 0]
    /\ shown' = [r \in Regions |-> [f \in LightFrames |-> Unknown]]

LightNext == (\E seen \in [Regions -> Readings] : Stabilize(seen)) \/ ForgetLights

LightSpec == LightInit /\ [][LightNext]_lightVars

-------------------------------------------------------------------------------
(* What a light shows, said of the observations alone *)

\* The light showed s in all frames of a run that ends with frame f and is long
\* enough for s.
Decisive(r, s, f) ==
    LET needed == IF s = "unknown" THEN MaximumUnknown + 1 ELSE ConfirmationOfColor
    IN  f >= needed /\ \A n \in LightFrames : f < n + needed /\ n <= f => shown[r][n].state = s

\* The last decisive run was one of s.
Shows(r, s) == \E f \in 1..lightFrame :
                  /\ Decisive(r, s, f)
                  /\ \A g \in f..lightFrame, t \in States \ {s} : ~Decisive(r, t, g)

\* The stable state of a light is the colour of the last decisive run, whatever
\* flickers in between: no shorter run replaces it, no longer one is missed, and
\* nothing is left of another video.
StableAsShown == \A r \in Regions, c \in Colors : stable[r] = c <=> Shows(r, c)

===============================================================================
