----------------------------- MODULE SignalProofs -----------------------------
(***************************************************************************)
(* The stable state of a light is what the light showed, for any regions,  *)
(* images and lengths of confirmation and of darkness; confidences play no *)
(* part in it.  The red-light detector charges exactly the vehicles that   *)
(* are caught, for any road, vehicles, signals and limits; what a crossing *)
(* is, the whole geometry, plays no part in it.  That its rule does not    *)
(* contradict the one of wrong-way driving is geometry alone.              *)
(***************************************************************************)
EXTENDS RedLight, TrafficLight, TLAPS

(***************************************************************************)
(* The stabilizer                                                          *)
(***************************************************************************)

\* The types of what decides about the states.
LightsOK == /\ lightFrame \in LightFrames
            /\ stable \in [Regions -> States]
            /\ candidate \in [Regions -> States]
            /\ inARow \in [Regions -> Nat]
            /\ unknownFrames \in [Regions -> Nat]
            /\ DOMAIN shown = Regions
            /\ \A r \in Regions : DOMAIN shown[r] = LightFrames

\* What the light of r showed in frame n.
At(r, n) == shown[r][n].state

\* The candidate is the colour of the last frames, as many as are counted, and
\* is neither confirmed yet nor what is stable.
CandidateCounted ==
    \A r \in Regions :
        /\ inARow[r] <= lightFrame /\ inARow[r] < ConfirmationOfColor
        /\ inARow[r] > 0 => candidate[r] \in Colors /\ candidate[r] # stable[r]
        /\ inARow[r] = 0 => candidate[r] = "unknown"
        /\ At(r, lightFrame) \in Colors /\ At(r, lightFrame) # stable[r]
              => inARow[r] > 0 /\ candidate[r] = At(r, lightFrame)
        /\ \A n \in LightFrames :
              /\ n <= lightFrame /\ lightFrame < n + inARow[r] => At(r, n) = candidate[r]
              /\ n + inARow[r] = lightFrame /\ inARow[r] > 0 => At(r, n) # candidate[r]

\* The light was dark in the last frames, as many as are counted.
DarknessCounted ==
    \A r \in Regions :
        /\ unknownFrames[r] <= lightFrame
        /\ \A n \in LightFrames :
              /\ n <= lightFrame /\ lightFrame < n + unknownFrames[r] => At(r, n) = "unknown"
              /\ n + unknownFrames[r] = lightFrame /\ n > 0 => At(r, n) # "unknown"

LightInv == LightsOK /\ CandidateCounted /\ DarknessCounted /\ StableAsShown

-------------------------------------------------------------------------------
(* One frame *)

\* The classifier yields a state.
LEMMA ReadingsAreStates ==
    ASSUME NEW o \in Readings
    PROVE  o.state \in States
<1>1. PICK patch \in Patches : o = Classify(patch)
  BY DEF Readings
<1>2. CASE DOMAIN patch = {} \/ \A c \in Colors : ~Wins(c, patch)
  BY <1>1, <1>2 DEF Classify, Unknown, States
<1>3. CASE ~(DOMAIN patch = {} \/ \A c \in Colors : ~Wins(c, patch))
  <2>1. (CHOOSE c \in Colors : Wins(c, patch)) \in Colors
    BY <1>3
  <2>. QED
    BY <1>1, <1>3, <2>1 DEF Classify, States
<1>. QED
  BY <1>2, <1>3

\* What one more frame adds to what was shown.
LEMMA ShownNext ==
    ASSUME LightsOK, NEW seen \in [Regions -> Readings], Stabilize(seen), NEW r \in Regions
    PROVE  /\ lightFrame \in Nat /\ lightFrame' = lightFrame + 1 /\ lightFrame + 1 \in LightFrames
           /\ LightFrames = 0..MaxLightFrames /\ lightFrame \in LightFrames
           /\ seen[r].state \in States /\ At(r, lightFrame)' = seen[r].state
           /\ \A n \in LightFrames : n <= lightFrame => At(r, n)' = At(r, n)
<1>1. seen[r].state \in States
  BY ReadingsAreStates
<1>. QED
  BY <1>1, LightAssumption DEF LightsOK, Stabilize, At, LightFrames

\* A frame keeps the types.
LEMMA StabilizeTypes ==
    ASSUME LightsOK, NEW seen \in [Regions -> Readings], Stabilize(seen)
    PROVE  LightsOK'
<1>1. \A r \in Regions : seen[r].state \in States
  BY ReadingsAreStates
<1>2. lightFrame' \in LightFrames
  BY LightAssumption DEF LightsOK, Stabilize, LightFrames
<1>3. stable' \in [Regions -> States] /\ candidate' \in [Regions -> States]
  BY <1>1 DEF LightsOK, Stabilize, States
<1>4. inARow' \in [Regions -> Nat]
  BY DEF LightsOK, Stabilize, Row
<1>5. unknownFrames' \in [Regions -> Nat]
  BY DEF LightsOK, Stabilize
<1>6. DOMAIN shown' = Regions /\ \A r \in Regions : DOMAIN shown'[r] = LightFrames
  BY DEF LightsOK, Stabilize
<1>. QED
  BY <1>2, <1>3, <1>4, <1>5, <1>6 DEF LightsOK

\* The candidate goes on being counted.
LEMMA StabilizeCandidate ==
    ASSUME LightsOK, CandidateCounted, NEW seen \in [Regions -> Readings], Stabilize(seen)
    PROVE  CandidateCounted'
<1> SUFFICES ASSUME NEW r \in Regions
             PROVE  /\ inARow'[r] <= lightFrame' /\ inARow'[r] < ConfirmationOfColor
                    /\ inARow'[r] > 0 => candidate'[r] \in Colors /\ candidate'[r] # stable'[r]
                    /\ inARow'[r] = 0 => candidate'[r] = "unknown"
                    /\ At(r, lightFrame)' \in Colors /\ At(r, lightFrame)' # stable'[r]
                          => inARow'[r] > 0 /\ candidate'[r] = At(r, lightFrame)'
                    /\ \A n \in LightFrames :
                          /\ n <= lightFrame' /\ lightFrame' < n + inARow'[r] => At(r, n)' = candidate'[r]
                          /\ n + inARow'[r] = lightFrame' /\ inARow'[r] > 0 => At(r, n)' # candidate'[r]
  BY DEF CandidateCounted, LightFrames
<1> DEFINE o == seen[r]
<1> USE DEF At
<1>0. /\ inARow[r] \in Nat /\ ConfirmationOfColor \in Nat \ {0}
      /\ o.state \in States /\ candidate[r] \in States /\ stable[r] \in States
      /\ lightFrame \in Nat /\ lightFrame' = lightFrame + 1
  BY ShownNext, LightAssumption DEF LightsOK
<1>1. /\ stable'[r] = IF Confirms(r, o) THEN o.state ELSE IF GoesOut(r, o) THEN "unknown" ELSE stable[r]
      /\ candidate'[r] = IF Pending(r, o) THEN o.state ELSE "unknown"
      /\ inARow'[r] = IF Pending(r, o) THEN Row(r, o) ELSE 0
  BY DEF Stabilize
<1>2. /\ inARow[r] <= lightFrame /\ inARow[r] < ConfirmationOfColor
      /\ inARow[r] > 0 => candidate[r] \in Colors /\ candidate[r] # stable[r]
      /\ inARow[r] = 0 => candidate[r] = "unknown"
      /\ At(r, lightFrame) \in Colors /\ At(r, lightFrame) # stable[r]
            => inARow[r] > 0 /\ candidate[r] = At(r, lightFrame)
      /\ \A n \in LightFrames :
            /\ n <= lightFrame /\ lightFrame < n + inARow[r] => At(r, n) = candidate[r]
            /\ n + inARow[r] = lightFrame /\ inARow[r] > 0 => At(r, n) # candidate[r]
  BY DEF CandidateCounted
<1>3. /\ lightFrame \in LightFrames /\ LightFrames = 0..MaxLightFrames /\ At(r, lightFrame)' = o.state
      /\ \A n \in LightFrames : n <= lightFrame => At(r, n)' = At(r, n)
  BY ShownNext
<1>4. CASE ~Pending(r, o)
  <2>1. inARow'[r] = 0 /\ candidate'[r] = "unknown"
    BY <1>1, <1>4
  <2>2. ~(o.state \in Colors /\ o.state # stable'[r])
    BY <1>0, <1>1, <1>4 DEF Pending, Confirms, Row, Colors, States, GoesOut
  <2>. QED
    BY <1>0, <1>3, <2>1, <2>2
<1>5. CASE Pending(r, o)
  <2>1. /\ o.state \in Colors /\ o.state # stable[r] /\ stable'[r] = stable[r]
        /\ candidate'[r] = o.state /\ inARow'[r] = Row(r, o)
        /\ Row(r, o) = IF o.state = candidate[r] THEN inARow[r] + 1 ELSE 1
        /\ Row(r, o) < ConfirmationOfColor
    BY <1>0, <1>1, <1>5 DEF Pending, Confirms, Row, Colors, States, GoesOut
  <2>2. CASE o.state = candidate[r]
    <3>1. inARow'[r] = inARow[r] + 1 /\ inARow[r] > 0
      BY <1>0, <1>2, <2>1, <2>2 DEF Colors
    <3>2. inARow'[r] <= lightFrame' /\ inARow'[r] < ConfirmationOfColor /\ candidate'[r] = o.state
      BY <1>0, <1>2, <2>1, <3>1
    <3>3. ASSUME NEW n \in LightFrames, n <= lightFrame'
          PROVE  /\ lightFrame' < n + inARow'[r] => At(r, n)' = o.state
                 /\ n + inARow'[r] = lightFrame' => At(r, n)' # o.state
      <4>1. CASE n = lightFrame'
        BY <1>0, <1>3, <3>1, <4>1
      <4>2. CASE n <= lightFrame
        <5>1. At(r, n)' = At(r, n)
          BY <1>3, <4>2
        <5>2. /\ lightFrame < n + inARow[r] => At(r, n) = candidate[r]
              /\ n + inARow[r] = lightFrame => At(r, n) # candidate[r]
          BY <1>2, <3>1, <4>2
        <5>3. /\ lightFrame' < n + inARow'[r] <=> lightFrame < n + inARow[r]
              /\ n + inARow'[r] = lightFrame' <=> n + inARow[r] = lightFrame
          BY <1>0, <1>3, <3>1
        <5>. QED
          BY <2>2, <5>1, <5>2, <5>3
      <4>. QED
        BY <1>0, <1>3, <3>3, <4>1, <4>2
    <3>4. \A n \in LightFrames : n + inARow'[r] = lightFrame' => n <= lightFrame'
      BY <1>0, <1>3, <3>1
    <3>. QED
      BY <1>0, <1>3, <2>1, <3>1, <3>2, <3>3, <3>4
  <2>3. CASE o.state # candidate[r]
    <3>1. inARow'[r] = 1
      BY <2>1, <2>3
    <3>2. At(r, lightFrame) # o.state
      BY <1>2, <2>1, <2>3
    <3>. QED
      BY <1>0, <1>2, <1>3, <2>1, <3>1, <3>2
  <2>. QED
    BY <2>2, <2>3
<1>. QED
  BY <1>4, <1>5

\* So do the dark frames.
LEMMA StabilizeDarkness ==
    ASSUME LightsOK, DarknessCounted, NEW seen \in [Regions -> Readings], Stabilize(seen)
    PROVE  DarknessCounted'
<1> SUFFICES ASSUME NEW r \in Regions
             PROVE  /\ unknownFrames'[r] <= lightFrame'
                    /\ \A n \in LightFrames :
                          /\ n <= lightFrame' /\ lightFrame' < n + unknownFrames'[r] => At(r, n)' = "unknown"
                          /\ n + unknownFrames'[r] = lightFrame' /\ n > 0 => At(r, n)' # "unknown"
  BY DEF DarknessCounted, LightFrames
<1>1. /\ unknownFrames'[r] = IF seen[r].state = "unknown" THEN unknownFrames[r] + 1 ELSE 0
      /\ unknownFrames[r] \in Nat
  BY DEF Stabilize, LightsOK
<1>2. /\ lightFrame \in Nat /\ lightFrame' = lightFrame + 1 /\ LightFrames = 0..MaxLightFrames
      /\ At(r, lightFrame)' = seen[r].state
      /\ \A n \in LightFrames : n <= lightFrame => At(r, n)' = At(r, n)
  BY ShownNext
<1>3. /\ unknownFrames[r] <= lightFrame
      /\ \A n \in LightFrames :
            /\ n <= lightFrame /\ lightFrame < n + unknownFrames[r] => At(r, n) = "unknown"
            /\ n + unknownFrames[r] = lightFrame /\ n > 0 => At(r, n) # "unknown"
  BY DEF DarknessCounted
<1>4. CASE seen[r].state = "unknown"
  <2>1. unknownFrames'[r] = unknownFrames[r] + 1
    BY <1>1, <1>4
  <2>2. \A n \in LightFrames : n <= lightFrame' => n <= lightFrame \/ n = lightFrame'
    BY <1>2
  <2>3. \A n \in LightFrames : n + unknownFrames'[r] = lightFrame' =>
                                 n + unknownFrames[r] = lightFrame /\ n <= lightFrame
    BY <1>1, <1>2, <2>1
  <2>4. \A n \in LightFrames : lightFrame' < n + unknownFrames'[r] <=> lightFrame < n + unknownFrames[r]
    BY <1>1, <1>2, <2>1
  <2>5. unknownFrames'[r] <= lightFrame'
    BY <1>1, <1>2, <1>3, <2>1
  <2>. QED
    BY <1>2, <1>3, <1>4, <2>2, <2>3, <2>4, <2>5 DEF At
<1>5. CASE seen[r].state # "unknown"
  <2>1. unknownFrames'[r] = 0
    BY <1>1, <1>5
  <2>2. /\ unknownFrames'[r] <= lightFrame'
        /\ \A n \in LightFrames : /\ ~(n <= lightFrame' /\ lightFrame' < n + unknownFrames'[r])
                                  /\ n + unknownFrames'[r] = lightFrame' => n = lightFrame'
    BY <1>2, <2>1
  <2>. QED
    BY <1>2, <1>5, <2>2 DEF At
<1>. QED
  BY <1>4, <1>5

-------------------------------------------------------------------------------
(* Runs *)

\* What was decisive stays so, and nothing else becomes so later.
LEMMA ShownStays ==
    ASSUME LightsOK, NEW seen \in [Regions -> Readings], Stabilize(seen),
           NEW r \in Regions, NEW s \in States, NEW f \in LightFrames, f <= lightFrame
    PROVE  Decisive(r, s, f)' = Decisive(r, s, f)
BY ShownNext DEF Decisive, At, LightFrames

\* A run of a colour that is not stable becomes decisive in the frame that
\* confirms the colour, one of darkness in the frame in which the light goes out.
LEMMA DecisiveNow ==
    ASSUME LightsOK, CandidateCounted, DarknessCounted,
           NEW seen \in [Regions -> Readings], Stabilize(seen), NEW r \in Regions, NEW s \in States
    PROVE  /\ Decisive(r, s, lightFrame)' => seen[r].state = s
           /\ s \in Colors /\ s # stable[r] =>
                 (Decisive(r, s, lightFrame)' <=> s = seen[r].state /\ Confirms(r, seen[r]))
           /\ s = "unknown" => (Decisive(r, s, lightFrame)' <=> GoesOut(r, seen[r]))
<1> DEFINE o == seen[r]
<1> DEFINE needed == IF s = "unknown" THEN MaximumUnknown + 1 ELSE ConfirmationOfColor
<1>0. /\ inARow[r] \in Nat /\ unknownFrames[r] \in Nat
      /\ ConfirmationOfColor \in Nat \ {0} /\ MaximumUnknown \in Nat /\ MaxLightFrames \in Nat
      /\ needed \in Nat \ {0}
  BY LightAssumption DEF LightsOK
<1>1. /\ lightFrame \in LightFrames /\ LightFrames = 0..MaxLightFrames
      /\ lightFrame \in Nat /\ lightFrame' = lightFrame + 1 /\ lightFrame + 1 \in LightFrames
      /\ At(r, lightFrame)' = o.state
      /\ \A n \in LightFrames : n <= lightFrame => At(r, n)' = At(r, n)
  BY ShownNext
<1>2. Decisive(r, s, lightFrame)' <=>
          /\ lightFrame + 1 >= needed
          /\ o.state = s
          /\ \A n \in LightFrames : lightFrame + 1 < n + needed /\ n <= lightFrame => At(r, n) = s
  <2>1. Decisive(r, s, lightFrame)' <=>
            /\ lightFrame' >= needed
            /\ \A n \in LightFrames : lightFrame' < n + needed /\ n <= lightFrame' => shown'[r][n].state = s
    BY DEF Decisive, LightFrames
  <2>2. shown'[r][lightFrame'].state = o.state
    BY <1>1 DEF At
  <2>3. \A n \in LightFrames : n <= lightFrame => shown'[r][n].state = At(r, n)
    BY <1>1 DEF At
  <2>4. /\ \A n \in LightFrames : n <= lightFrame' => n <= lightFrame \/ n = lightFrame'
        /\ \A n \in LightFrames : n <= lightFrame => n <= lightFrame'
        /\ lightFrame' \in LightFrames /\ lightFrame' <= lightFrame' /\ lightFrame' < lightFrame' + needed
        /\ lightFrame' = lightFrame + 1
    BY <1>0, <1>1
  <2> HIDE DEF needed
  <2>5. ASSUME /\ lightFrame' >= needed
               /\ \A n \in LightFrames : lightFrame' < n + needed /\ n <= lightFrame' => shown'[r][n].state = s
        PROVE  /\ o.state = s
               /\ \A n \in LightFrames : lightFrame' < n + needed /\ n <= lightFrame => At(r, n) = s
    BY <2>2, <2>3, <2>4, <2>5
  <2>6. ASSUME /\ o.state = s
               /\ \A n \in LightFrames : lightFrame' < n + needed /\ n <= lightFrame => At(r, n) = s,
               NEW n \in LightFrames, lightFrame' < n + needed, n <= lightFrame'
        PROVE  shown'[r][n].state = s
    BY <2>2, <2>3, <2>4, <2>6
  <2>. QED
    BY <2>1, <2>4, <2>5, <2>6
<1>3. ASSUME s \in Colors, s # stable[r], s = o.state, Confirms(r, o) PROVE Decisive(r, s, lightFrame)'
  <2>1. s # "unknown" /\ Row(r, o) >= ConfirmationOfColor
    BY <1>3 DEF Confirms, Colors
  <2>2. CASE s = candidate[r]
    <3>1. /\ inARow[r] + 1 >= ConfirmationOfColor /\ inARow[r] <= lightFrame
          /\ \A n \in LightFrames : n <= lightFrame /\ lightFrame < n + inARow[r] => At(r, n) = s
      BY <1>3, <2>1, <2>2 DEF Row, CandidateCounted
    <3>2. \A n \in LightFrames : lightFrame + 1 < n + ConfirmationOfColor => lightFrame < n + inARow[r]
      BY <1>0, <1>1, <3>1
    <3>3. lightFrame + 1 >= ConfirmationOfColor
      <4>1. ASSUME inARow[r] = 0 PROVE ConfirmationOfColor = 1
        BY <1>0, <3>1, <4>1
      <4>. QED
        BY <1>0, <1>1, <1>3, <2>1, <2>2, <3>1, <4>1 DEF CandidateCounted, Row
    <3>. QED
      BY <1>2, <1>3, <2>1, <3>1, <3>2, <3>3
  <2>3. CASE s # candidate[r]
    <3>1. ConfirmationOfColor = 1
      BY <1>0, <1>3, <2>1, <2>3 DEF Row
    <3>2. lightFrame + 1 >= 1 /\ \A n \in LightFrames : ~(lightFrame + 1 < n + 1 /\ n <= lightFrame)
      BY <1>1
    <3>. QED
      BY <1>2, <1>3, <2>1, <3>1, <3>2
  <2>. QED
    BY <2>2, <2>3
<1>4. ASSUME s \in Colors, s # stable[r], Decisive(r, s, lightFrame)' PROVE Confirms(r, o)
  <2>1. s = o.state /\ s # "unknown" /\ lightFrame + 1 >= ConfirmationOfColor
    BY <1>2, <1>4 DEF Colors
  <2>2. \A n \in LightFrames : lightFrame + 1 < n + ConfirmationOfColor /\ n <= lightFrame => At(r, n) = s
    BY <1>2, <1>4, <2>1
  <2>3. SUFFICES ASSUME ConfirmationOfColor > 1 PROVE Confirms(r, o)
    BY <1>0, <1>4, <2>1 DEF Confirms, Row
  <2>4. At(r, lightFrame) = s
    BY <1>0, <2>2, <2>3, <1>1
  <2>5. inARow[r] > 0 /\ candidate[r] = s /\ inARow[r] <= lightFrame
    BY <1>4, <2>4 DEF CandidateCounted
  <2>6. PICK n \in LightFrames : n + inARow[r] = lightFrame
    <3>1. lightFrame - inARow[r] \in LightFrames
      BY <1>0, <1>1, <2>5
    <3>. QED
      BY <1>0, <1>1, <3>1
  <2>7. At(r, n) # s
    BY <2>5, <2>6 DEF CandidateCounted
  <2>8. inARow[r] + 1 >= ConfirmationOfColor
    BY <1>0, <1>1, <2>2, <2>5, <2>6, <2>7
  <2>. QED
    BY <1>4, <2>1, <2>5, <2>8 DEF Confirms, Row
<1>5. ASSUME s = "unknown", GoesOut(r, o) PROVE Decisive(r, s, lightFrame)'
  <2>1. /\ o.state = "unknown" /\ unknownFrames[r] + 1 > MaximumUnknown /\ unknownFrames[r] <= lightFrame
        /\ \A n \in LightFrames : n <= lightFrame /\ lightFrame < n + unknownFrames[r] => At(r, n) = "unknown"
    BY <1>5 DEF GoesOut, DarknessCounted
  <2>2. lightFrame + 1 >= MaximumUnknown + 1
    BY <1>0, <1>1, <2>1
  <2>3. \A n \in LightFrames : lightFrame + 1 < n + (MaximumUnknown + 1) => lightFrame < n + unknownFrames[r]
    BY <1>0, <1>1, <2>1
  <2>. QED
    BY <1>2, <1>5, <2>1, <2>2, <2>3
<1>6. ASSUME s = "unknown", Decisive(r, s, lightFrame)' PROVE GoesOut(r, o)
  <2>1. /\ o.state = "unknown" /\ lightFrame + 1 >= MaximumUnknown + 1
        /\ \A n \in LightFrames : lightFrame + 1 < n + (MaximumUnknown + 1) /\ n <= lightFrame => At(r, n) = "unknown"
    BY <1>2, <1>6
  <2>2. SUFFICES ASSUME unknownFrames[r] < MaximumUnknown PROVE FALSE
    BY <1>0, <2>1 DEF GoesOut
  <2>3. PICK n \in LightFrames : n + unknownFrames[r] = lightFrame
    <3>1. lightFrame - unknownFrames[r] \in LightFrames
      BY <1>0, <1>1, <2>1, <2>2
    <3>. QED
      BY <1>0, <1>1, <3>1
  <2>4. n > 0 /\ lightFrame + 1 < n + (MaximumUnknown + 1) /\ n <= lightFrame
    BY <1>0, <1>1, <2>1, <2>2, <2>3
  <2>5. At(r, n) # "unknown"
    BY <2>3, <2>4 DEF DarknessCounted
  <2>. QED
    BY <2>1, <2>4, <2>5
<1>7. Decisive(r, s, lightFrame)' => o.state = s
  BY <1>2
<1>. QED
  BY <1>3, <1>4, <1>5, <1>6, <1>7

\* A frame replaces the stable state exactly if it makes a run decisive.
LEMMA StabilizeShows ==
    ASSUME LightInv, NEW seen \in [Regions -> Readings], Stabilize(seen)
    PROVE  StableAsShown'
<1> SUFFICES ASSUME NEW r \in Regions, NEW c \in Colors PROVE stable'[r] = c <=> Shows(r, c)'
  BY DEF StableAsShown
<1> DEFINE o == seen[r]
<1> USE DEF LightInv
<1>0. /\ lightFrame \in Nat /\ lightFrame' = lightFrame + 1 /\ lightFrame + 1 \in LightFrames
      /\ LightFrames = 0..MaxLightFrames /\ MaxLightFrames \in Nat
      /\ o.state \in States /\ stable[r] \in States /\ c \in States /\ c # "unknown" /\ "unknown" \in States
  BY ShownNext, LightAssumption DEF LightsOK, Colors, States
<1>1. stable'[r] = IF Confirms(r, o) THEN o.state ELSE IF GoesOut(r, o) THEN "unknown" ELSE stable[r]
  BY DEF Stabilize
<1>2. stable[r] = c <=> Shows(r, c)
  BY DEF StableAsShown
<1>3. CASE Confirms(r, o) /\ o.state # stable[r]
  <2>1. o.state \in Colors /\ Decisive(r, o.state, lightFrame)'
    BY <1>0, <1>3, DecisiveNow DEF Confirms, States
  <2>2. \A t \in States \ {o.state} : ~Decisive(r, t, lightFrame)'
    BY DecisiveNow
  <2>3. ASSUME c = o.state PROVE Shows(r, c)'
    BY <1>0, <2>1, <2>2, <2>3 DEF Shows
  <2>4. ASSUME c # o.state PROVE ~Shows(r, c)'
    BY <1>0, <2>1, <2>4 DEF Shows
  <2>. QED
    BY <1>1, <1>3, <2>3, <2>4
<1>4. Confirms(r, o) => o.state # stable[r]
  BY LightAssumption DEF Confirms, Row
<1>5. CASE ~Confirms(r, o) /\ GoesOut(r, o)
  <2>1. Decisive(r, "unknown", lightFrame)'
    BY <1>0, <1>5, DecisiveNow
  <2>2. ~Shows(r, c)'
    BY <1>0, <2>1 DEF Shows
  <2>. QED
    BY <1>0, <1>1, <1>5, <2>2
<1>6. CASE ~Confirms(r, o) /\ ~GoesOut(r, o)
  <2>1. \A t \in States : t # stable[r] => ~Decisive(r, t, lightFrame)'
    BY <1>0, <1>6, DecisiveNow DEF States
  <2>2. ASSUME stable[r] = c PROVE Shows(r, c)'
    <3>1. PICK f \in 1..lightFrame : /\ Decisive(r, c, f)
                                     /\ \A g \in f..lightFrame, t \in States \ {c} : ~Decisive(r, t, g)
      BY <1>2, <2>2 DEF Shows
    <3>2. Decisive(r, c, f)'
      BY <1>0, <3>1, ShownStays
    <3>3. \A g \in f..lightFrame, t \in States \ {c} : ~Decisive(r, t, g)'
      BY <1>0, <3>1, ShownStays
    <3>4. \A g \in f..(lightFrame + 1), t \in States \ {c} : ~Decisive(r, t, g)'
      <4> SUFFICES ASSUME NEW g \in f..(lightFrame + 1), NEW t \in States \ {c} PROVE ~Decisive(r, t, g)'
        OBVIOUS
      <4>1. CASE g = lightFrame'
        BY <4>1, <2>1, <2>2
      <4>2. CASE g # lightFrame'
        BY <1>0, <4>2, <3>3
      <4>. QED
        BY <4>1, <4>2
    <3>. QED
      BY <1>0, <3>2, <3>4 DEF Shows
  <2>3. ASSUME stable[r] # c, Shows(r, c)' PROVE FALSE
    <3>1. PICK f \in 1..(lightFrame + 1) :
             /\ Decisive(r, c, f)'
             /\ \A g \in f..(lightFrame + 1), t \in States \ {c} : ~Decisive(r, t, g)'
      BY <1>0, <2>3 DEF Shows
    <3>2. f # lightFrame'
      BY <1>0, <2>1, <2>3, <3>1
    <3>3. f \in 1..lightFrame /\ Decisive(r, c, f)
      BY <1>0, <3>1, <3>2, ShownStays
    <3>4. \A g \in f..lightFrame, t \in States \ {c} : ~Decisive(r, t, g)
      BY <1>0, <3>1, <3>3, ShownStays
    <3>. QED
      BY <1>2, <2>3, <3>3, <3>4 DEF Shows
  <2>. QED
    BY <1>1, <1>6, <2>2, <2>3
<1>. QED
  BY <1>3, <1>4, <1>5, <1>6

-------------------------------------------------------------------------------
(* The start of a video *)

\* At the start nothing is counted, stable or shown.
LEMMA FreshLights ==
    ASSUME LightInit
    PROVE  LightInv
<1> USE LightAssumption DEF LightInit
<1>0. 0 \in LightFrames /\ LightFrames = 0..MaxLightFrames
  BY DEF LightFrames
<1>1. LightsOK
  BY <1>0 DEF LightsOK, States
<1>2. \A r \in Regions : At(r, 0) = "unknown"
  BY <1>0 DEF At, Unknown
<1>3. CandidateCounted
  BY <1>0, <1>2 DEF CandidateCounted, Colors
<1>4. DarknessCounted
  BY <1>0 DEF DarknessCounted
<1>5. StableAsShown
  BY DEF StableAsShown, Shows, Colors
<1>. QED
  BY <1>1, <1>3, <1>4, <1>5 DEF LightInv

\* The same of the next video.
LEMMA ForgetLightsStep ==
    ASSUME ForgetLights
    PROVE  LightInv'
<1> USE LightAssumption DEF ForgetLights
<1>0. 0 \in LightFrames /\ LightFrames = 0..MaxLightFrames
  BY DEF LightFrames
<1>1. LightsOK'
  BY <1>0 DEF LightsOK, States
<1>2. \A r \in Regions : At(r, lightFrame)' = "unknown"
  BY <1>0 DEF At, Unknown
<1>3. CandidateCounted'
  BY <1>0, <1>2 DEF CandidateCounted, Colors
<1>4. DarknessCounted'
  BY <1>0 DEF DarknessCounted
<1>5. StableAsShown'
  BY DEF StableAsShown, Shows, Colors
<1>. QED
  BY <1>1, <1>3, <1>4, <1>5 DEF LightInv

-------------------------------------------------------------------------------
(* Theorems *)

LEMMA LightInvHolds == LightSpec => []LightInv
<1>1. LightInv /\ [LightNext]_lightVars => LightInv'
  <2> SUFFICES ASSUME LightInv, [LightNext]_lightVars PROVE LightInv'
    OBVIOUS
  <2>1. ASSUME NEW seen \in [Regions -> Readings], Stabilize(seen) PROVE LightInv'
    BY <2>1, StabilizeTypes, StabilizeCandidate, StabilizeDarkness, StabilizeShows DEF LightInv
  <2>2. CASE UNCHANGED lightVars
    BY <2>2 DEF lightVars, lightState, LightInv, LightsOK, CandidateCounted, DarknessCounted, At,
       StableAsShown, Shows, Decisive
  <2>. QED
    BY <2>1, <2>2, ForgetLightsStep DEF LightNext
<1>. QED
  BY <1>1, FreshLights, PTL DEF LightSpec

\* The stable state of every light is the colour of the last decisive run.
THEOREM LightsAreAsShown == LightSpec => []StableAsShown
BY LightInvHolds, PTL DEF LightInv

\* No count of a colour or of darkness is ever beyond what the light showed, and
\* no count of a colour reaches the length that confirms it without doing so.
THEOREM CountsAreOfFrames == LightSpec => [](CandidateCounted /\ DarknessCounted)
BY LightInvHolds, PTL DEF LightInv

(***************************************************************************)
(* The red-light detector                                                  *)
(***************************************************************************)

\* The types of the states and of the history.
PassagesOK == /\ followed \subseteq Passages
              /\ DOMAIN anchor = Passages
              /\ emitted \in [Passages -> BOOLEAN]
              /\ unseen \in [Passages -> Nat]
              /\ DOMAIN lastAt = Ids
              /\ absent \in [Ids -> Nat]

\* The state of a key is about the vehicle as it was seen last.
StatesAgree ==
    \A k \in followed :
        /\ k[2] \in Watched
        /\ anchor[k] = lastAt[k[1]]
        /\ unseen[k] = absent[k[1]]
        /\ absent[k[1]] <= MaximumUnseen
        /\ emitted[k] <=> k \in charged

\* A vehicle without a state for a stop line has not been charged there, and was
\* not in the lane if it was seen lately.
OthersOutside ==
    \A k \in Passages \ followed :
        /\ ~emitted[k]
        /\ k \notin charged
        /\ k[2] \in Watched /\ absent[k[1]] <= MaximumUnseen
              => ~InPolygon(lastAt[k[1]], LaneOf(k[2]).polygon)

RedLightInv == PassagesOK /\ StatesAgree /\ OthersOutside

-------------------------------------------------------------------------------
(* One frame *)

\* The tracks of a frame, and the keys that it brings up to date, are known.
LEMMA KnownKeys ==
    ASSUME NEW f \in JunctionFrames, PassagesOK
    PROVE  /\ Present(f.tracks) \subseteq Ids
           /\ Updated(f.tracks) \subseteq Passages
           /\ Forgotten(f.tracks) \subseteq followed \ Updated(f.tracks)
<1>1. Present(f.tracks) \subseteq Ids
  BY RedLightAssumption DEF Present
<1>2. Updated(f.tracks) \subseteq Passages
  BY <1>1 DEF Updated, Passages, Watched
<1>. QED
  BY <1>1, <1>2 DEF Forgotten

\* A key with a state is brought up to date exactly if its vehicle is there.
LEMMA UpdatedIfPresent ==
    ASSUME PassagesOK, StatesAgree, NEW f \in JunctionFrames, NEW k \in followed
    PROVE  k \in Updated(f.tracks) <=> k[1] \in Present(f.tracks)
<1>1. k = <<k[1], k[2]>> /\ k[2] \in Watched
  BY DEF PassagesOK, StatesAgree, Passages
<1>. QED
  BY <1>1 DEF Updated

\* What becomes of a key, said of its row.
LEMMA RowNext ==
    ASSUME PassagesOK, NEW f \in JunctionFrames, WatchStopLines(f.tracks, f.signals), NEW k \in Passages
    PROVE  /\ k \in followed' <=> (k \in followed \/ k \in Updated(f.tracks)) /\ k \notin Forgotten(f.tracks)
           /\ k \in Updated(f.tracks) => anchor'[k] = RoadAnchor(Track(f.tracks, k[1]).box)
           /\ k \notin Updated(f.tracks) /\ k \notin Forgotten(f.tracks) => anchor'[k] = anchor[k]
           /\ emitted'[k] <=> (emitted[k] /\ k \notin Forgotten(f.tracks)) \/ k \in charges'
           /\ unseen'[k] = IF k \in Updated(f.tracks) \cup Forgotten(f.tracks) THEN 0
                           ELSE IF k \in followed THEN unseen[k] + 1 ELSE 0
           /\ charges' \subseteq followed \cap Updated(f.tracks)
<1>1. charges' = {j \in CrossedNow(f.tracks) : Red(f.signals, j[2]) /\ ~emitted[j]}
  BY DEF WatchStopLines
<1>2. charges' \subseteq followed \cap Updated(f.tracks)
  BY <1>1 DEF CrossedNow
<1>3. emitted'[k] <=> (emitted[k] /\ k \notin Forgotten(f.tracks)) \/ k \in charges'
  BY <1>1 DEF WatchStopLines
<1>. QED
  BY <1>2, <1>3, KnownKeys DEF WatchStopLines

\* What becomes of a vehicle, said without the states.
LEMMA VehicleNext ==
    ASSUME PassagesOK, NEW f \in JunctionFrames, WatchStopLines(f.tracks, f.signals), NEW v \in Ids
    PROVE  /\ v \in Present(f.tracks) => lastAt'[v] = RoadAnchor(Track(f.tracks, v).box) /\ absent'[v] = 0
           /\ v \notin Present(f.tracks) =>
                 /\ lastAt'[v] = lastAt[v]
                 /\ absent'[v] = IF absent[v] > MaximumUnseen THEN absent[v] ELSE absent[v] + 1
           /\ \A l : <<v, l>> \in charged' <=>
                        (<<v, l>> \in charged \/ <<v, l>> \in charges') /\ absent'[v] <= MaximumUnseen
<1>1. Remember(f.tracks, charges')
  BY DEF WatchStopLines
<1>. QED
  BY <1>1 DEF Remember

\* A frame keeps the types.
LEMMA WatchTypes ==
    ASSUME PassagesOK, NEW f \in JunctionFrames, WatchStopLines(f.tracks, f.signals)
    PROVE  PassagesOK'
<1>1. followed' \subseteq Passages
  BY KnownKeys DEF PassagesOK, WatchStopLines
<1>2. DOMAIN anchor' = Passages
  BY DEF WatchStopLines
<1>3. emitted' \in [Passages -> BOOLEAN]
  BY DEF WatchStopLines
<1>4. unseen' \in [Passages -> Nat]
  BY DEF PassagesOK, WatchStopLines
<1>5. DOMAIN lastAt' = Ids
  BY DEF WatchStopLines, Remember
<1>6. absent' \in [Ids -> Nat]
  BY DEF PassagesOK, WatchStopLines, Remember
<1>. QED
  BY <1>1, <1>2, <1>3, <1>4, <1>5, <1>6 DEF PassagesOK

\* The states go on describing the vehicles.
LEMMA WatchAgrees ==
    ASSUME RedLightInv, NEW f \in JunctionFrames, WatchStopLines(f.tracks, f.signals)
    PROVE  StatesAgree'
<1> USE DEF RedLightInv
<1> SUFFICES ASSUME NEW k \in followed'
             PROVE  /\ k[2] \in Watched
                    /\ anchor'[k] = lastAt'[k[1]]
                    /\ unseen'[k] = absent'[k[1]]
                    /\ absent'[k[1]] <= MaximumUnseen
                    /\ emitted'[k] <=> k \in charged'
  BY DEF StatesAgree, Watched
<1>1. k \in Passages /\ k = <<k[1], k[2]>> /\ k[1] \in Ids
  BY WatchTypes DEF PassagesOK, Passages
<1>2. k \notin Forgotten(f.tracks) /\ (k \in followed \/ k \in Updated(f.tracks))
  BY <1>1, RowNext
<1>3. MaximumUnseen \in Nat /\ absent[k[1]] \in Nat
  BY <1>1, RedLightAssumption DEF PassagesOK
<1>4. CASE k \in Updated(f.tracks)
  <2>1. k[1] \in Present(f.tracks) /\ k[2] \in Watched
    BY <1>1, <1>4 DEF Updated
  <2>2. anchor'[k] = lastAt'[k[1]] /\ unseen'[k] = 0 /\ absent'[k[1]] = 0
    BY <1>1, <1>4, <2>1, RowNext, VehicleNext
  <2>3. emitted[k] <=> k \in charged
    BY <1>1 DEF StatesAgree, OthersOutside, PassagesOK
  <2>4. emitted'[k] <=> k \in charged'
    <3>1. emitted'[k] <=> emitted[k] \/ k \in charges'
      BY <1>1, <1>2, RowNext
    <3>2. k \in charged' <=> (k \in charged \/ k \in charges') /\ absent'[k[1]] <= MaximumUnseen
      BY <1>1, VehicleNext
    <3>. QED
      BY <1>3, <2>2, <2>3, <3>1, <3>2
  <2>. QED
    BY <1>3, <2>1, <2>2, <2>4
<1>5. CASE k \notin Updated(f.tracks)
  <2>1. /\ k \in followed /\ k[1] \notin Present(f.tracks)
        /\ k[2] \in Watched /\ anchor[k] = lastAt[k[1]] /\ unseen[k] = absent[k[1]]
        /\ absent[k[1]] <= MaximumUnseen /\ (emitted[k] <=> k \in charged)
    BY <1>2, <1>5, UpdatedIfPresent DEF StatesAgree
  <2>2. unseen[k] + 1 <= MaximumUnseen
    BY <1>2, <1>3, <1>5, <2>1 DEF Forgotten
  <2>3. anchor'[k] = anchor[k] /\ unseen'[k] = unseen[k] + 1 /\ k \notin charges'
    BY <1>1, <1>2, <1>5, <2>1, RowNext
  <2>4. lastAt'[k[1]] = lastAt[k[1]] /\ absent'[k[1]] = absent[k[1]] + 1
    BY <1>1, <1>3, <2>1, VehicleNext
  <2>5. emitted'[k] <=> emitted[k]
    BY <1>1, <1>2, <2>3, RowNext
  <2>6. k \in charged' <=> k \in charged
    <3>1. k \in charged' <=> (k \in charged \/ k \in charges') /\ absent'[k[1]] <= MaximumUnseen
      BY <1>1, VehicleNext
    <3>. QED
      BY <2>1, <2>2, <2>3, <2>4, <3>1
  <2>. QED
    BY <2>1, <2>2, <2>3, <2>4, <2>5, <2>6
<1>. QED
  BY <1>4, <1>5

\* Vehicles without a state stay outside and uncharged.
LEMMA WatchOutside ==
    ASSUME RedLightInv, NEW f \in JunctionFrames, WatchStopLines(f.tracks, f.signals)
    PROVE  OthersOutside'
<1> USE DEF RedLightInv
<1> SUFFICES ASSUME NEW k \in Passages, k \notin followed'
             PROVE  /\ ~emitted'[k]
                    /\ k \notin charged'
                    /\ k[2] \in Watched /\ absent'[k[1]] <= MaximumUnseen
                          => ~InPolygon(lastAt'[k[1]], LaneOf(k[2]).polygon)
  BY DEF OthersOutside, Watched, LaneOf, Passages
<1>1. k = <<k[1], k[2]>> /\ k[1] \in Ids /\ MaximumUnseen \in Nat /\ absent[k[1]] \in Nat
  BY RedLightAssumption DEF PassagesOK, Passages
<1>2. k \notin Updated(f.tracks) /\ k \notin charges' /\ (k \in followed => k \in Forgotten(f.tracks))
  BY RowNext, KnownKeys
<1>3. /\ k[1] \notin Present(f.tracks) =>
            /\ lastAt'[k[1]] = lastAt[k[1]]
            /\ absent'[k[1]] = IF absent[k[1]] > MaximumUnseen THEN absent[k[1]] ELSE absent[k[1]] + 1
      /\ k \in charged' <=> (k \in charged \/ k \in charges') /\ absent'[k[1]] <= MaximumUnseen
  BY <1>1, VehicleNext
<1>4. CASE k \in followed
  <2>1. k[1] \notin Present(f.tracks)
    BY <1>2, <1>4, UpdatedIfPresent
  <2>2. unseen[k] = absent[k[1]] /\ unseen[k] + 1 > MaximumUnseen
    BY <1>2, <1>4 DEF StatesAgree, Forgotten
  <2>3. ~(absent'[k[1]] <= MaximumUnseen)
    BY <1>1, <1>3, <2>1, <2>2
  <2>4. ~emitted'[k]
    BY <1>2, <1>4, RowNext
  <2>. QED
    BY <1>1, <1>3, <2>3, <2>4
<1>5. CASE k \notin followed
  <2>1. /\ ~emitted[k] /\ k \notin charged
        /\ k[2] \in Watched /\ absent[k[1]] <= MaximumUnseen
              => ~InPolygon(lastAt[k[1]], LaneOf(k[2]).polygon)
    BY <1>5 DEF OthersOutside
  <2>2. ~emitted'[k] /\ k \notin charged'
    BY <1>2, <1>3, <2>1, RowNext
  <2>3. CASE k[1] \in Present(f.tracks)
    <3>1. k[2] \in Watched => ~InPolygon(RoadAnchor(Track(f.tracks, k[1]).box), LaneOf(k[2]).polygon)
      BY <1>1, <1>2, <2>3 DEF Updated
    <3>2. lastAt'[k[1]] = RoadAnchor(Track(f.tracks, k[1]).box)
      BY <1>1, <2>3, VehicleNext
    <3>. QED
      BY <2>2, <3>1, <3>2
  <2>4. CASE k[1] \notin Present(f.tracks)
    <3>1. lastAt'[k[1]] = lastAt[k[1]]
      BY <1>3, <2>4
    <3>2. absent'[k[1]] <= MaximumUnseen => absent[k[1]] <= MaximumUnseen
      BY <1>1, <1>3, <2>4
    <3>. QED
      BY <2>1, <2>2, <3>1, <3>2
  <2>. QED
    BY <2>3, <2>4
<1>. QED
  BY <1>4, <1>5

-------------------------------------------------------------------------------
(* The start of a video *)

\* At the start no vehicle has been seen.
LEMMA FreshRoad ==
    ASSUME RedLightInit
    PROVE  RedLightInv
BY RedLightAssumption DEF RedLightInit, RedLightInv, PassagesOK, StatesAgree, OthersOutside, Passages

\* The same of the next video.
LEMMA ForgetVehiclesStep ==
    ASSUME ForgetVehicles
    PROVE  RedLightInv'
BY RedLightAssumption DEF ForgetVehicles, RedLightInv, PassagesOK, StatesAgree, OthersOutside, Passages

-------------------------------------------------------------------------------
(* Theorems *)

LEMMA RedLightInvHolds == RedLightSpec => []RedLightInv
<1>1. RedLightInv /\ [RedLightNext]_redLightVars => RedLightInv'
  <2> SUFFICES ASSUME RedLightInv, [RedLightNext]_redLightVars PROVE RedLightInv'
    OBVIOUS
  <2>1. ASSUME NEW f \in JunctionFrames, WatchStopLines(f.tracks, f.signals) PROVE RedLightInv'
    BY <2>1, WatchTypes, WatchAgrees, WatchOutside DEF RedLightInv
  <2>2. CASE UNCHANGED redLightVars
    BY <2>2 DEF redLightVars, redLightState, RedLightInv, PassagesOK, StatesAgree, OthersOutside, Watched, LaneOf
  <2>. QED
    BY <2>1, <2>2, ForgetVehiclesStep DEF RedLightNext
<1>. QED
  BY <1>1, FreshRoad, PTL DEF RedLightSpec

\* The states of the detector are about the vehicles as they were seen last, and
\* remember what was charged, for as long as a vehicle is not gone.
THEOREM StatesAreOfVehicles == RedLightSpec => [](StatesAgree /\ OthersOutside)
BY RedLightInvHolds, PTL DEF RedLightInv

\* Every frame charges exactly the vehicles that are caught in it.
THEOREM ChargesAreCaught == RedLightSpec => CaughtExactly
<1>1. ASSUME RedLightInv, [RedLightNext]_redLightVars
      PROVE  [charges' = {k \in Passages : Caught(k)}]_redLightVars
  <2> USE DEF RedLightInv
  <2>1. ASSUME NEW f \in JunctionFrames, WatchStopLines(f.tracks, f.signals)
        PROVE  charges' = {k \in Passages : Caught(k)}
    <3>1. /\ tracks' = f.tracks /\ signals' = f.signals
          /\ charges' = {k \in CrossedNow(f.tracks) : Red(f.signals, k[2]) /\ ~emitted[k]}
      BY <2>1 DEF WatchStopLines
    <3>2. ASSUME NEW k \in charges' PROVE k \in Passages /\ Caught(k)
      <4>1. /\ k \in followed /\ k \in Updated(f.tracks) /\ Red(f.signals, k[2]) /\ ~emitted[k]
            /\ Crosses(anchor[k], Track(f.tracks, k[1]), k[2])
        BY <3>1, <3>2 DEF CrossedNow
      <4>2. /\ k[1] \in Present(f.tracks) /\ k[2] \in Watched /\ anchor[k] = lastAt[k[1]]
            /\ absent[k[1]] <= MaximumUnseen /\ k \notin charged
        BY <1>1, <4>1, UpdatedIfPresent DEF StatesAgree
      <4>. QED
        BY <1>1, <3>1, <4>1, <4>2 DEF Caught, PassagesOK
    <3>3. ASSUME NEW k \in Passages, Caught(k) PROVE k \in charges'
      <4>1. /\ k[1] \in Present(f.tracks) /\ k[2] \in Watched /\ absent[k[1]] <= MaximumUnseen
            /\ Crosses(lastAt[k[1]], Track(f.tracks, k[1]), k[2]) /\ Red(f.signals, k[2])
            /\ k \notin charged
        BY <3>1, <3>3 DEF Caught
      <4>2. InPolygon(lastAt[k[1]], LaneOf(k[2]).polygon)
        BY <4>1 DEF Crosses
      <4>3. k \in followed
        BY <1>1, <4>1, <4>2 DEF OthersOutside
      <4>4. k \in Updated(f.tracks) /\ anchor[k] = lastAt[k[1]] /\ ~emitted[k]
        BY <1>1, <4>1, <4>3, UpdatedIfPresent DEF StatesAgree
      <4>. QED
        BY <3>1, <4>1, <4>3, <4>4 DEF CrossedNow
    <3>. QED
      BY <3>2, <3>3
  <2>2. ASSUME ForgetVehicles PROVE charges' = {k \in Passages : Caught(k)}
    BY <2>2 DEF ForgetVehicles, Caught, Present
  <2>. QED
    BY <1>1, <2>1, <2>2 DEF RedLightNext
<1>2. RedLightInv /\ [RedLightNext]_redLightVars => [charges' = {k \in Passages : Caught(k)}]_redLightVars
  BY <1>1
<1>. QED
  BY <1>2, RedLightInvHolds, PTL DEF RedLightSpec, CaughtExactly

(***************************************************************************)
(* The rules of wrong-way driving and of stop lines                        *)
(***************************************************************************)

\* Integers: a product grows with its factors.
LEMMA ProductGrows ==
    ASSUME NEW a \in Int, NEW b \in Int, NEW c \in Int, a <= b, c >= 0
    PROVE  a * c <= b * c /\ c * a <= c * b
OBVIOUS

\* Squares of numbers that are not negative are ordered as the numbers are.
LEMMA SquareGrows ==
    ASSUME NEW a \in Int, NEW b \in Int, 0 <= a, a <= b
    PROVE  a * a <= b * b
<1>1. a * a <= b * a /\ b * a <= b * b
  BY ProductGrows
<1> QED BY <1>1

\* The same, strictly.
LEMMA SquareSmaller ==
    ASSUME NEW a \in Int, NEW b \in Int, 0 <= a, a < b
    PROVE  a * a < b * b
<1>1. a * b <= b * b /\ a * a <= a * b
  BY ProductGrows
<1>2. a * b < b * b
  OBVIOUS
<1> QED BY <1>1, <1>2

\* The inequality of Cauchy and Schwarz in the plane, for the second vector
\* mirrored.
LEMMA Plane ==
    ASSUME NEW v \in Int, NEW w \in Int, NEW d \in Int, NEW e \in Int
    PROVE  /\ (v * d - w * e) * (v * d - w * e) <= (v * v + w * w) * (d * d + e * e)
           /\ (v * v + w * w) * (d * d + e * e) >= 0
<1> DEFINE x == v * e + w * d
<1>1. (v * v + w * w) * (d * d + e * e) = (v * d - w * e) * (v * d - w * e) + x * x
  OBVIOUS
<1>2. x \in Int /\ x * x >= 0
  OBVIOUS
<1>3. (v * v + w * w) >= 0 /\ (d * d + e * e) >= 0
  OBVIOUS
<1> QED BY <1>1, <1>2, <1>3

\* Stretching by W and H cannot turn a negative dot product A + B, of at least
\* o hundredths, into one that is not negative.
LEMMA Turned ==
    ASSUME NEW W \in Nat \ {0}, NEW H \in Nat \ {0}, NEW o \in Nat, NEW A \in Int, NEW B \in Int, NEW N \in Int,
           (A - B) * (A - B) <= N,
           W * A + H * B >= 0, A + B < 0,
           10000 * (A + B) * (A + B) >= o * o * N,
           100 * (W - H) < o * (W + H), 100 * (H - W) < o * (W + H)
    PROVE  FALSE
<1> DEFINE S == W + H
           D == IF W >= H THEN W - H ELSE H - W
           M == -(A + B)
           X == IF A >= B THEN A - B ELSE B - A
<1>1. /\ S \in Nat /\ S > 0 /\ D \in Nat /\ M \in Nat /\ M > 0 /\ X \in Nat
      /\ X * X = (A - B) * (A - B) /\ M * M = (A + B) * (A + B)
  OBVIOUS
<1>2. 2 * (W * A + H * B) = (W - H) * (A - B) - S * M
  OBVIOUS
<1>3. (W - H) * (A - B) <= D * X
  <2>1. CASE W >= H /\ A >= B BY <2>1
  <2>2. CASE W >= H /\ ~(A >= B)
    <3>1. D * (A - B) <= D * X
      BY <2>2, <1>1, ProductGrows
    <3> QED BY <2>2, <3>1
  <2>3. CASE ~(W >= H) /\ A >= B 
    <3>1. (W - H) * X <= D * X
      BY <2>3, <1>1, ProductGrows
    <3> QED BY <2>3, <3>1
  <2>4. CASE ~(W >= H) /\ ~(A >= B) BY <2>4
  <2> QED BY <2>1, <2>2, <2>3, <2>4
<1>4. 0 <= S * M /\ S * M <= D * X
  BY <1>1, <1>2, <1>3
<1>5. (S * M) * (S * M) <= (D * X) * (D * X)
  <2>1. S * M \in Int /\ D * X \in Int
    BY <1>1
  <2> QED BY <1>4, <2>1, SquareGrows
<1>6. (o * S) * (o * S) > (100 * D) * (100 * D)
  <2> DEFINE R == o * S
             E == 100 * D
  <2>1. R \in Int /\ E \in Int /\ 0 <= E /\ E < R
    BY <1>1
  <2> HIDE DEF R, E
  <2>2. E * E < R * R
    BY <2>1, SquareSmaller
  <2> QED BY <2>1, <2>2 DEF R, E
<1>7. N > 0 /\ X * X <= N
  <2>1. M * M > 0 
    BY <1>1
  <2>2. X * X <= N /\ X * X >= 0
    BY <1>1
  <2>3. N # 0
    <3>1. SUFFICES ASSUME N = 0 PROVE FALSE
      OBVIOUS
    <3>2. X * X = 0
      BY <2>2, <3>1
    <3>3. X = 0
      BY <3>2, <1>1
    <3>4. D * X = 0
      BY <3>3, <1>1
    <3>5. S * M > 0
      BY <1>1
    <3> QED BY <1>4, <3>4, <3>5
  <2> QED BY <2>2, <2>3
<1> HIDE DEF S, D, M, X
<1>8. (o * o * N) * (S * S) <= (10000 * (M * M)) * (S * S)
  <2>1. o * o * N \in Int /\ 10000 * (M * M) \in Int /\ S * S \in Int /\ S * S >= 0
    BY <1>1
  <2>2. o * o * N <= 10000 * (M * M)
    BY <1>1
  <2> QED BY <2>1, <2>2, ProductGrows
<1>9. 10000 * ((S * M) * (S * M)) <= 10000 * ((D * X) * (D * X))
  BY <1>5, <1>1
<1>10. (D * D) * (X * X) <= (D * D) * N
  <2>1. D * D \in Int /\ X * X \in Int /\ D * D >= 0
    BY <1>1
  <2> QED BY <2>1, <1>7, ProductGrows
<1>11. (o * o * N) * (S * S) <= 10000 * ((D * D) * N)
  <2>1. (10000 * (M * M)) * (S * S) = 10000 * ((S * M) * (S * M))
    BY <1>1
  <2>2. (D * D) * (X * X) = (D * X) * (D * X)
    BY <1>1
  <2> QED BY <2>1, <2>2, <1>8, <1>9, <1>10, <1>1
<1>12. ((o * S) * (o * S)) * N > ((100 * D) * (100 * D)) * N
  <2> DEFINE P == (o * S) * (o * S)
             Q == (100 * D) * (100 * D)
  <2>1. P \in Int /\ Q \in Int /\ P > Q
    BY <1>1, <1>6
  <2> HIDE DEF P, Q
  <2>2. P * N > Q * N
    BY <2>1, <1>7
  <2> QED BY <2>2 DEF P, Q
<1>13. ((o * S) * (o * S)) * N = (o * o * N) * (S * S) /\ ((100 * D) * (100 * D)) * N = 10000 * ((D * D) * N)
  BY <1>1
<1> QED
  <2>1. (o * o * N) * (S * S) \in Int /\ (D * D) * N \in Int
    BY <1>1
  <2> QED BY <1>11, <1>12, <1>13, <2>1

\* Stretching a direction as the image is turns it by at most the angle whose
\* sine is the difference of width and height over their sum; the image is not
\* so far from a square that this sine reaches the threshold of the wrong-way
\* detector.
ImageNearlySquare ==
    /\ 100 * (MaximumX - MaximumY) < OppositeCosine * (MaximumX + MaximumY)
    /\ 100 * (MaximumY - MaximumX) < OppositeCosine * (MaximumX + MaximumY)

\* What is known of the image and of the threshold.
LEMMA ScaleIsNumber ==
    MaximumX \in Nat \ {0} /\ MaximumY \in Nat \ {0} /\ OppositeCosine \in Nat
<1>1. MaximumX \in Nat \ {0} /\ MaximumY \in Nat \ {0}
  BY GeometryAssumption DEF MaximumX, MaximumY
<1>2. OppositeCosine \in 1..100
  BY Zenon, RulesAssumption
<1>. QED
  BY <1>1, <1>2

\* No velocity goes with the stretched direction of a lane and against the
\* direction itself.
LEMMA NeverBoth ==
    ASSUME ImageNearlySquare, NEW v \in Int \X Int, NEW d \in Int \X Int, NEW c \in Nat,
           CosineAtLeast(v, Stretched(d), c), CosineAtMost(v, d, OppositeCosine)
    PROVE  FALSE
<1> DEFINE W == MaximumX
           H == MaximumY
           A == v[1] * d[1]
           B == v[2] * d[2]
           N == (v[1] * v[1] + v[2] * v[2]) * (d[1] * d[1] + d[2] * d[2])
<1>1. W \in Nat \ {0} /\ H \in Nat \ {0} /\ OppositeCosine \in Nat
  BY ScaleIsNumber
<1>2. v[1] \in Int /\ v[2] \in Int /\ d[1] \in Int /\ d[2] \in Int
  OBVIOUS
<1>3. A \in Int /\ B \in Int /\ N \in Int
  BY <1>2
<1>4. Dot(v, d) = A + B /\ Square(v) * Square(d) = N
  BY DEF Dot, Square
<1>5. (A - B) * (A - B) <= N
  BY <1>2, Plane
<1>6. A + B < 0 /\ 10000 * (A + B) * (A + B) >= OppositeCosine * OppositeCosine * N
  <2>1. OppositeCosine * OppositeCosine * Square(v) * Square(d) = OppositeCosine * OppositeCosine * N
    <3>1. Square(v) \in Int /\ Square(d) \in Int
      BY <1>2 DEF Square, Dot
    <3> QED BY <1>1, <1>4, <3>1
  <2> QED BY <1>4, <2>1 DEF CosineAtMost
<1>7. W * A + H * B >= 0
  <2>1. Stretched(d) = <<d[1] * W, d[2] * H>>
    BY DEF Stretched
  <2>2. Dot(v, Stretched(d)) = W * A + H * B
    BY <1>1, <1>2, <2>1 DEF Dot
  <2>3. CASE Square(v) * Square(Stretched(d)) # 0
    BY <2>2, <2>3 DEF CosineAtLeast
  <2>4. CASE Square(v) * Square(Stretched(d)) = 0
    <3> DEFINE x == d[1] * W
               y == d[2] * H
    <3>1. x \in Int /\ y \in Int /\ Square(Stretched(d)) = x * x + y * y /\ Square(v) = v[1] * v[1] + v[2] * v[2]
      BY <1>1, <1>2, <2>1 DEF Square, Dot
    <3>2. \A p, q \in Int : p * p + q * q = 0 => p = 0 /\ q = 0
      OBVIOUS
    <3>3. \A p, q \in Int : p * q = 0 => p = 0 \/ q = 0
      OBVIOUS
    <3> HIDE DEF x, y
    <3>4. (v[1] = 0 /\ v[2] = 0) \/ (x = 0 /\ y = 0)
      <4>1. x * x + y * y \in Int /\ v[1] * v[1] + v[2] * v[2] \in Int
        BY <1>2, <3>1
      <4>2. x * x + y * y = 0 \/ v[1] * v[1] + v[2] * v[2] = 0
        BY <2>4, <3>1, <3>3, <4>1
      <4> QED BY <1>2, <3>1, <3>2, <4>2
    <3>5. (v[1] = 0 /\ v[2] = 0) \/ (d[1] = 0 /\ d[2] = 0)
      <4>1. x = 0 => d[1] = 0
        BY <1>1, <1>2, <3>3 DEF x
      <4>2. y = 0 => d[2] = 0
        BY <1>1, <1>2, <3>3 DEF y
      <4> QED BY <3>4, <4>1, <4>2
    <3>6. A = 0 /\ B = 0
      BY <1>2, <3>5
    <3> QED BY <1>6, <3>6
  <2> QED BY <2>3, <2>4
<1> QED
  <2>1. 100 * (W - H) < OppositeCosine * (W + H) /\ 100 * (H - W) < OppositeCosine * (W + H)
    BY DEF ImageNearlySquare
  <2> HIDE DEF W, H, A, B, N
  <2> QED BY <1>1, <1>3, <1>5, <1>6, <1>7, <2>1, Turned

\* The crossings of a frame are of its tracks and go with their lanes.
CrossingsForward == \A k \in crossings :
    \E t \in tracks : /\ t.id = k[1] /\ k[2] \in Watched /\ t.velocity \in Int \X Int
                      /\ \A u \in tracks : u.id = k[1] => u = t
                      /\ Forward(t, k[2])

LEMMA WatchForward ==
    ASSUME NEW f \in JunctionFrames, WatchStopLines(f.tracks, f.signals)
    PROVE  CrossingsForward'
<1> SUFFICES ASSUME NEW k \in crossings'
             PROVE  \E t \in tracks' : /\ t.id = k[1] /\ k[2] \in Watched /\ t.velocity \in Int \X Int
                                       /\ \A u \in tracks' : u.id = k[1] => u = t
                                       /\ Forward(t, k[2])
  BY DEF CrossingsForward, Watched, Forward, LaneOf
<1>1. tracks' = f.tracks /\ crossings' = CrossedNow(f.tracks)
  BY DEF WatchStopLines
<1>2. k \in Updated(f.tracks) /\ Crosses(anchor[k], Track(f.tracks, k[1]), k[2])
  BY <1>1 DEF CrossedNow
<1>3. k[1] \in Present(f.tracks) /\ k[2] \in Watched
  BY <1>2 DEF Updated
<1>4. PICK t \in f.tracks : t.id = k[1]
  BY <1>3 DEF Present
<1>5. /\ \A u \in f.tracks : u.id = k[1] => u = t
      /\ t.velocity \in Int \X Int
  BY <1>4, RedLightAssumption
<1>6. Track(f.tracks, k[1]) = t
  BY <1>4, <1>5 DEF Track
<1>7. Forward(t, k[2])
  BY <1>2, <1>6 DEF Crosses
<1> QED BY <1>1, <1>3, <1>4, <1>5, <1>7

LEMMA ForwardAgrees ==
    ASSUME ImageNearlySquare, CrossingsForward
    PROVE  RulesAgree
<1> SUFFICES ASSUME NEW k \in crossings, <<k[1], LaneOf(k[2]).id>> \in WrongWay(tracks)
             PROVE  FALSE
  BY DEF RulesAgree
<1>1. PICK p \in tracks \X Lanes : /\ <<k[1], LaneOf(k[2]).id>> = <<p[1].id, p[2].id>>
                                   /\ Opposes(p[1], p[2])
  BY DEF WrongWay
<1>2. PICK t \in tracks : /\ t.id = k[1] /\ k[2] \in Watched /\ t.velocity \in Int \X Int
                          /\ \A u \in tracks : u.id = k[1] => u = t
                          /\ Forward(t, k[2])
  BY DEF CrossingsForward
<1>3. p[1] = t
  BY <1>1, <1>2
<1>4. p[2] = LaneOf(k[2]) /\ p[2] \in Lanes /\ p[2].direction \in Int \X Int
  <2>1. \E lane \in Lanes : lane.id = Scene.lines[k[2]].lane
    BY <1>2 DEF Watched
  <2>2. LaneOf(k[2]) \in Lanes
    BY <2>1 DEF LaneOf
  <2> QED BY <1>1, <2>2, RulesAssumption
<1>5. CosineAtMost(t.velocity, p[2].direction, OppositeCosine)
  BY <1>1, <1>3 DEF Opposes
<1>6. CosineAtLeast(t.velocity, Stretched(p[2].direction), CrossingCosine)
  BY <1>2, <1>4 DEF Forward
<1>7. CrossingCosine \in Nat
  BY RedLightAssumption
<1> QED BY <1>2, <1>4, <1>5, <1>6, <1>7, NeverBoth

\* Whatever the scene, the vehicles and the thresholds of the two detectors are:
\* unless the image is several times wider than high or higher than wide, no
\* vehicle that crosses a stop line in the direction of its lane is seen against
\* that direction.  With the default threshold of one half it may be up to three
\* times wider; for one that is wide enough the rules do contradict each other.
THEOREM RulesAlwaysAgree ==
    ASSUME ImageNearlySquare
    PROVE  RedLightSpec => []RulesAgree
<1>1. RedLightInit => CrossingsForward
  BY DEF RedLightInit, CrossingsForward
<1>2. CrossingsForward /\ [RedLightNext]_redLightVars => CrossingsForward'
  <2> SUFFICES ASSUME CrossingsForward, [RedLightNext]_redLightVars PROVE CrossingsForward'
    OBVIOUS
  <2>1. CASE ForgetVehicles
    BY <2>1 DEF ForgetVehicles, CrossingsForward
  <2>2. CASE UNCHANGED redLightVars
    BY <2>2 DEF redLightVars, CrossingsForward, Watched, Forward, LaneOf
  <2> QED BY <2>1, <2>2, WatchForward DEF RedLightNext
<1>3. CrossingsForward => RulesAgree
  BY ForwardAgrees
<1> QED BY <1>1, <1>2, <1>3, PTL DEF RedLightSpec

===============================================================================
