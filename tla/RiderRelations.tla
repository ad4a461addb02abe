---------------------------- MODULE RiderRelations ----------------------------
(***************************************************************************)
(* Who rides which motorcycle, over time.  The associations of single      *)
(* frames are noisy: a relation of a person and a motorcycle is confirmed  *)
(* by RideConfirmation frames in a row, survives up to MaxRideGap frames   *)
(* without it, and ends the relations of the person to others once it is   *)
(* confirmed.  Labels (helmet, no helmet) are given to the riders that are *)
(* confirmed and seen in the frame.                                        *)
(***************************************************************************)
EXTENDS RiderScores

CONSTANTS Persons, Motorcycles, \* ids of tracks
          Nobody,               \* no motorcycle
          RideConfirmation,     \* RIDER_TEMPORAL_CONFIRMATION_FRAMES
          MaxRideGap,           \* RIDER_TEMPORAL_MAX_MISSED_FRAMES
          MinimumTriple,        \* TRIPLE_RIDING_MINIMUM_RIDERS
          RiderScenes,          \* what a frame may show: [tracks, labels]
          MaxRiderFrames        \* bound: analysed frames of a video

ASSUME RidersAssumption ==
    /\ RideConfirmation \in Nat \ {0}
    /\ MaxRideGap \in Nat
    /\ MaxRiderFrames \in Nat
    /\ Nobody \notin Motorcycles
    /\ Persons \subseteq Int
    /\ \A s \in RiderScenes : \A t, u \in s.tracks :
          /\ t.class = "person" => t.id \in Persons
          /\ t.class = "motorcycle" => t.id \in Motorcycles
          /\ t.box \in Int \X Int \X Int \X Int
          /\ t.id = u.id => t = u
    /\ \A s \in RiderScenes : \A l, m \in s.labels :
          /\ l.index \in Int /\ l.confidence \in Int /\ l.box \in Int \X Int \X Int \X Int
          /\ l.index = m.index => l = m
    /\ \A s \in RiderScenes : IsFiniteSet(s.tracks) /\ IsFiniteSet(s.labels)
    /\ HeadHeight \in Int /\ HeadExpansion \in Int

VARIABLES riderFrame,   \* number of analysed frames
          relations,    \* <<person, motorcycle>> that have a state
          settled,      \* the confirmed ones
          matches,      \* consecutive_matches
          rideGap,      \* missed_frames
          riding,       \* observed_this_frame
          view,        \* the last frame
          labelled,     \* <<person, label>>: the helmet associations of it
          rode          \* history: what each person rode in which frame

relationState == <<relations, settled, matches, rideGap, riding>>
riderVars     == <<riderFrame, relationState, view, labelled, rode>>

Pairs == Persons \X Motorcycles
RiderFrames == 0..MaxRiderFrames
EmptyScene == [tracks |-> {}, labels |-> {}]

RiderTypeOK == /\ riderFrame \in RiderFrames
               /\ relations \subseteq Pairs
               /\ settled \subseteq relations
               /\ matches \in [Pairs -> Nat]
               /\ rideGap \in [Pairs -> 0..MaxRideGap]
               /\ riding \subseteq relations
               /\ rode \in [Persons -> [RiderFrames -> Motorcycles \cup {Nobody}]]

RidersInit == /\ riderFrame = 0
              /\ relations = {}
              /\ settled = {}
              /\ matches = [k \in Pairs |-> 0]
              /\ rideGap = [k \in Pairs |-> 0]
              /\ riding = {}
              /\ view = EmptyScene
              /\ labelled = {}
              /\ rode = [p \in Persons |-> [f \in RiderFrames |-> Nobody]]

-------------------------------------------------------------------------------
(* One frame *)

Matched(k, seen) == IF k \in seen THEN matches[k] + 1 ELSE 0

NewlySettled(seen) == {k \in seen \ settled : Matched(k, seen) >= RideConfirmation}

Overdue(seen) == {k \in relations \ seen : rideGap[k] + 1 > MaxRideGap}

\* Mutant: the older relations of a person stay.
DroppedNever(seen) == {}

\* The older relations of the persons that settle.
Dropped(seen) == {k \in Pairs : \E n \in NewlySettled(seen) : n[1] = k[1] /\ n # k}

Remaining(seen) == ((relations \cup seen) \ Overdue(seen)) \ Dropped(seen)

\* The confirmed riders of a motorcycle that are seen.
RidersOf(m) == {k \in settled \cap riding : k[2] = m}

\* The keys that the detector of triple riding observes.
TripleRiding == {m \in Motorcycles : Cardinality(RidersOf(m)) >= MinimumTriple}

PersonOf(s, p) == CHOOSE t \in s.tracks : t.id = p

LabelPairs(s, riders) ==
    {c \in riders \X s.labels : /\ c[1] \in {t.id : t \in OfClass(s.tracks, "person")}
                                /\ MayWear(PersonOf(s, c[1]), c[2])}

\* The first of two candidates in the order of the associator; persons and
\* labels are numbered.
Better(s, c, d) ==
    LET sc == HelmetScore(PersonOf(s, c[1]), c[2])
        sd == HelmetScore(PersonOf(s, d[1]), d[2])
    IN  \/ sc > sd
        \/ sc = sd /\ c[2].confidence > d[2].confidence
        \/ sc = sd /\ c[2].confidence = d[2].confidence
              /\ (c[1] < d[1] \/ (c[1] = d[1] /\ c[2].index < d[2].index))

\* Mutant: a label may be given to two riders.
Shares(c, d) == c[1] = d[1]

Collide(c, d) == c[1] = d[1] \/ c[2] = d[2]

\* Greedily, the best candidate first.
Labelled(s, riders) ==
    LET pairs == LabelPairs(s, riders)
        rank(c) == Cardinality({d \in pairs : Better(s, d, c)})
        nth(n) == CHOOSE c \in pairs : rank(c) = n
        chosen[n \in 0..Cardinality(pairs)] ==
            IF n = 0 THEN {}
            ELSE IF \E c \in chosen[n - 1] : Collide(c, nth(n - 1)) THEN chosen[n - 1]
            ELSE chosen[n - 1] \cup {nth(n - 1)}
    IN  chosen[Cardinality(pairs)]

\* The persons that the detector of riders without a helmet observes.
Bareheaded == {c[1] : c \in {d \in labelled : d[2].class = "no_helmet"}}

\* RiderTemporalSmoother.update with the associations of a frame.
Smooth(seen) ==
    /\ riderFrame < MaxRiderFrames
    /\ riderFrame' = riderFrame + 1
    /\ relations' = Remaining(seen)
    /\ settled' = (settled \cup NewlySettled(seen)) \cap Remaining(seen)
    /\ matches' = [k \in Pairs |-> IF k \in Remaining(seen) THEN Matched(k, seen) ELSE 0]
    /\ rideGap' = [k \in Pairs |-> IF k \in Remaining(seen) \ seen THEN rideGap[k] + 1 ELSE 0]
    /\ riding' = seen
    /\ rode' = [p \in Persons |->
                  [rode[p] EXCEPT ![riderFrame + 1] =
                      IF \E m \in Motorcycles : <<p, m>> \in seen
                      THEN CHOOSE m \in Motorcycles : <<p, m>> \in seen ELSE Nobody]]

\* The associators and the smoother in a frame.
WatchRiders(s, seen) ==
    /\ Smooth(seen)
    /\ view' = s
    /\ labelled' = Labelled(s, {k[1] : k \in (settled \cup NewlySettled(seen)) \cap seen})

ForgetRiders == /\ riderFrame' = 0
                /\ relations' = {}
                /\ settled' = {}
                /\ matches' = [k \in Pairs |-> 0]
                /\ rideGap' = [k \in Pairs |-> 0]
                /\ riding' = {}
                /\ view' = EmptyScene
                /\ labelled' = {}
                /\ rode' = [p \in Persons |-> [f \in RiderFrames |-> Nobody]]

\* What the associator may make of each frame.
RiderChoices == [s \in RiderScenes |-> Associations(s.tracks)]

RidersNext == \/ \E s \in RiderScenes : \E seen \in RiderChoices[s] : WatchRiders(s, seen)
              \/ ForgetRiders

RidersSpec == RidersInit /\ [][RidersNext]_riderVars

-------------------------------------------------------------------------------

\* The person rode the motorcycle in all frames of a run that ends with frame f
\* and confirms it.
RodeAt(k, f) == /\ f >= RideConfirmation
                /\ \A n \in RiderFrames :
                      f < n + RideConfirmation /\ n <= f => rode[k[1]][n] = k[2]

\* It did not in frame f and as many before as end a relation.
LeftAt(k, f) == \A n \in RiderFrames : f <= n + MaxRideGap /\ n <= f => rode[k[1]][n] # k[2]

Rides(k) == \E f \in 1..riderFrame :
               /\ RodeAt(k, f)
               /\ \A n \in f..riderFrame : ~LeftAt(k, n)
               /\ \A m \in Motorcycles \ {k[2]}, n \in f..riderFrame : ~RodeAt(<<k[1], m>>, n)

\* A person is a confirmed rider exactly of the motorcycle that the person rode
\* last for long enough, until it is left for too long or another is ridden as
\* long: in particular never of two, whatever the associations do in between.
ConfirmedAsRidden == \A k \in Pairs : k \in settled <=> Rides(k)

\* No rider and no label that would rather have each other are left apart: every
\* candidate collides with an association that is at least as good, no person
\* has two labels and no label two persons.
LabelsStable ==
    /\ \A c, d \in labelled : c[1] = d[1] \/ c[2] = d[2] => c = d
    /\ \A p \in {k[1] : k \in settled \cap riding} : \A l \in view.labels :
          MayWear(PersonOf(view, p), l) =>
              \E c \in labelled : /\ c[1] = p \/ c[2] = l
                                  /\ HelmetScore(PersonOf(view, c[1]), c[2])
                                        >= HelmetScore(PersonOf(view, p), l)

===============================================================================
