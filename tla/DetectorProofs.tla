------------------------------- MODULE DetectorProofs -------------------------------
(***************************************************************************)
(* The detectors confirm exactly what the observations say, and a person   *)
(* is a confirmed rider exactly of what the person rode, for any keys,     *)
(* persons, motorcycles, lengths of confirmation and gaps, and videos.     *)
(* The labels of each frame are a stable choice.                           *)
(***************************************************************************)
EXTENDS ViolationDetector, RiderRelations, TLAPS, WellFoundedInduction, FiniteSetTheorems

\* The columns of a key without a state are 0, and no number is beyond the
\* last frame.
ColumnsAgree ==
    \A k \in Keys :
        /\ k \notin tracked => missed[k] = 0 /\ first[k] = 0 /\ confirmed[k] = 0
        /\ consecutive[k] <= frame /\ first[k] <= frame /\ confirmed[k] <= frame
        /\ observed[k] \subseteq 1..frame

\* The counters of a key describe the last frames in which it was observed.
CountersCount ==
    ~flushed =>
        \A k \in Keys, n \in Frames :
            /\ n <= frame /\ frame < n + consecutive[k] => n \in observed[k]
            /\ n + consecutive[k] = frame => n \notin observed[k]
            /\ k \in tracked => /\ n + missed[k] = frame => n \in observed[k]
                                /\ n <= frame /\ frame < n + missed[k] => n \notin observed[k]
                                /\ missed[k] < frame
            /\ k \notin tracked /\ n <= frame /\ frame <= n + MaximumMissedFrames => n \notin observed[k]

\* A run that is long enough is confirmed.
LongRunsConfirmed ==
    \A k \in Keys : consecutive[k] >= ConfirmationFrames => Confirmed(k)

\* No event is later than the last frame.
EventsPast == started \cup ended \subseteq Keys \X (0..frame)

DetectorInv == /\ DetectorTypeOK
               /\ ColumnsAgree
               /\ CountersCount
               /\ LongRunsConfirmed
               /\ EventsPast
               /\ ConfirmedInViolation
               /\ OpenAreConfirmed
               /\ CandidateUnbroken

-------------------------------------------------------------------------------
(* One frame *)

\* An update keeps the types.
LEMMA UpdateTypes ==
    ASSUME DetectorTypeOK, ColumnsAgree, NEW seen \in SUBSET Keys, Update(seen)
    PROVE  DetectorTypeOK'
<1> USE DetectorAssumption DEF DetectorTypeOK, Update, Frames
<1>1. frame' \in Frames /\ flushed' \in BOOLEAN /\ tracked' \subseteq Keys
  BY DEF Kept
<1>2. consecutive' \in [Keys -> Frames]
  BY DEF ColumnsAgree, Count
<1>3. missed' \in [Keys -> 0..MaximumMissedFrames]
  BY DEF ColumnsAgree, Kept, Lost
<1>4. first' \in [Keys -> Frames]
  BY DEF ColumnsAgree
<1>5. confirmed' \in [Keys -> Frames]
  BY DEF ColumnsAgree
<1>6. /\ transitions' \subseteq {"started", "ended"} \X Keys \X Frames
      /\ started' \subseteq Keys \X Frames
      /\ ended' \subseteq Keys \X Frames
  BY <1>5 DEF Emit
<1>7. observed' \in [Keys -> SUBSET Frames]
  <2>1. \A k \in Keys : (observed[k] \cup (IF k \in seen THEN {frame + 1} ELSE {})) \in SUBSET Frames
    OBVIOUS
  <2>. QED
    BY <2>1
<1>. QED
  BY <1>1, <1>2, <1>3, <1>4, <1>5, <1>6, <1>7

\* An update keeps the columns in agreement.
LEMMA UpdateColumns ==
    ASSUME DetectorTypeOK, ColumnsAgree, NEW seen \in SUBSET Keys, Update(seen)
    PROVE  ColumnsAgree'
<1> SUFFICES ASSUME NEW k \in Keys
             PROVE  /\ k \notin tracked' => missed'[k] = 0 /\ first'[k] = 0 /\ confirmed'[k] = 0
                    /\ consecutive'[k] <= frame' /\ first'[k] <= frame' /\ confirmed'[k] <= frame'
                    /\ observed'[k] \subseteq 1..frame'
  BY DEF ColumnsAgree
<1> USE DetectorAssumption DEF DetectorTypeOK, ColumnsAgree, Update, Frames
<1>1. k \notin tracked' => missed'[k] = 0 /\ first'[k] = 0 /\ confirmed'[k] = 0
  BY DEF Kept, Lost, Dated, Starts
<1>2. consecutive'[k] <= frame' /\ first'[k] <= frame' /\ confirmed'[k] <= frame'
  BY DEF Count, Starts, Lost, Kept
<1>3. observed'[k] \subseteq 1..frame'
  OBVIOUS
<1>. QED
  BY <1>1, <1>2, <1>3

\* What one more frame adds to the observations of a key.
LEMMA ObservedNext ==
    ASSUME DetectorTypeOK, ColumnsAgree, NEW seen \in SUBSET Keys, Update(seen), NEW k \in Keys
    PROVE  /\ frame' = frame + 1 /\ frame \in Nat /\ frame + 1 \in Frames
           /\ frame + 1 \in observed'[k] <=> k \in seen
           /\ \A n \in Frames : n <= frame => (n \in observed'[k] <=> n \in observed[k])
BY DetectorAssumption DEF DetectorTypeOK, ColumnsAgree, Update, Frames

\* The counters go on counting.
LEMMA UpdateCounters ==
    ASSUME DetectorTypeOK, ColumnsAgree, CountersCount, NEW seen \in SUBSET Keys, Update(seen)
    PROVE  CountersCount'
<1> SUFFICES ASSUME NEW k \in Keys, NEW n \in Frames
             PROVE  /\ n <= frame' /\ frame' < n + consecutive'[k] => n \in observed'[k]
                    /\ n + consecutive'[k] = frame' => n \notin observed'[k]
                    /\ k \in tracked' =>
                          /\ n + missed'[k] = frame' => n \in observed'[k]
                          /\ n <= frame' /\ frame' < n + missed'[k] => n \notin observed'[k]
                          /\ missed'[k] < frame'
                    /\ k \notin tracked' /\ n <= frame' /\ frame' <= n + MaximumMissedFrames
                          => n \notin observed'[k]
  BY DEF CountersCount, Frames
<1>0. n \in Nat /\ ~flushed /\ MaximumMissedFrames \in Nat /\ consecutive[k] \in Nat /\ missed[k] \in Nat
  BY DetectorAssumption DEF Frames, Update, DetectorTypeOK
<1>1. /\ n <= frame /\ frame < n + consecutive[k] => n \in observed[k]
      /\ n + consecutive[k] = frame => n \notin observed[k]
      /\ k \in tracked => /\ n + missed[k] = frame => n \in observed[k]
                          /\ n <= frame /\ frame < n + missed[k] => n \notin observed[k]
                          /\ missed[k] < frame
      /\ k \notin tracked /\ n <= frame /\ frame <= n + MaximumMissedFrames => n \notin observed[k]
  BY <1>0 DEF CountersCount
<1>2. CASE k \in seen
  <2>1. consecutive'[k] = consecutive[k] + 1 /\ missed'[k] = 0 /\ k \in tracked'
    BY <1>2 DEF Update, Count, Kept, Lost
  <2>. QED
    BY <1>0, <1>1, <1>2, <2>1, ObservedNext
<1>3. CASE k \notin seen /\ k \in tracked /\ ~Lost(k, seen)
  <2>1. consecutive'[k] = 0 /\ missed'[k] = missed[k] + 1 /\ k \in tracked'
    BY <1>3 DEF Update, Count, Kept
  <2>. QED
    BY <1>0, <1>1, <1>3, <2>1, ObservedNext
<1>4. CASE Lost(k, seen)
  <2>1. consecutive'[k] = 0 /\ k \notin tracked' /\ k \in tracked /\ k \notin seen
        /\ missed[k] + 1 > MaximumMissedFrames
    BY <1>4 DEF Update, Count, Kept, Lost
  <2>. QED
    BY <1>0, <1>1, <2>1, ObservedNext
<1>5. CASE k \notin seen /\ k \notin tracked
  <2>1. consecutive'[k] = 0 /\ k \notin tracked'
    BY <1>5 DEF Update, Count, Kept
  <2>. QED
    BY <1>0, <1>1, <1>5, <2>1, ObservedNext
<1>. QED
  BY <1>2, <1>3, <1>4, <1>5 DEF Lost

\* A run that reaches the length is confirmed by the same update.
LEMMA UpdateLongRuns ==
    ASSUME DetectorTypeOK, LongRunsConfirmed, NEW seen \in SUBSET Keys, Update(seen)
    PROVE  LongRunsConfirmed'
BY DetectorAssumption DEF LongRunsConfirmed, DetectorTypeOK, Update, Frames, Confirmed, Starts, Lost, Count

-------------------------------------------------------------------------------
(* Confirmation *)

\* What was said of earlier frames is still true of them.
LEMMA PastStays ==
    ASSUME DetectorTypeOK, ColumnsAgree, NEW seen \in SUBSET Keys, Update(seen),
           NEW k \in Keys, NEW f \in Frames, f <= frame
    PROVE  ConfirmedAt(k, f)' = ConfirmedAt(k, f) /\ LostAt(k, f)' = LostAt(k, f)
BY ObservedNext DEF ConfirmedAt, LostAt, Frames

\* A key is lost in the new frame if the update drops its state, and only then
\* if it had one.
LEMMA LostNow ==
    ASSUME DetectorTypeOK, ColumnsAgree, CountersCount, NEW seen \in SUBSET Keys, Update(seen), NEW k \in Keys
    PROVE  /\ Lost(k, seen) => LostAt(k, frame)'
           /\ k \in tracked \cup seen /\ ~Lost(k, seen) => ~LostAt(k, frame)'
<1> USE DetectorAssumption DEF Frames
<1>1. /\ missed[k] \in Nat /\ ~flushed
      /\ k \in tracked => missed[k] < frame /\ frame - missed[k] \in Frames
  BY DEF DetectorTypeOK, CountersCount, Update
<1>2. ASSUME Lost(k, seen) PROVE LostAt(k, frame)'
  <2>1. k \in tracked /\ k \notin seen /\ missed[k] >= MaximumMissedFrames
    BY <1>1, <1>2 DEF Lost
  <2>2. \A n \in Frames : n <= frame /\ frame < n + missed[k] => n \notin observed[k]
    BY <1>1, <2>1 DEF CountersCount
  <2>. QED
    BY <1>1, <2>1, <2>2, ObservedNext DEF LostAt
<1>3. ASSUME k \in tracked \cup seen, ~Lost(k, seen) PROVE ~LostAt(k, frame)'
  <2>1. CASE k \in seen
    BY <2>1, ObservedNext DEF LostAt
  <2>2. CASE k \notin seen
    <3>1. k \in tracked /\ missed[k] + 1 <= MaximumMissedFrames
      BY <1>1, <1>3, <2>2 DEF Lost
    <3>2. PICK n \in Frames : n + missed[k] = frame
      BY <1>1, <3>1, ObservedNext
    <3>3. n \in observed[k]
      BY <1>1, <3>1, <3>2 DEF CountersCount
    <3>. QED
      BY <1>1, <3>1, <3>2, <3>3, ObservedNext DEF LostAt
  <2>. QED
    BY <2>1, <2>2
<1>. QED
  BY <1>2, <1>3

\* The new frame ends a run that confirms a key exactly if the key is counted
\* often enough.
LEMMA RunNow ==
    ASSUME DetectorTypeOK, ColumnsAgree, CountersCount, NEW seen \in SUBSET Keys, Update(seen), NEW k \in Keys
    PROVE  ConfirmedAt(k, frame)' <=> k \in seen /\ consecutive[k] + 1 >= ConfirmationFrames
<1> USE DetectorAssumption DEF Frames
<1>1. consecutive[k] \in Nat /\ consecutive[k] <= frame /\ ~flushed
  BY DEF DetectorTypeOK, ColumnsAgree, Update
<1>2. ASSUME k \in seen, consecutive[k] + 1 >= ConfirmationFrames PROVE ConfirmedAt(k, frame)'
  <2>1. \A n \in Frames : n <= frame /\ frame < n + consecutive[k] => n \in observed[k]
    BY <1>1 DEF CountersCount
  <2>. QED
    BY <1>1, <1>2, <2>1, ObservedNext DEF ConfirmedAt
<1>3. ASSUME ConfirmedAt(k, frame)' PROVE k \in seen /\ consecutive[k] + 1 >= ConfirmationFrames
  <2>1. k \in seen
    BY <1>3, ObservedNext DEF ConfirmedAt
  <2>2. frame - consecutive[k] \in Frames /\ frame - consecutive[k] \notin observed[k]
    BY <1>1, ObservedNext DEF CountersCount
  <2>. QED
    BY <1>1, <1>3, <2>1, <2>2, ObservedNext DEF ConfirmedAt
<1>. QED
  BY <1>2, <1>3

\* An update confirms and drops states as the observations say.
LEMMA UpdateConfirmed ==
    ASSUME DetectorTypeOK, ColumnsAgree, CountersCount, ConfirmedInViolation,
           NEW seen \in SUBSET Keys, Update(seen)
    PROVE  ConfirmedInViolation'
<1> SUFFICES ASSUME NEW k \in Keys PROVE Confirmed(k)' <=> InViolation(k)'
  BY DEF ConfirmedInViolation
<1> USE DetectorAssumption
<1>0. /\ frame \in Nat /\ frame' = frame + 1 /\ frame + 1 \in Frames /\ frame \in Frames
      /\ Frames = 0..MaxFrames
  BY ObservedNext DEF Frames, DetectorTypeOK
<1>1. Confirmed(k) <=> InViolation(k)
  BY DEF ConfirmedInViolation, Update
<1>2. confirmed'[k] = IF Starts(k, seen) THEN frame + 1 ELSE IF Lost(k, seen) THEN 0 ELSE confirmed[k]
  BY DEF Update
<1>3. CASE Starts(k, seen)
  <2>1. Confirmed(k)'
    BY <1>0, <1>2, <1>3 DEF Confirmed
  <2>2. ConfirmedAt(k, frame)'
    BY <1>3, RunNow DEF Starts, Count
  <2>3. ~LostAt(k, frame)'
    BY <1>3, LostNow DEF Starts, Lost
  <2>4. InViolation(k)'
    BY <1>0, <2>2, <2>3 DEF InViolation
  <2>. QED
    BY <2>1, <2>4
<1>4. CASE ~Starts(k, seen) /\ Lost(k, seen)
  <2>1. ~Confirmed(k)'
    BY <1>2, <1>4 DEF Confirmed
  <2>2. LostAt(k, frame)'
    BY <1>4, LostNow
  <2>. QED
    BY <1>0, <2>1, <2>2 DEF InViolation
<1>5. CASE ~Starts(k, seen) /\ ~Lost(k, seen) /\ Confirmed(k)
  <2>1. Confirmed(k)'
    BY <1>2, <1>5 DEF Confirmed
  <2>2. PICK f \in 1..frame : ConfirmedAt(k, f) /\ \A n \in f..frame : ~LostAt(k, n)
    BY <1>1, <1>5 DEF InViolation
  <2>3. ConfirmedAt(k, f)'
    BY <1>0, <2>2, PastStays
  <2>4. \A n \in f..frame : ~LostAt(k, n)'
    BY <1>0, <2>2, PastStays
  <2>5. ~LostAt(k, frame)'
    BY <1>5, LostNow DEF ColumnsAgree, Confirmed
  <2>6. \A n \in f..(frame + 1) : ~LostAt(k, n)'
    BY <1>0, <2>4, <2>5
  <2>. QED
    BY <1>0, <2>1, <2>3, <2>6 DEF InViolation
<1>6. CASE ~Starts(k, seen) /\ ~Lost(k, seen) /\ ~Confirmed(k)
  <2>1. ~Confirmed(k)'
    BY <1>2, <1>6 DEF Confirmed
  <2>2. ~ConfirmedAt(k, frame)'
    BY <1>6, RunNow DEF Starts, Count
  <2>3. SUFFICES ASSUME NEW f \in 1..frame, ConfirmedAt(k, f)', \A n \in f..(frame + 1) : ~LostAt(k, n)'
                 PROVE  FALSE
    BY <1>0, <2>1, <2>2 DEF InViolation
  <2>4. ConfirmedAt(k, f) /\ \A n \in f..frame : ~LostAt(k, n)
    BY <1>0, <2>3, PastStays
  <2>. QED
    BY <1>1, <1>6, <2>4 DEF InViolation
<1>. QED
  BY <1>3, <1>4, <1>5, <1>6

-------------------------------------------------------------------------------
(* Events and candidates *)

\* An update opens and closes events with the states it confirms and drops.
LEMMA UpdateEvents ==
    ASSUME DetectorTypeOK, ColumnsAgree, EventsPast, OpenAreConfirmed, NEW seen \in SUBSET Keys, Update(seen)
    PROVE  /\ EventsPast'
           /\ OpenAreConfirmed'
<1>1. frame \in Nat /\ frame' = frame + 1
  BY DetectorAssumption DEF DetectorTypeOK, Update, Frames
<1>2. \A k \in Keys :
         /\ Starts(k, seen) => ~Lost(k, seen) /\ ~Confirmed(k) /\ confirmed'[k] = frame + 1
         /\ ~Starts(k, seen) => confirmed'[k] = (IF Lost(k, seen) THEN 0 ELSE confirmed[k])
  BY DEF Update, Starts, Lost
<1>3. started' = started \cup {<<k, frame + 1>> : k \in {j \in Keys : Starts(j, seen)}}
  BY <1>2 DEF Update, Emit
<1>4. ended' = ended \cup {<<k, confirmed[k]>> : k \in {j \in Keys : Lost(j, seen) /\ Confirmed(j)}}
  BY DEF Update, Emit, Ends
<1>5. EventsPast'
  BY <1>1, <1>3, <1>4 DEF EventsPast, ColumnsAgree, DetectorTypeOK, Frames
<1>6. OpenAreConfirmed'
  <2>1. \A v \in Keys \X (0..frame) : v # <<v[1], frame + 1>>
    BY <1>1
  <2>2. started' \ ended' \subseteq {<<k, confirmed'[k]>> : k \in {j \in Keys : Confirmed(j)'}}
    BY <1>1, <1>2, <1>3, <1>4 DEF OpenAreConfirmed, EventsPast, Confirmed
  <2>3. {<<k, confirmed'[k]>> : k \in {j \in Keys : Confirmed(j)'}} \subseteq started' \ ended'
    BY <1>1, <1>2, <1>3, <1>4 DEF OpenAreConfirmed, EventsPast, ColumnsAgree, Confirmed
  <2>. QED
    BY <2>2, <2>3 DEF OpenAreConfirmed
<1>. QED
  BY <1>5, <1>6

\* An update keeps the evidence of candidates unbroken.
LEMMA UpdateCandidates ==
    ASSUME DetectorTypeOK, ColumnsAgree, CountersCount, ConfirmedInViolation, CandidateUnbroken,
           NEW seen \in SUBSET Keys, Update(seen)
    PROVE  CandidateUnbroken'
<1> SUFFICES ASSUME NEW k \in tracked'
             PROVE  /\ first'[k] \in observed'[k]
                    /\ \A f \in first'[k]..frame' : ~LostAt(k, f)'
                    /\ k \in LaneKeys =>
                          first'[k]..(IF Confirmed(k)' THEN confirmed'[k] ELSE frame' - missed'[k])
                              \subseteq observed'[k]
  BY DEF CandidateUnbroken
<1> USE DetectorAssumption
<1>0. /\ frame \in Nat /\ frame' = frame + 1 /\ frame + 1 \in Frames /\ Frames = 0..MaxFrames
      /\ k \in Keys /\ k \in tracked \cup seen /\ ~Lost(k, seen) /\ ~LostAt(k, frame)'
      /\ missed[k] \in Nat /\ first[k] \in Nat /\ confirmed[k] \in Nat
  BY ObservedNext, LostNow DEF Update, Kept, DetectorTypeOK, Frames
<1>1. CASE Dated(k, seen)
  <2>1. first'[k] = frame + 1 /\ missed'[k] = 0 /\ k \in seen /\ frame + 1 \in observed'[k]
    BY <1>0, <1>1, ObservedNext DEF Dated, Update
  <2>2. Confirmed(k)' => confirmed'[k] = frame + 1
    BY <1>0, <1>1 DEF Dated, Update, Confirmed, ColumnsAgree
  <2>. QED
    BY <1>0, <2>1, <2>2
<1>2. CASE ~Dated(k, seen)
  <2>1. k \in tracked /\ first'[k] = first[k]
    BY <1>0, <1>2 DEF Dated, Update
  <2>2. /\ first[k] \in observed[k]
        /\ \A f \in first[k]..frame : ~LostAt(k, f)
        /\ k \in LaneKeys =>
              first[k]..(IF Confirmed(k) THEN confirmed[k] ELSE frame - missed[k]) \subseteq observed[k]
    BY <2>1 DEF CandidateUnbroken
  <2>3. first'[k] \in observed'[k]
    BY <2>1, <2>2, <1>0 DEF Update
  <2>4. \A f \in first[k]..frame : ~LostAt(k, f)'
    BY <1>0, <2>2, PastStays
  <2>5. \A f \in first'[k]..frame' : ~LostAt(k, f)'
    <3> SUFFICES ASSUME NEW f \in first'[k]..frame' PROVE ~LostAt(k, f)'
      OBVIOUS
    <3>1. CASE f = frame'
      BY <3>1, <1>0
    <3>2. CASE f # frame'
      BY <3>2, <1>0, <2>1, <2>4
    <3>. QED
      BY <3>1, <3>2
  <2>6. ASSUME k \in LaneKeys
        PROVE  first'[k]..(IF Confirmed(k)' THEN confirmed'[k] ELSE frame' - missed'[k]) \subseteq observed'[k]
    <3>1. observed[k] \subseteq observed'[k] /\ (k \in seen => frame + 1 \in observed'[k])
      BY <1>0 DEF Update
    <3>2. CASE Confirmed(k)
      <4>1. Confirmed(k)' /\ confirmed'[k] = confirmed[k]
        BY <1>0, <3>2 DEF Update, Starts, Confirmed
      <4>. QED
        BY <2>1, <2>2, <2>6, <3>1, <3>2, <4>1
    <3>3. CASE ~Confirmed(k) /\ k \in seen
      <4>1. missed[k] = 0 /\ missed'[k] = 0
        BY <1>0, <1>2, <2>1, <2>6, <3>3 DEF Dated, Update
      <4>2. Confirmed(k)' => confirmed'[k] = frame + 1
        BY <1>0, <3>3 DEF Update, Confirmed
      <4>3. first[k]..frame \subseteq observed[k]
        BY <1>0, <2>2, <2>6, <3>3, <4>1
      <4>. QED
        BY <1>0, <2>1, <3>1, <3>3, <4>1, <4>2, <4>3
    <3>4. CASE ~Confirmed(k) /\ k \notin seen
      <4>1. ~Confirmed(k)' /\ missed'[k] = missed[k] + 1
        BY <1>0, <2>1, <3>4 DEF Update, Confirmed, Starts
      <4>2. frame' - missed'[k] = frame - missed[k]
        BY <1>0, <4>1
      <4>. QED
        BY <2>1, <2>2, <2>6, <3>1, <3>4, <4>1, <4>2
    <3>. QED
      BY <3>2, <3>3, <3>4
  <2>. QED
    BY <2>3, <2>5, <2>6
<1>. QED
  BY <1>1, <1>2

-------------------------------------------------------------------------------
(* The end of a video and the start of the next *)

\* Flush leaves no state and no open event.
LEMMA FlushStep ==
    ASSUME DetectorInv, Flush
    PROVE  DetectorInv'
<1> USE DetectorAssumption DEF DetectorInv, Flush, Clear
<1>0. DetectorTypeOK /\ frame \in Nat /\ 0 \in Frames
  BY DEF DetectorTypeOK, Frames
<1>1. DetectorTypeOK'
  BY <1>0 DEF DetectorTypeOK, Emit, Frames
<1>2. ColumnsAgree' /\ LongRunsConfirmed' /\ CandidateUnbroken'
  BY <1>0 DEF ColumnsAgree, LongRunsConfirmed, CandidateUnbroken
<1>3. CountersCount' /\ ConfirmedInViolation'
  BY DEF CountersCount, ConfirmedInViolation
<1>4. EventsPast'
  BY <1>0 DEF EventsPast, Emit, ColumnsAgree, DetectorTypeOK, Frames
<1>5. OpenAreConfirmed'
  <2>1. \A k \in Keys : Confirmed(k) => k \in tracked
    BY DEF ColumnsAgree, Confirmed
  <2>2. started' = started /\ ended' = ended \cup {<<k, confirmed[k]>> : k \in {j \in Keys : Confirmed(j)}}
    BY <1>0, <2>1 DEF Emit, DetectorTypeOK
  <2>3. \A k \in Keys : ~Confirmed(k)'
    BY DEF Confirmed
  <2>. QED
    BY <2>2, <2>3 DEF OpenAreConfirmed
<1>. QED
  BY <1>1, <1>2, <1>3, <1>4, <1>5

\* Nothing of a video is left when the next begins.
LEMMA FreshInv ==
    ASSUME DetectorInit
    PROVE  DetectorInv
<1> USE DetectorAssumption DEF DetectorInit, DetectorInv
<1>1. DetectorTypeOK
  <2>1. 0 \in Frames /\ 0 \in 0..MaximumMissedFrames
    BY DEF Frames
  <2>. QED
    BY <2>1 DEF DetectorTypeOK
<1>2. ColumnsAgree /\ LongRunsConfirmed /\ CandidateUnbroken /\ CountersCount /\ EventsPast
  BY DEF ColumnsAgree, LongRunsConfirmed, CandidateUnbroken, CountersCount, EventsPast, Frames
<1>3. ConfirmedInViolation /\ OpenAreConfirmed
  BY DEF ConfirmedInViolation, OpenAreConfirmed, Confirmed, InViolation
<1>. QED
  BY <1>1, <1>2, <1>3

\* The same of the state after a reset.
LEMMA ResetStep ==
    ASSUME Reset
    PROVE  DetectorInv'
<1> USE DetectorAssumption DEF Reset, Clear, DetectorInv
<1>1. DetectorTypeOK'
  <2>1. 0 \in Frames /\ 0 \in 0..MaximumMissedFrames
    BY DEF Frames
  <2>. QED
    BY <2>1 DEF DetectorTypeOK
<1>2. ColumnsAgree' /\ LongRunsConfirmed' /\ CandidateUnbroken' /\ CountersCount' /\ EventsPast'
  BY DEF ColumnsAgree, LongRunsConfirmed, CandidateUnbroken, CountersCount, EventsPast, Frames
<1>3. ConfirmedInViolation' /\ OpenAreConfirmed'
  BY DEF ConfirmedInViolation, OpenAreConfirmed, Confirmed, InViolation
<1>. QED
  BY <1>1, <1>2, <1>3

-------------------------------------------------------------------------------
(* Theorems *)

LEMMA InvHolds == DetectorSpec => []DetectorInv
<1>1. DetectorInv /\ [DetectorNext]_detectorVars => DetectorInv'
  <2> SUFFICES ASSUME DetectorInv, [DetectorNext]_detectorVars PROVE DetectorInv'
    OBVIOUS
  <2>1. ASSUME NEW seen \in SUBSET Keys, Update(seen) PROVE DetectorInv'
    BY <2>1, UpdateTypes, UpdateColumns, UpdateCounters, UpdateLongRuns, UpdateConfirmed, UpdateEvents,
       UpdateCandidates DEF DetectorInv
  <2>2. CASE UNCHANGED detectorVars
    BY <2>2 DEF detectorVars, statesOf, DetectorInv, DetectorTypeOK, ColumnsAgree, CountersCount,
       LongRunsConfirmed, EventsPast, ConfirmedInViolation, OpenAreConfirmed, CandidateUnbroken, Confirmed,
       InViolation, ConfirmedAt, LostAt
  <2>. QED
    BY <2>1, <2>2, FlushStep, ResetStep DEF DetectorNext
<1>. QED
  BY <1>1, FreshInv, PTL DEF DetectorSpec

\* The detectors keep their types: in particular no state outlives its gap.
THEOREM DetectorTypeCorrect == DetectorSpec => []DetectorTypeOK
BY InvHolds, PTL DEF DetectorInv

\* A key has a confirmed state exactly while the observations say that it is in
\* violation.
THEOREM ConfirmationsAreRight == DetectorSpec => []ConfirmedInViolation
BY InvHolds, PTL DEF DetectorInv

\* The events that are open are those of the confirmed states; none is once the
\* video has ended.
THEOREM OpenEventsAreConfirmed == DetectorSpec => []OpenAreConfirmed
BY InvHolds, PTL DEF DetectorInv

\* The evidence of a candidate is unbroken.
THEOREM CandidatesUnbroken == DetectorSpec => []CandidateUnbroken
BY InvHolds, PTL DEF DetectorInv

\* Starts and ends come in pairs, and no two events share a key.
THEOREM EventsArePaired == DetectorSpec => TransitionsPaired
<1>1. ASSUME DetectorInv, [DetectorNext]_detectorVars
      PROVE  [\A t \in transitions' : Paired(t)]_detectorVars
  <2> USE DetectorAssumption DEF DetectorInv, Paired
  <2>1. ASSUME NEW seen \in SUBSET Keys, Update(seen), NEW t \in transitions' PROVE Paired(t)
    <3>0. frame \in Nat /\ frame' = frame + 1
      BY <1>1, <2>1 DEF DetectorTypeOK, Update, Frames
    <3>1. CASE \E k \in Keys : Starts(k, seen) /\ t = <<"started", k, confirmed'[k]>>
      <4>1. PICK k \in Keys : Starts(k, seen) /\ t = <<"started", k, confirmed'[k]>>
        BY <3>1
      <4>2. confirmed'[k] = frame + 1 /\ ~Confirmed(k)
        BY <2>1, <4>1 DEF Update, Starts
      <4>3. <<k, frame + 1>> \notin started
        BY <1>1, <3>0 DEF EventsPast
      <4>4. \A w \in started \ ended : w[1] # k
        BY <1>1, <4>2 DEF OpenAreConfirmed
      <4>. QED
        BY <4>1, <4>2, <4>3, <4>4
    <3>2. CASE \E k \in Keys : Ends(k, seen) /\ t = <<"ended", k, confirmed[k]>>
      BY <1>1, <3>2 DEF Ends, OpenAreConfirmed
    <3>. QED
      BY <2>1, <3>1, <3>2 DEF Update, Emit
  <2>2. ASSUME Flush, NEW t \in transitions' PROVE Paired(t)
    BY <1>1, <2>2 DEF Flush, Emit, OpenAreConfirmed, DetectorTypeOK
  <2>3. ASSUME Reset PROVE transitions' = {}
    BY <2>3 DEF Reset
  <2>. QED
    BY <1>1, <2>1, <2>2, <2>3 DEF DetectorNext
<1>2. DetectorInv /\ [DetectorNext]_detectorVars => [\A t \in transitions' : Paired(t)]_detectorVars
  BY <1>1
<1>. QED
  BY <1>2, InvHolds, PTL DEF DetectorSpec, TransitionsPaired

-------------------------------------------------------------------------------
(* The riders.  How they are scored plays no part in this, only that a     *)
(* frame gives no person to two motorcycles.                               *)

\* The types of the relations and of the history.
RelationsOK == /\ riderFrame \in RiderFrames
               /\ relations \subseteq Pairs
               /\ settled \subseteq relations
               /\ matches \in [Pairs -> Nat]
               /\ rideGap \in [Pairs -> Nat]
               /\ DOMAIN rode = Persons
               /\ \A p \in Persons : DOMAIN rode[p] = RiderFrames

\* The matches of a relation are the last frames in which it was ridden, and are
\* confirmed if there are enough.
MatchesCount ==
    \A k \in Pairs :
        /\ matches[k] <= riderFrame
        /\ matches[k] >= RideConfirmation => k \in settled
        /\ \A n \in RiderFrames :
              /\ n <= riderFrame /\ riderFrame < n + matches[k] => rode[k[1]][n] = k[2]
              /\ n + matches[k] = riderFrame => rode[k[1]][n] # k[2]

\* The gap of a relation are the frames since it was ridden last, and a pair
\* without a relation was not ridden in the last frame.
GapsCount ==
    \A k \in Pairs :
        IF k \in relations
        THEN /\ rideGap[k] < riderFrame
             /\ \A n \in RiderFrames :
                   /\ n + rideGap[k] = riderFrame => rode[k[1]][n] = k[2]
                   /\ n <= riderFrame /\ riderFrame < n + rideGap[k] => rode[k[1]][n] # k[2]
        ELSE /\ rode[k[1]][riderFrame] # k[2]
             /\ matches[k] = 0 /\ rideGap[k] = 0

RiderInv == RelationsOK /\ MatchesCount /\ GapsCount /\ ConfirmedAsRidden

\* No person is given to two motorcycles.
OneEach(seen) == /\ seen \subseteq Pairs
                 /\ \A j, k \in seen : j[1] = k[1] => j = k

-------------------------------------------------------------------------------
(* One frame *)

\* The solver yields a set of pairs in which nothing occurs twice.
LEMMA AssignmentsMatch ==
    ASSUME NEW pairs, NEW A \in Assignments(pairs, PlaceCost)
    PROVE  A \subseteq pairs /\ \A a, b \in A : a[1] = b[1] \/ a[2] = b[2] => a = b
<1>1. A \in Matchings(pairs)
  BY DEF Assignments
<1>. QED
  BY <1>1 DEF Matchings

\* So does the associator.
LEMMA AssociationsMatch ==
    ASSUME NEW s \in RiderScenes, NEW seen \in RiderChoices[s]
    PROVE  OneEach(seen)
<1> DEFINE pairs == {a \in OfClass(s.tracks, "person") \X Places(s.tracks) : MayRide(a[1], a[2][1])}
<1>1. PICK A \in Assignments(pairs, PlaceCost) : seen = {<<a[1].id, a[2][1].id>> : a \in A}
  BY DEF RiderChoices, Associations
<1>2. A \subseteq pairs /\ \A a, b \in A : a[1] = b[1] \/ a[2] = b[2] => a = b
  BY AssignmentsMatch
<1>3. \A a \in A : /\ a[1] \in s.tracks /\ a[1].id \in Persons
                   /\ a[2][1].id \in Motorcycles
  BY <1>2, RidersAssumption DEF OfClass, Places
<1>4. seen \subseteq Pairs
  BY <1>1, <1>3 DEF Pairs
<1>5. \A j, k \in seen : j[1] = k[1] => j = k
  <2> SUFFICES ASSUME NEW a \in A, NEW b \in A, a[1].id = b[1].id PROVE a = b
    BY <1>1
  <2>1. a[1] = b[1]
    BY <1>3, RidersAssumption
  <2>. QED
    BY <1>2, <2>1
<1>. QED
  BY <1>4, <1>5 DEF OneEach

\* What one more frame adds to the history of a person.
LEMMA RodeNext ==
    ASSUME RelationsOK, NEW seen, OneEach(seen), Smooth(seen), NEW k \in Pairs
    PROVE  /\ riderFrame \in Nat /\ riderFrame' = riderFrame + 1
           /\ riderFrame \in RiderFrames /\ riderFrame + 1 \in RiderFrames /\ RiderFrames = 0..MaxRiderFrames
           /\ rode'[k[1]][riderFrame + 1] = k[2] <=> k \in seen
           /\ \A n \in RiderFrames : n <= riderFrame => rode'[k[1]][n] = rode[k[1]][n]
<1>0. k = <<k[1], k[2]>> /\ k[1] \in Persons /\ k[2] \in Motorcycles /\ MaxRiderFrames \in Nat
  BY RidersAssumption DEF Pairs
<1>1. /\ riderFrame \in Nat /\ riderFrame' = riderFrame + 1
      /\ riderFrame \in RiderFrames /\ riderFrame + 1 \in RiderFrames /\ RiderFrames = 0..MaxRiderFrames
  BY RidersAssumption DEF Smooth, RelationsOK, RiderFrames
<1> DEFINE new == IF \E m \in Motorcycles : <<k[1], m>> \in seen
                  THEN CHOOSE m \in Motorcycles : <<k[1], m>> \in seen ELSE Nobody
<1>2. rode'[k[1]] = [rode[k[1]] EXCEPT ![riderFrame + 1] = new]
  BY <1>0 DEF Smooth
<1>3. new = k[2] <=> k \in seen
  <2>1. CASE \E m \in Motorcycles : <<k[1], m>> \in seen
    <3>1. new \in Motorcycles /\ <<k[1], new>> \in seen
      BY <2>1
    <3>. QED
      BY <1>0, <3>1 DEF OneEach
  <2>2. CASE ~\E m \in Motorcycles : <<k[1], m>> \in seen
    BY <1>0, <2>2, RidersAssumption
  <2>. QED
    BY <2>1, <2>2
<1>4. DOMAIN rode[k[1]] = RiderFrames
  BY <1>0 DEF RelationsOK
<1>5. \A n \in RiderFrames : rode'[k[1]][n] = IF n = riderFrame + 1 THEN new ELSE rode[k[1]][n]
  BY <1>2, <1>4
<1>6. rode'[k[1]][riderFrame + 1] = k[2] <=> k \in seen
  <2>1. rode'[k[1]][riderFrame + 1] = new
    BY <1>1, <1>5
  <2>. HIDE DEF new
  <2>. QED
    BY <1>3, <2>1
<1>7. \A n \in RiderFrames : n <= riderFrame => rode'[k[1]][n] = rode[k[1]][n]
  <2> SUFFICES ASSUME NEW n \in RiderFrames, n <= riderFrame PROVE rode'[k[1]][n] = rode[k[1]][n]
    OBVIOUS
  <2>1. n # riderFrame + 1
    BY <1>0, <1>1
  <2>. QED
    BY <1>5, <2>1
<1>. QED
  BY <1>1, <1>6, <1>7

\* No relation that is ridden ends.
LEMMA RiddenRemain ==
    ASSUME NEW seen, OneEach(seen)
    PROVE  seen \subseteq Remaining(seen) /\ NewlySettled(seen) \subseteq seen
BY DEF OneEach, Remaining, Overdue, Dropped, NewlySettled

\* A frame keeps the types.
LEMMA SmoothTypes ==
    ASSUME RelationsOK, NEW seen, OneEach(seen), Smooth(seen)
    PROVE  RelationsOK'
<1>1. riderFrame' \in RiderFrames
  BY RidersAssumption DEF RelationsOK, Smooth, RiderFrames
<1>2. relations' \subseteq Pairs /\ settled' \subseteq relations'
  BY DEF RelationsOK, OneEach, Smooth, Remaining
<1>3. matches' \in [Pairs -> Nat]
  BY DEF RelationsOK, Smooth, Matched
<1>4. rideGap' \in [Pairs -> Nat]
  BY DEF RelationsOK, Smooth
<1>5. DOMAIN rode' = Persons /\ \A p \in Persons : DOMAIN rode'[p] = RiderFrames
  BY DEF RelationsOK, Smooth
<1>. QED
  BY <1>1, <1>2, <1>3, <1>4, <1>5 DEF RelationsOK

\* The matches go on counting.
LEMMA SmoothMatches ==
    ASSUME RelationsOK, MatchesCount, GapsCount, NEW seen, OneEach(seen), Smooth(seen)
    PROVE  MatchesCount'
<1> SUFFICES ASSUME NEW k \in Pairs
             PROVE  /\ matches'[k] <= riderFrame'
                    /\ matches'[k] >= RideConfirmation => k \in settled'
                    /\ \A n \in RiderFrames :
                          /\ n <= riderFrame' /\ riderFrame' < n + matches'[k] => rode'[k[1]][n] = k[2]
                          /\ n + matches'[k] = riderFrame' => rode'[k[1]][n] # k[2]
  BY DEF MatchesCount, RiderFrames
<1>0. RideConfirmation \in Nat \ {0} /\ matches[k] \in Nat /\ MaxRiderFrames \in Nat
  BY RidersAssumption DEF RelationsOK
<1>1. /\ riderFrame \in Nat /\ riderFrame' = riderFrame + 1
      /\ riderFrame \in RiderFrames /\ riderFrame + 1 \in RiderFrames /\ RiderFrames = 0..MaxRiderFrames
      /\ rode'[k[1]][riderFrame + 1] = k[2] <=> k \in seen
      /\ \A n \in RiderFrames : n <= riderFrame => rode'[k[1]][n] = rode[k[1]][n]
  BY RodeNext
<1>2. /\ matches[k] <= riderFrame /\ (matches[k] >= RideConfirmation => k \in settled)
      /\ \A n \in RiderFrames :
            /\ n <= riderFrame /\ riderFrame < n + matches[k] => rode[k[1]][n] = k[2]
            /\ n + matches[k] = riderFrame => rode[k[1]][n] # k[2]
  BY DEF MatchesCount
<1>3. matches'[k] = IF k \in seen THEN matches[k] + 1 ELSE 0
  BY RiddenRemain DEF Smooth, Matched
<1>4. CASE k \in seen
  <2>1. matches'[k] >= RideConfirmation => k \in settled'
    BY <1>3, <1>4, RiddenRemain DEF Smooth, NewlySettled, Matched
  <2>2. matches'[k] = matches[k] + 1
    BY <1>3, <1>4
  <2>3. matches'[k] <= riderFrame'
    BY <1>0, <1>1, <1>2, <2>2
  <2>4. ASSUME NEW n \in RiderFrames
        PROVE  /\ n <= riderFrame' /\ riderFrame' < n + matches'[k] => rode'[k[1]][n] = k[2]
               /\ n + matches'[k] = riderFrame' => rode'[k[1]][n] # k[2]
    <3>1. CASE n = riderFrame + 1
      BY <1>0, <1>1, <1>4, <2>2, <3>1
    <3>2. CASE n # riderFrame + 1
      <4>1. n \in Nat
        BY <1>0, <1>1
      <4>2. n <= riderFrame => rode'[k[1]][n] = rode[k[1]][n]
        BY <1>1
      <4>3. /\ n <= riderFrame /\ riderFrame < n + matches[k] => rode[k[1]][n] = k[2]
            /\ n + matches[k] = riderFrame => rode[k[1]][n] # k[2]
        BY <1>2
      <4>4. riderFrame \in Nat /\ riderFrame' = riderFrame + 1 /\ matches[k] \in Nat
        BY <1>0, <1>1
      <4>. QED
        BY <2>2, <3>2, <4>1, <4>2, <4>3, <4>4
    <3>. QED
      BY <3>1, <3>2
  <2>. QED
    BY <2>1, <2>3, <2>4
<1>5. CASE k \notin seen
  BY <1>0, <1>1, <1>3, <1>5
<1>. QED
  BY <1>4, <1>5

\* So do the gaps.
LEMMA SmoothGaps ==
    ASSUME RelationsOK, GapsCount, NEW seen, OneEach(seen), Smooth(seen)
    PROVE  GapsCount'
<1> SUFFICES ASSUME NEW k \in Pairs
             PROVE  IF k \in relations'
                    THEN /\ rideGap'[k] < riderFrame'
                         /\ \A n \in RiderFrames :
                               /\ n + rideGap'[k] = riderFrame' => rode'[k[1]][n] = k[2]
                               /\ n <= riderFrame' /\ riderFrame' < n + rideGap'[k] => rode'[k[1]][n] # k[2]
                    ELSE /\ rode'[k[1]][riderFrame'] # k[2]
                         /\ matches'[k] = 0 /\ rideGap'[k] = 0
  BY DEF GapsCount, RiderFrames
<1>1. /\ riderFrame \in Nat /\ riderFrame' = riderFrame + 1
      /\ riderFrame \in RiderFrames /\ riderFrame + 1 \in RiderFrames /\ RiderFrames = 0..MaxRiderFrames
      /\ rode'[k[1]][riderFrame + 1] = k[2] <=> k \in seen
      /\ \A n \in RiderFrames : n <= riderFrame => rode'[k[1]][n] = rode[k[1]][n]
  BY RodeNext
<1>2. /\ relations' = Remaining(seen) /\ rideGap[k] \in Nat /\ MaxRiderFrames \in Nat
      /\ rideGap'[k] = IF k \in Remaining(seen) /\ k \notin seen THEN rideGap[k] + 1 ELSE 0
      /\ k \notin Remaining(seen) => matches'[k] = 0
  BY RidersAssumption DEF Smooth, RelationsOK
<1>3. CASE k \in seen
  <2>1. k \in relations' /\ rideGap'[k] = 0
    BY <1>2, <1>3, RiddenRemain
  <2>. QED
    BY <1>1, <1>3, <2>1
<1>4. CASE k \notin seen /\ k \in Remaining(seen)
  <2>1. k \in relations
    BY <1>4 DEF Remaining
  <2>2. /\ rideGap[k] < riderFrame
        /\ \A n \in RiderFrames :
              /\ n + rideGap[k] = riderFrame => rode[k[1]][n] = k[2]
              /\ n <= riderFrame /\ riderFrame < n + rideGap[k] => rode[k[1]][n] # k[2]
    BY <2>1 DEF GapsCount
  <2>3. k \in relations' /\ rideGap'[k] = rideGap[k] + 1
    BY <1>2, <1>4
  <2>4. ASSUME NEW n \in RiderFrames
        PROVE  /\ n + rideGap'[k] = riderFrame' => rode'[k[1]][n] = k[2]
               /\ n <= riderFrame' /\ riderFrame' < n + rideGap'[k] => rode'[k[1]][n] # k[2]
    <3>1. /\ n + rideGap[k] = riderFrame => rode[k[1]][n] = k[2]
          /\ n <= riderFrame /\ riderFrame < n + rideGap[k] => rode[k[1]][n] # k[2]
      BY <2>2
    <3>2. n <= riderFrame => rode'[k[1]][n] = rode[k[1]][n]
      BY <1>1
    <3>3. n = riderFrame + 1 => rode'[k[1]][n] # k[2]
      BY <1>1, <1>4
    <3>4. n \in Nat /\ riderFrame \in Nat /\ riderFrame' = riderFrame + 1 /\ rideGap[k] \in Nat
      BY <1>1, <1>2
    <3>. QED
      BY <2>3, <3>1, <3>2, <3>3, <3>4
  <2>5. rideGap'[k] < riderFrame'
    BY <1>1, <1>2, <2>2, <2>3
  <2>. QED
    BY <2>3, <2>4, <2>5
<1>5. CASE k \notin seen /\ k \notin Remaining(seen)
  BY <1>1, <1>2, <1>5
<1>. QED
  BY <1>3, <1>4, <1>5

-------------------------------------------------------------------------------
(* Confirmation *)

\* What was said of earlier frames is still true of them.
LEMMA RodeStays ==
    ASSUME RelationsOK, NEW seen, OneEach(seen), Smooth(seen),
           NEW k \in Pairs, NEW f \in RiderFrames, f <= riderFrame
    PROVE  RodeAt(k, f)' = RodeAt(k, f) /\ LeftAt(k, f)' = LeftAt(k, f)
BY RodeNext DEF RodeAt, LeftAt, RiderFrames

\* The new frame ends a run that confirms a relation exactly if it is matched
\* often enough.
LEMMA RodeNow ==
    ASSUME RelationsOK, MatchesCount, NEW seen, OneEach(seen), Smooth(seen), NEW k \in Pairs
    PROVE  RodeAt(k, riderFrame)' <=> k \in seen /\ matches[k] + 1 >= RideConfirmation
<1>0. RideConfirmation \in Nat \ {0} /\ matches[k] \in Nat /\ MaxRiderFrames \in Nat
  BY RidersAssumption DEF RelationsOK
<1>1. /\ riderFrame \in Nat /\ riderFrame' = riderFrame + 1
      /\ riderFrame \in RiderFrames /\ riderFrame + 1 \in RiderFrames /\ RiderFrames = 0..MaxRiderFrames
      /\ rode'[k[1]][riderFrame + 1] = k[2] <=> k \in seen
      /\ \A n \in RiderFrames : n <= riderFrame => rode'[k[1]][n] = rode[k[1]][n]
  BY RodeNext
<1>2. /\ matches[k] <= riderFrame
      /\ \A n \in RiderFrames :
            /\ n <= riderFrame /\ riderFrame < n + matches[k] => rode[k[1]][n] = k[2]
            /\ n + matches[k] = riderFrame => rode[k[1]][n] # k[2]
  BY DEF MatchesCount
<1>3. ASSUME k \in seen, matches[k] + 1 >= RideConfirmation PROVE RodeAt(k, riderFrame)'
  <2>1. riderFrame + 1 >= RideConfirmation
    BY <1>0, <1>1, <1>2, <1>3
  <2>2. ASSUME NEW n \in RiderFrames, riderFrame + 1 < n + RideConfirmation, n <= riderFrame + 1
        PROVE  rode'[k[1]][n] = k[2]
    <3>1. CASE n = riderFrame + 1
      BY <1>1, <1>3, <3>1
    <3>2. CASE n <= riderFrame
      <4>1. n \in Nat /\ riderFrame < n + matches[k]
        BY <1>0, <1>1, <1>3, <2>2
      <4>. QED
        BY <1>1, <1>2, <3>2, <4>1
    <3>. QED
      BY <1>0, <1>1, <2>2, <3>1, <3>2
  <2>. QED
    BY <1>1, <2>1, <2>2 DEF RodeAt
<1>4. ASSUME RodeAt(k, riderFrame)' PROVE k \in seen /\ matches[k] + 1 >= RideConfirmation
  <2>1. /\ riderFrame + 1 >= RideConfirmation
        /\ \A n \in RiderFrames : riderFrame + 1 < n + RideConfirmation /\ n <= riderFrame + 1
                                     => rode'[k[1]][n] = k[2]
    BY <1>1, <1>4 DEF RodeAt
  <2>2. k \in seen
    BY <1>0, <1>1, <2>1
  <2>3. PICK n \in RiderFrames : n + matches[k] = riderFrame
    <3>1. riderFrame - matches[k] \in RiderFrames
      BY <1>0, <1>1, <1>2
    <3>. QED
      BY <1>0, <1>1, <3>1
  <2>4. rode'[k[1]][n] # k[2] /\ n \in Nat /\ n <= riderFrame + 1
    BY <1>0, <1>1, <1>2, <2>3
  <2>5. ~(riderFrame + 1 < n + RideConfirmation)
    BY <2>1, <2>4
  <2>6. matches[k] + 1 >= RideConfirmation
    BY <1>0, <1>1, <2>3, <2>4, <2>5
  <2>. QED
    BY <2>2, <2>6
<1>. QED
  BY <1>3, <1>4

\* A relation is left in the new frame if it is overdue, and only then if it is
\* one.
LEMMA LeftNow ==
    ASSUME RelationsOK, GapsCount, NEW seen, OneEach(seen), Smooth(seen), NEW k \in Pairs
    PROVE  /\ k \in Overdue(seen) => LeftAt(k, riderFrame)'
           /\ k \in relations \cup seen /\ k \notin Overdue(seen) => ~LeftAt(k, riderFrame)'
<1>1. /\ riderFrame \in Nat /\ riderFrame' = riderFrame + 1
      /\ riderFrame \in RiderFrames /\ riderFrame + 1 \in RiderFrames /\ RiderFrames = 0..MaxRiderFrames
      /\ rode'[k[1]][riderFrame + 1] = k[2] <=> k \in seen
      /\ \A n \in RiderFrames : n <= riderFrame => rode'[k[1]][n] = rode[k[1]][n]
  BY RodeNext
<1>2. rideGap[k] \in Nat /\ MaxRideGap \in Nat /\ MaxRiderFrames \in Nat
  BY RidersAssumption DEF RelationsOK
<1>3. k \in relations =>
         /\ rideGap[k] < riderFrame
         /\ \A n \in RiderFrames :
               /\ n + rideGap[k] = riderFrame => rode[k[1]][n] = k[2]
               /\ n <= riderFrame /\ riderFrame < n + rideGap[k] => rode[k[1]][n] # k[2]
  BY DEF GapsCount
<1>4. ASSUME k \in Overdue(seen) PROVE LeftAt(k, riderFrame)'
  <2>1. k \in relations /\ k \notin seen /\ rideGap[k] + 1 > MaxRideGap
    BY <1>4 DEF Overdue
  <2>. QED
    BY <1>1, <1>2, <1>3, <2>1 DEF LeftAt
<1>5. ASSUME k \in relations \cup seen, k \notin Overdue(seen) PROVE ~LeftAt(k, riderFrame)'
  <2>1. CASE k \in seen
    BY <1>1, <1>2, <2>1 DEF LeftAt
  <2>2. CASE k \notin seen
    <3>1. k \in relations /\ rideGap[k] + 1 <= MaxRideGap
      BY <1>2, <1>5, <2>2 DEF Overdue
    <3>2. PICK n \in RiderFrames : n + rideGap[k] = riderFrame
      <4>1. riderFrame - rideGap[k] \in RiderFrames
        BY <1>1, <1>2, <1>3, <3>1
      <4>. QED
        BY <1>1, <1>2, <4>1
    <3>3. rode'[k[1]][n] = k[2]
      BY <1>1, <1>2, <1>3, <3>1, <3>2
    <3>. QED
      BY <1>1, <1>2, <3>1, <3>2, <3>3 DEF LeftAt
  <2>. QED
    BY <2>1, <2>2
<1>. QED
  BY <1>4, <1>5

\* Nobody is a confirmed rider of two motorcycles.
LEMMA OneSettled ==
    ASSUME RiderInv, NEW j \in settled, NEW k \in settled, j[1] = k[1]
    PROVE  j = k
<1>0. /\ j \in Pairs /\ k \in Pairs /\ j = <<j[1], j[2]>> /\ k = <<k[1], k[2]>>
      /\ j[2] \in Motorcycles /\ k[2] \in Motorcycles /\ riderFrame \in Nat
  BY RidersAssumption DEF RiderInv, RelationsOK, Pairs, RiderFrames
<1>1. PICK f \in 1..riderFrame :
         /\ RodeAt(j, f)
         /\ \A m \in Motorcycles \ {j[2]}, n \in f..riderFrame : ~RodeAt(<<j[1], m>>, n)
  BY <1>0 DEF RiderInv, ConfirmedAsRidden, Rides
<1>2. PICK g \in 1..riderFrame :
         /\ RodeAt(k, g)
         /\ \A m \in Motorcycles \ {k[2]}, n \in g..riderFrame : ~RodeAt(<<k[1], m>>, n)
  BY <1>0 DEF RiderInv, ConfirmedAsRidden, Rides
<1>3. CASE f <= g
  BY <1>0, <1>1, <1>2, <1>3
<1>4. CASE g <= f
  BY <1>0, <1>1, <1>2, <1>4
<1>. QED
  BY <1>0, <1>3, <1>4

\* A frame confirms and ends relations as they were ridden.
LEMMA SmoothRidden ==
    ASSUME RiderInv, NEW seen, OneEach(seen), Smooth(seen)
    PROVE  ConfirmedAsRidden'
<1> SUFFICES ASSUME NEW k \in Pairs PROVE k \in settled' <=> Rides(k)'
  BY DEF ConfirmedAsRidden
<1> USE DEF RiderInv
<1>0. /\ riderFrame \in Nat /\ riderFrame' = riderFrame + 1 /\ riderFrame \in RiderFrames
      /\ riderFrame + 1 \in RiderFrames /\ RiderFrames = 0..MaxRiderFrames /\ MaxRiderFrames \in Nat
      /\ k = <<k[1], k[2]>> /\ k[1] \in Persons /\ k[2] \in Motorcycles
  BY RodeNext, RidersAssumption DEF Pairs
<1>1. k \in settled <=> Rides(k)
  BY DEF ConfirmedAsRidden
<1>2. k \in settled' <=> (k \in settled \/ k \in NewlySettled(seen)) /\ k \in Remaining(seen)
  BY DEF Smooth
<1>3. \A j \in Pairs : j \in seen /\ j \notin settled /\ matches[j] + 1 >= RideConfirmation
                          <=> j \in NewlySettled(seen)
  BY DEF NewlySettled, Matched, OneEach
<1>4. CASE k \in NewlySettled(seen)
  <2>1. k \in seen /\ k \in settled'
    BY <1>2, <1>4, RiddenRemain
  <2>2. RodeAt(k, riderFrame)' /\ ~LeftAt(k, riderFrame)'
    BY <1>3, <1>4, <2>1, RodeNow, LeftNow DEF Overdue
  <2>3. \A m \in Motorcycles \ {k[2]} : ~RodeAt(<<k[1], m>>, riderFrame)'
    <3> SUFFICES ASSUME NEW m \in Motorcycles \ {k[2]} PROVE ~RodeAt(<<k[1], m>>, riderFrame)'
      OBVIOUS
    <3>1. <<k[1], m>> \in Pairs /\ <<k[1], m>> \notin seen
      BY <1>0, <2>1 DEF Pairs, OneEach
    <3>. QED
      BY <3>1, RodeNow
  <2>4. Rides(k)'
    BY <1>0, <2>2, <2>3 DEF Rides
  <2>. QED
    BY <2>1, <2>4
<1>5. CASE k \notin NewlySettled(seen) /\ k \in settled /\ k \in Remaining(seen)
  <2>1. k \in relations /\ k \notin Overdue(seen) /\ k \notin Dropped(seen)
    BY <1>5 DEF RelationsOK, Remaining
  <2>2. ~LeftAt(k, riderFrame)'
    BY <2>1, LeftNow
  <2>3. \A m \in Motorcycles \ {k[2]} : ~RodeAt(<<k[1], m>>, riderFrame)'
    <3> SUFFICES ASSUME NEW m \in Motorcycles \ {k[2]}, RodeAt(<<k[1], m>>, riderFrame)' PROVE FALSE
      OBVIOUS
    <3>1. <<k[1], m>> \in Pairs /\ <<k[1], m>> # k
      BY <1>0 DEF Pairs
    <3>2. <<k[1], m>> \in seen /\ matches[<<k[1], m>>] + 1 >= RideConfirmation
      BY <3>1, RodeNow
    <3>3. <<k[1], m>> \notin settled
      BY <1>5, <3>1, OneSettled
    <3>4. <<k[1], m>> \in NewlySettled(seen)
      BY <1>3, <3>1, <3>2, <3>3
    <3>. QED
      BY <1>0, <2>1, <3>1, <3>4 DEF Dropped
  <2>4. PICK f \in 1..riderFrame :
           /\ RodeAt(k, f)
           /\ \A n \in f..riderFrame : ~LeftAt(k, n)
           /\ \A m \in Motorcycles \ {k[2]}, n \in f..riderFrame : ~RodeAt(<<k[1], m>>, n)
    BY <1>1, <1>5 DEF Rides
  <2>5. RodeAt(k, f)'
    BY <1>0, <2>4, RodeStays
  <2>6. \A n \in f..(riderFrame + 1) : ~LeftAt(k, n)'
    <3> SUFFICES ASSUME NEW n \in f..(riderFrame + 1) PROVE ~LeftAt(k, n)'
      OBVIOUS
    <3>1. CASE n = riderFrame'
      BY <2>2, <3>1
    <3>2. CASE n # riderFrame'
      <4>1. n \in f..riderFrame /\ n \in RiderFrames
        BY <1>0, <3>2
      <4>. QED
        BY <1>0, <2>4, <4>1, RodeStays
    <3>. QED
      BY <3>1, <3>2
  <2>7. \A m \in Motorcycles \ {k[2]}, n \in f..(riderFrame + 1) : ~RodeAt(<<k[1], m>>, n)'
    <3> SUFFICES ASSUME NEW m \in Motorcycles \ {k[2]}, NEW n \in f..(riderFrame + 1)
                 PROVE  ~RodeAt(<<k[1], m>>, n)'
      OBVIOUS
    <3>1. CASE n = riderFrame'
      BY <2>3, <3>1
    <3>2. CASE n # riderFrame'
      <4>1. n \in f..riderFrame /\ n \in RiderFrames /\ <<k[1], m>> \in Pairs
        BY <1>0, <3>2 DEF Pairs
      <4>. QED
        BY <1>0, <2>4, <4>1, RodeStays
    <3>. QED
      BY <3>1, <3>2
  <2>. QED
    BY <1>0, <1>2, <1>5, <2>5, <2>6, <2>7 DEF Rides
<1>6. CASE k \notin NewlySettled(seen) /\ k \in settled /\ k \notin Remaining(seen)
  <2>1. CASE k \in Overdue(seen)
    <3>1. LeftAt(k, riderFrame)'
      BY <2>1, LeftNow
    <3>. QED
      BY <1>0, <1>2, <1>6, <3>1 DEF Rides
  <2>2. CASE k \in Dropped(seen)
    <3>1. PICK j \in NewlySettled(seen) : j[1] = k[1] /\ j # k
      BY <2>2 DEF Dropped
    <3>2. j \in Pairs /\ j = <<k[1], j[2]>> /\ j[2] \in Motorcycles \ {k[2]}
      BY <1>0, <3>1, RiddenRemain DEF OneEach, Pairs
    <3>3. RodeAt(j, riderFrame)'
      BY <1>3, <3>1, <3>2, RodeNow
    <3>. QED
      BY <1>0, <1>2, <1>6, <3>2, <3>3 DEF Rides
  <2>. QED
    BY <1>6, <2>1, <2>2 DEF Remaining, RelationsOK
<1>7. CASE k \notin NewlySettled(seen) /\ k \notin settled
  <2>1. ~RodeAt(k, riderFrame)'
    BY <1>3, <1>7, RodeNow
  <2>2. SUFFICES ASSUME Rides(k)' PROVE FALSE
    BY <1>2, <1>7
  <2>3. PICK f \in 1..(riderFrame + 1) :
           /\ RodeAt(k, f)'
           /\ \A n \in f..(riderFrame + 1) : ~LeftAt(k, n)'
           /\ \A m \in Motorcycles \ {k[2]}, n \in f..(riderFrame + 1) : ~RodeAt(<<k[1], m>>, n)'
    BY <1>0, <2>2 DEF Rides
  <2>4. f # riderFrame'
    BY <2>1, <2>3
  <2>5. f \in 1..riderFrame /\ f \in RiderFrames /\ RodeAt(k, f)
    BY <1>0, <2>3, <2>4, RodeStays
  <2>6. \A n \in f..riderFrame : ~LeftAt(k, n)
    BY <1>0, <2>3, <2>5, RodeStays
  <2>7. \A m \in Motorcycles \ {k[2]}, n \in f..riderFrame : ~RodeAt(<<k[1], m>>, n)
    <3> SUFFICES ASSUME NEW m \in Motorcycles \ {k[2]}, NEW n \in f..riderFrame
                 PROVE  ~RodeAt(<<k[1], m>>, n)
      OBVIOUS
    <3>1. n \in f..(riderFrame + 1) /\ n \in RiderFrames /\ n <= riderFrame /\ <<k[1], m>> \in Pairs
      BY <1>0, <2>5 DEF Pairs
    <3>. QED
      BY <2>3, <3>1, RodeStays
  <2>. QED
    BY <1>1, <1>7, <2>5, <2>6, <2>7 DEF Rides
<1>. QED
  BY <1>4, <1>5, <1>6, <1>7

-------------------------------------------------------------------------------
(* The start of a video *)

\* At the start nobody has ridden.
LEMMA FreshRiders ==
    ASSUME RidersInit
    PROVE  RiderInv
<1> USE RidersAssumption DEF RidersInit
<1>0. 0 \in RiderFrames
  BY DEF RiderFrames
<1>1. RelationsOK
  BY <1>0 DEF RelationsOK
<1>2. \A k \in Pairs : k[1] \in Persons /\ k[2] # Nobody
  BY DEF Pairs
<1>3. MatchesCount /\ GapsCount
  BY <1>0, <1>2 DEF MatchesCount, GapsCount, RiderFrames
<1>4. ConfirmedAsRidden
  BY DEF ConfirmedAsRidden, Rides
<1>. QED
  BY <1>1, <1>3, <1>4 DEF RiderInv

\* The same of the next video.
LEMMA ForgetRidersStep ==
    ASSUME ForgetRiders
    PROVE  RiderInv'
<1> USE RidersAssumption DEF ForgetRiders
<1>0. 0 \in RiderFrames
  BY DEF RiderFrames
<1>1. RelationsOK'
  BY <1>0 DEF RelationsOK
<1>2. \A k \in Pairs : k[1] \in Persons /\ k[2] # Nobody
  BY DEF Pairs
<1>3. MatchesCount' /\ GapsCount'
  BY <1>0, <1>2 DEF MatchesCount, GapsCount, RiderFrames
<1>4. ConfirmedAsRidden'
  BY DEF ConfirmedAsRidden, Rides
<1>. QED
  BY <1>1, <1>3, <1>4 DEF RiderInv

-------------------------------------------------------------------------------
(* Theorems *)

LEMMA RiderInvHolds == RidersSpec => []RiderInv
<1>1. RiderInv /\ [RidersNext]_riderVars => RiderInv'
  <2> SUFFICES ASSUME RiderInv, [RidersNext]_riderVars PROVE RiderInv'
    OBVIOUS
  <2>1. ASSUME NEW s \in RiderScenes, NEW seen \in RiderChoices[s], WatchRiders(s, seen) PROVE RiderInv'
    <3>1. OneEach(seen) /\ Smooth(seen)
      BY <2>1, AssociationsMatch DEF WatchRiders
    <3>. QED
      BY <3>1, SmoothTypes, SmoothMatches, SmoothGaps, SmoothRidden DEF RiderInv
  <2>2. CASE UNCHANGED riderVars
    BY <2>2 DEF riderVars, relationState, RiderInv, RelationsOK, MatchesCount, GapsCount,
       ConfirmedAsRidden, Rides, RodeAt, LeftAt
  <2>. QED
    BY <2>1, <2>2, ForgetRidersStep DEF RidersNext
<1>. QED
  BY <1>1, FreshRiders, PTL DEF RidersSpec

\* A person is a confirmed rider exactly of what the person rode.
THEOREM RidersAreConfirmed == RidersSpec => []ConfirmedAsRidden
BY RiderInvHolds, PTL DEF RiderInv

\* Nobody is a confirmed rider of two motorcycles.
THEOREM NobodyRidesTwo == RidersSpec => [](\A j, k \in settled : j[1] = k[1] => j = k)
<1>1. RiderInv => \A j, k \in settled : j[1] = k[1] => j = k
  BY OneSettled
<1>. QED
  BY <1>1, RiderInvHolds, PTL

-------------------------------------------------------------------------------
(* Labels *)

\* Every set of numbers has a least one.
LEMMA LeastNumber ==
    ASSUME NEW T \in SUBSET Nat, T # {}
    PROVE  \E m \in T : \A n \in T : m <= n
<1>1. \E m \in T : \A n \in T : <<n, m>> \notin OpToRel(<, Nat)
  BY NatLessThanWellFounded, WFMin
<1>2. PICK m \in T : \A n \in T : <<n, m>> \notin OpToRel(<, Nat)
  BY <1>1
<1>3. \A n \in T : m \in Nat /\ n \in Nat /\ ~(n < m)
  BY <1>2 DEF OpToRel
<1>4. \A n \in T : m <= n
  BY <1>3
<1> QED BY <1>4

\* A set of numbers that contains 0 and, with each number below N, the next one,
\* contains all up to N.
LEMMA UpTo ==
    ASSUME NEW N \in Nat, NEW T, 0 \in T, \A n \in 0..N : n \in T /\ n < N => n + 1 \in T
    PROVE  \A n \in 0..N : n \in T
<1> DEFINE U == {n \in 0..N : n \notin T}
<1>1. SUFFICES ASSUME U # {} PROVE FALSE
  OBVIOUS
<1>2. U \in SUBSET Nat
  OBVIOUS
<1>3. PICK m \in U : \A n \in U : m <= n
  <2> HIDE DEF U
  <2> QED BY <1>1, <1>2, LeastNumber
<1>4. m # 0 /\ m \in 0..N /\ m \notin T
  BY <1>3
<1>5. m - 1 \in 0..N /\ m - 1 < N /\ m - 1 \notin U
  BY <1>3, <1>4
<1> QED BY <1>4, <1>5

\* A function computed from v0 by steps.
Runs(f, N, v0, Step) == f[0] = v0 /\ \A n \in 1..N : f[n] = Step[n][f[n - 1]]

\* The function that a recursion over the numbers up to N describes exists.
LEMMA RecursionExists ==
    ASSUME NEW N \in Nat, NEW V, NEW v0 \in V, NEW Step \in [1..N -> [V -> V]]
    PROVE  \E f \in [0..N -> V] : Runs(f, N, v0, Step)
<1> DEFINE Good(f, k) == f[0] = v0 /\ \A n \in 1..k : f[n] = Step[n][f[n - 1]]
           T == {k \in 0..N : \E f \in [0..k -> V] : Good(f, k)}
<1>1. 0 \in T
  <2> DEFINE g == [n \in 0..0 |-> v0]
  <2>1. g \in [0..0 -> V] /\ Good(g, 0)
    OBVIOUS
  <2> HIDE DEF g
  <2>2. \E f \in [0..0 -> V] : Good(f, 0)
    BY <2>1
  <2> QED BY <2>2
<1>2. ASSUME NEW k \in 0..N, k \in T, k < N PROVE k + 1 \in T
  <2>1. PICK f \in [0..k -> V] : Good(f, k)
    BY <1>2
  <2> DEFINE g == [n \in 0..(k + 1) |-> IF n = k + 1 THEN Step[k + 1][f[k]] ELSE f[n]]
  <2>2. k + 1 \in 1..N /\ f[k] \in V /\ k + 1 \in 0..N
    BY <1>2
  <2>3. Step[k + 1][f[k]] \in V
    BY <2>2
  <2>4. g \in [0..(k + 1) -> V]
    <3>1. ASSUME NEW n \in 0..(k + 1) PROVE (IF n = k + 1 THEN Step[k + 1][f[k]] ELSE f[n]) \in V
      BY <2>3
    <3> QED BY <3>1
  <2>5. /\ \A n \in 0..k : g[n] = f[n]
        /\ g[k + 1] = Step[k + 1][f[k]]
    OBVIOUS
  <2> HIDE DEF g
  <2>6. g[0] = v0
    BY <2>1, <2>5
  <2>7. ASSUME NEW n \in 1..(k + 1) PROVE g[n] = Step[n][g[n - 1]]
    <3>1. CASE n = k + 1
      BY <2>5, <3>1
    <3>2. CASE n \in 1..k
      <4>1. n \in 0..k /\ n - 1 \in 0..k
        BY <3>2
      <4> QED BY <2>1, <2>5, <3>2, <4>1
    <3> QED BY <3>1, <3>2
  <2> QED BY <2>2, <2>4, <2>6, <2>7
<1>3. N \in T
  <2>1. \A n \in 0..N : n \in T /\ n < N => n + 1 \in T
    BY <1>2, Zenon
  <2> HIDE DEF T
  <2>2. \A n \in 0..N : n \in T
    BY <1>1, <2>1, UpTo, Zenon
  <2> QED BY <2>2
<1> QED BY <1>3 DEF Runs

\* Numbers below the size of a set, a different one for each element, are all
\* numbers below its size.
LEMMA RanksAreAll ==
    ASSUME NEW P, IsFiniteSet(P), NEW r \in [P -> 0..(Cardinality(P) - 1)],
           \A c, d \in P : r[c] = r[d] => c = d
    PROVE  \A n \in 0..(Cardinality(P) - 1) : \E c \in P : r[c] = n
<1> DEFINE N == Cardinality(P)
           I == 0..(N - 1)
<1>1. N \in Nat
  BY FS_CardinalityType
<1>2. IsFiniteSet(I) /\ Cardinality(I) = N
  <2>1. IsFiniteSet(0..(N - 1)) /\ Cardinality(0..(N - 1)) = IF 0 > N - 1 THEN 0 ELSE N - 1 - 0 + 1
    BY <1>1, FS_Interval
  <2> QED BY <1>1, <2>1
<1>3. r \in Injection(P, I)
  BY DEF Injection, IsInjective
<1>4. r \in Surjection(P, I)
  BY <1>2, <1>3, FS_Injection
<1> QED BY <1>4 DEF Surjection

\* The square root in percent exists, at most the limit.
LEMMA RootIsOne ==
    ASSUME NEW a \in Nat, NEW b \in Nat, NEW limit \in Nat
    PROVE  Root(a, b, limit) \in 0..limit
<1> DEFINE T == {n \in 0..limit : (limit - n) * (limit - n) * b <= 10000 * a}
<1>1. limit \in T
  OBVIOUS
<1>2. PICK n \in T : \A m \in T : n <= m
  <2>1. T \in SUBSET Nat /\ T # {}
    BY <1>1
  <2> HIDE DEF T
  <2> QED BY <2>1, LeastNumber
<1> DEFINE q == limit - n
<1>3. q \in 0..limit /\ q * q * b <= 10000 * a
  BY <1>2
<1>4. q = limit \/ (q + 1) * (q + 1) * b > 10000 * a
  <2>1. SUFFICES ASSUME q # limit PROVE (q + 1) * (q + 1) * b > 10000 * a
    OBVIOUS
  <2>2. n - 1 \in 0..limit /\ n - 1 \notin T
    BY <1>2, <2>1
  <2>3. limit - (n - 1) = q + 1 /\ q + 1 \in Int
    BY <1>2
  <2>4. ~((q + 1) * (q + 1) * b <= 10000 * a)
    BY <2>2, <2>3
  <2>5. (q + 1) * (q + 1) * b \in Int /\ 10000 * a \in Int
    BY <2>3
  <2> QED BY <2>4, <2>5
<1> DEFINE Fits(r) == /\ r * r * b <= 10000 * a
                      /\ r = limit \/ (r + 1) * (r + 1) * b > 10000 * a
<1>5. \E r \in 0..limit : Fits(r)
  <2> HIDE DEF q
  <2> QED BY <1>3, <1>4
<1>6. (CHOOSE r \in 0..limit : Fits(r)) \in 0..limit
  <2> HIDE DEF Fits
  <2> QED BY <1>5
<1> QED BY <1>6 DEF Root

\* Boxes with whole corners.
Boxes4 == Int \X Int \X Int \X Int

\* The area of a box is a number.
LEMMA AreaIsNumber ==
    ASSUME NEW b, b[1] \in Int, b[2] \in Int, b[3] \in Int, b[4] \in Int
    PROVE  Area(b) \in Nat
<1>1. High(Width(b), 0) \in Nat /\ High(Height(b), 0) \in Nat
  BY DEF High, Width, Height
<1> QED BY <1>1 DEF Area

\* The score of a label for a person is a number.
LEMMA ScoreIsNumber ==
    ASSUME NEW s \in RiderScenes, NEW t \in s.tracks, NEW l \in s.labels
    PROVE  HelmetScore(t, l) \in Int
<1> DEFINE head == HeadOf(t.box)
           box  == Scaled(l.box)
<1>0. t.box \in Boxes4 /\ l.box \in Boxes4 /\ l.confidence \in Int /\ HeadHeight \in Int /\ HeadExpansion \in Int
  BY RidersAssumption DEF Boxes4
<1>1. /\ head[1] \in Int /\ head[2] \in Int /\ head[3] \in Int /\ head[4] \in Int
  BY <1>0 DEF HeadOf, Width, Height, Boxes4
<1>2. box[1] \in Int /\ box[2] \in Int /\ box[3] \in Int /\ box[4] \in Int
  <2>1. box[1] = 20 * l.box[1] /\ box[2] = 20 * l.box[2] /\ box[3] = 20 * l.box[3] /\ box[4] = 20 * l.box[4]
    BY DEF Scaled
  <2>2. l.box[1] \in Int /\ l.box[2] \in Int /\ l.box[3] \in Int /\ l.box[4] \in Int
    BY <1>0 DEF Boxes4
  <2> QED BY <2>1, <2>2
<1> HIDE DEF head, box
<1>3. ContainedShare(head, box) \in Int
  <2>1. Area(box) \in Nat
    BY <1>2, AreaIsNumber
  <2>2. Area(Common(head, box)) \in Nat
    <3> DEFINE c == Common(head, box)
    <3>1. c[1] \in Int /\ c[2] \in Int /\ c[3] \in Int /\ c[4] \in Int
      BY <1>1, <1>2 DEF Common, High, Low
    <3> HIDE DEF c
    <3>2. Area(c) \in Nat
      BY <3>1, AreaIsNumber
    <3> QED BY <3>2 DEF c
  <2>3. \A x \in Nat, y \in Nat \ {0} : (100 * x) \div y \in Int
    OBVIOUS
  <2> QED BY <2>1, <2>2, <2>3 DEF ContainedShare
<1>4. CenterScore(head, box) \in Int
  <2> DEFINE u == Minus(Center(box), Center(head))
             v == <<2 * Width(head), 2 * Height(head)>>
  <2>1. u[1] \in Int /\ u[2] \in Int /\ v[1] \in Int /\ v[2] \in Int
    BY <1>1, <1>2 DEF Minus, Center, Width, Height
  <2> HIDE DEF u, v
  <2>2. Square(u) \in Nat /\ Square(v) \in Nat
    <3>1. \A x, y \in Int : x * x + y * y \in Nat
      OBVIOUS
    <3> QED BY <2>1, <3>1 DEF Square, Dot
  <2>3. Ratio(u, v, 100) \in 0..100
    BY <2>2, RootIsOne DEF Ratio
  <2>4. CenterScore(head, box) = 100 - Ratio(u, v, 100)
    BY DEF CenterScore, u, v
  <2> QED BY <2>3, <2>4
<1>5. HelmetScore(t, l) = 50 * ContainedShare(head, box) + 25 * CenterScore(head, box) + 25 * l.confidence
  BY DEF HelmetScore, head, box
<1> QED BY <1>0, <1>3, <1>4, <1>5

\* A finite set in an order, given by what comes before each element: each has a
\* rank of its own, and one of a lower rank comes first.
LEMMA OrderRanks ==
    ASSUME NEW P, IsFiniteSet(P), NEW Ahead \in [P -> SUBSET P],
           \A c \in P : c \notin Ahead[c],
           \A c, d \in P : d \in Ahead[c] => Ahead[d] \subseteq Ahead[c],
           \A c, d \in P : c = d \/ c \in Ahead[d] \/ d \in Ahead[c],
           NEW rank, rank = [c \in P |-> Cardinality(Ahead[c])]
    PROVE  /\ rank \in [P -> 0..(Cardinality(P) - 1)]
           /\ \A c, d \in P : rank[c] = rank[d] => c = d
           /\ \A c, d \in P : rank[c] <= rank[d] => c = d \/ c \in Ahead[d]
<1>1. ASSUME NEW c \in P
      PROVE  /\ rank[c] = Cardinality(Ahead[c]) /\ IsFiniteSet(Ahead[c])
             /\ rank[c] \in 0..(Cardinality(P) - 1)
  <2>1. /\ IsFiniteSet(Ahead[c]) /\ Cardinality(Ahead[c]) <= Cardinality(P)
        /\ Cardinality(P) = Cardinality(Ahead[c]) => Ahead[c] = P
    BY FS_Subset
  <2>2. Cardinality(Ahead[c]) \in Nat /\ Cardinality(P) \in Nat
    BY <2>1, FS_CardinalityType
  <2> QED BY <2>1, <2>2
<1>2. ASSUME NEW c \in P, NEW d \in P, c \in Ahead[d] PROVE rank[c] < rank[d]
  <2>1. Ahead[c] \in SUBSET Ahead[d] /\ Ahead[c] # Ahead[d]
    BY <1>2
  <2>2. /\ Cardinality(Ahead[c]) <= Cardinality(Ahead[d])
        /\ Cardinality(Ahead[d]) = Cardinality(Ahead[c]) => Ahead[c] = Ahead[d]
    BY <1>1, <2>1, FS_Subset
  <2> QED BY <1>1, <2>1, <2>2
<1>3. rank \in [P -> 0..(Cardinality(P) - 1)]
  BY <1>1
<1>4. ASSUME NEW c \in P, NEW d \in P, rank[c] <= rank[d] PROVE c = d \/ c \in Ahead[d]
  <2>1. rank[c] \in Int /\ rank[d] \in Int
    BY <1>3
  <2>2. ~(rank[d] < rank[c])
    BY <1>4, <2>1
  <2> QED BY <1>2, <2>2
<1>5. ASSUME NEW c \in P, NEW d \in P, rank[c] = rank[d] PROVE c = d
  <2>1. rank[c] \in Int /\ rank[d] \in Int
    BY <1>3
  <2>2. ~(rank[d] < rank[c]) /\ ~(rank[c] < rank[d])
    BY <1>5, <2>1
  <2> QED BY <1>2, <2>2
<1> QED BY <1>3, <1>4, <1>5

\* The candidates are taken in the order of nth, unless they collide with one
\* that is taken already.
Taken(chosen, N, nth) ==
    /\ chosen[0] = {}
    /\ \A n \in 1..N : chosen[n] = IF \E c \in chosen[n - 1] : Collide(c, nth[n - 1])
                                   THEN chosen[n - 1] ELSE chosen[n - 1] \cup {nth[n - 1]}

\* Nothing taken collides, and every candidate collides with one taken that
\* comes no later.
NoneLeftApart(A, P, rank) ==
    /\ A \subseteq P
    /\ \A c, d \in A : Collide(c, d) => c = d
    /\ \A c \in P : \E d \in A : Collide(d, c) /\ rank[d] <= rank[c]

\* Taking the candidates in order, each one that collides with none taken
\* before: those taken do not collide, and every candidate collides with one
\* taken that comes no later.
LEMMA GreedyIsStable ==
    ASSUME NEW N \in Nat, NEW P, NEW rank \in [P -> 0..(N - 1)], NEW nth \in [0..(N - 1) -> P],
           \A n \in 0..(N - 1) : rank[nth[n]] = n,
           \A c, d \in P : rank[c] = rank[d] => c = d,
           NEW chosen, Taken(chosen, N, nth)
    PROVE  NoneLeftApart(chosen[N], P, rank)
<1> DEFINE Stable(n) ==
        /\ chosen[n] \subseteq P
        /\ \A c \in chosen[n] : rank[c] < n
        /\ \A c, d \in chosen[n] : Collide(c, d) => c = d
        /\ \A c \in P : rank[c] < n => \E d \in chosen[n] : Collide(d, c) /\ rank[d] <= rank[c]
           T == {n \in 0..N : Stable(n)}
<1>0. /\ chosen[0] = {}
      /\ \A n \in 1..N : chosen[n] = IF \E c \in chosen[n - 1] : Collide(c, nth[n - 1])
                                     THEN chosen[n - 1] ELSE chosen[n - 1] \cup {nth[n - 1]}
  BY DEF Taken
<1>1. 0 \in T
  BY <1>0
<1>2. ASSUME NEW n \in 0..N, n \in T, n < N PROVE n + 1 \in T
  <2> DEFINE k == nth[n]
  <2>1. /\ n + 1 \in 1..N /\ n \in 0..(N - 1) /\ k \in P /\ rank[k] = n
        /\ chosen[n] \subseteq P
    BY <1>2
  <2>2. chosen[n + 1] = IF \E c \in chosen[n] : Collide(c, k) THEN chosen[n] ELSE chosen[n] \cup {k}
    <3> DEFINE m == (n + 1) - 1
    <3>1. m = n
      OBVIOUS
    <3>2. chosen[n + 1] = IF \E c \in chosen[m] : Collide(c, nth[m])
                          THEN chosen[m] ELSE chosen[m] \cup {nth[m]}
      BY <1>0, <2>1, Zenon
    <3> HIDE DEF m
    <3> QED BY <3>1, <3>2, Zenon
  <2>3. Stable(n)
    BY <1>2
  <2>4. ASSUME NEW c \in P, rank[c] < n + 1 PROVE c = k \/ rank[c] < n
    BY <2>1, <2>4
  <2>5. Collide(k, k) /\ \A c, d : Collide(c, d) <=> Collide(d, c)
    BY DEF Collide
  <2> HIDE DEF k
  <2>6. chosen[n + 1] \subseteq P /\ \A c \in chosen[n + 1] : rank[c] < n + 1
    BY <2>1, <2>2, <2>3
  <2>7. \A c, d \in chosen[n + 1] : Collide(c, d) => c = d
    BY <2>2, <2>3, <2>5
  <2>8. ASSUME NEW c \in P, rank[c] < n + 1
        PROVE  \E d \in chosen[n + 1] : Collide(d, c) /\ rank[d] <= rank[c]
    <3>1. CASE rank[c] < n
      BY <2>2, <2>3, <3>1
    <3>2. CASE c = k /\ k \in chosen[n + 1]
      BY <2>1, <2>5, <3>2
    <3>3. CASE c = k /\ k \notin chosen[n + 1]
      <4>1. PICK d \in chosen[n] : Collide(d, k)
        BY <2>2, <3>3
      <4>2. rank[d] < n /\ rank[d] \in Int
        BY <2>1, <2>3
      <4> QED BY <2>1, <2>2, <3>3, <4>1, <4>2
    <3> QED BY <2>4, <2>8, <3>1, <3>2, <3>3
  <2> QED BY <2>1, <2>6, <2>7, <2>8
<1>3. N \in T
  <2>1. \A n \in 0..N : n \in T /\ n < N => n + 1 \in T
    BY <1>2, Zenon
  <2> HIDE DEF T
  <2>2. \A n \in 0..N : n \in T
    BY <1>1, <2>1, UpTo, Zenon
  <2> QED BY <2>2
<1>4. Stable(N)
  BY <1>3
<1>5. \A c \in P : rank[c] < N
  OBVIOUS
<1> QED BY <1>4, <1>5 DEF NoneLeftApart

\* The persons of a frame.
PersonIds(s) == {t.id : t \in OfClass(s.tracks, "person")}

\* The score of a candidate.
ScoreOf(s, c) == HelmetScore(PersonOf(s, c[1]), c[2])

\* The tracks of a frame contain each of its persons.
LEMMA PersonIsFound ==
    ASSUME NEW s \in RiderScenes, NEW p \in PersonIds(s)
    PROVE  PersonOf(s, p) \in s.tracks /\ p \in Int
<1>1. PICK t \in OfClass(s.tracks, "person") : t.id = p
  BY DEF PersonIds
<1>2. t \in s.tracks /\ t.id = p /\ p \in Int
  BY <1>1, RidersAssumption DEF OfClass
<1> QED BY <1>2 DEF PersonOf

\* A frame has finitely many candidates.
LEMMA PairsAreFinite ==
    ASSUME NEW s \in RiderScenes, NEW riders
    PROVE  IsFiniteSet(LabelPairs(s, riders))
<1>1. IsFiniteSet(s.tracks) /\ IsFiniteSet(s.labels)
  BY RidersAssumption
<1>2. IsFiniteSet(OfClass(s.tracks, "person"))
  BY <1>1, FS_Subset DEF OfClass
<1>3. IsFiniteSet(PersonIds(s))
  <2> DEFINE f == [t \in OfClass(s.tracks, "person") |-> t.id]
  <2>1. f \in Surjection(OfClass(s.tracks, "person"), PersonIds(s))
    BY DEF Surjection, PersonIds
  <2> QED BY <1>2, <2>1, FS_Surjection
<1>4. IsFiniteSet(PersonIds(s) \X s.labels)
  BY <1>1, <1>3, FS_Product
<1>5. LabelPairs(s, riders) \subseteq PersonIds(s) \X s.labels
  BY DEF LabelPairs, PersonIds
<1> QED BY <1>4, <1>5, FS_Subset

\* Candidates can be compared.
LEMMA PairsHaveScores ==
    ASSUME NEW s \in RiderScenes, NEW riders, NEW c \in LabelPairs(s, riders)
    PROVE  /\ c = <<c[1], c[2]>> /\ c[1] \in Int /\ c[2] \in s.labels
           /\ ScoreOf(s, c) \in Int /\ c[2].confidence \in Int /\ c[2].index \in Int
<1>1. c \in riders \X s.labels /\ c[1] \in PersonIds(s)
  BY DEF LabelPairs, PersonIds
<1>2. c = <<c[1], c[2]>> /\ c[2] \in s.labels
  BY <1>1
<1>3. c[2].confidence \in Int /\ c[2].index \in Int
  BY <1>2, RidersAssumption
<1>4. c[1] \in Int /\ PersonOf(s, c[1]) \in s.tracks
  BY <1>1, PersonIsFound
<1>5. ScoreOf(s, c) \in Int
  BY <1>2, <1>4, ScoreIsNumber DEF ScoreOf
<1> QED BY <1>2, <1>3, <1>4, <1>5

\* The associator's order of candidates is one.
LEMMA BetterIsOrder ==
    ASSUME NEW s \in RiderScenes, NEW riders, NEW P, P = LabelPairs(s, riders)
    PROVE  /\ \A c \in P : ~Better(s, c, c)
           /\ \A c, d, e \in P : Better(s, c, d) /\ Better(s, d, e) => Better(s, c, e)
           /\ \A c, d \in P : c = d \/ Better(s, c, d) \/ Better(s, d, c)
           /\ \A c, d \in P : Better(s, c, d) => ScoreOf(s, c) >= ScoreOf(s, d)
<1>1. \A c \in P : /\ c = <<c[1], c[2]>> /\ c[1] \in Int /\ c[2] \in s.labels
                   /\ ScoreOf(s, c) \in Int /\ c[2].confidence \in Int /\ c[2].index \in Int
  BY PairsHaveScores
<1>2. \A c, d : Better(s, c, d) <=>
        \/ ScoreOf(s, c) > ScoreOf(s, d)
        \/ ScoreOf(s, c) = ScoreOf(s, d) /\ c[2].confidence > d[2].confidence
        \/ ScoreOf(s, c) = ScoreOf(s, d) /\ c[2].confidence = d[2].confidence
              /\ (c[1] < d[1] \/ (c[1] = d[1] /\ c[2].index < d[2].index))
  BY Zenon DEF Better, ScoreOf
<1>3. \A c, d \in P : c[1] = d[1] /\ c[2].index = d[2].index => c = d
  <2> SUFFICES ASSUME NEW c \in P, NEW d \in P, c[1] = d[1], c[2].index = d[2].index PROVE c = d
    OBVIOUS
  <2>1. c[2] = d[2]
    BY <1>1, RidersAssumption
  <2> QED BY <1>1, <2>1
<1>4. \A c \in P : ~Better(s, c, c)
  BY <1>1, <1>2
<1>5. \A c, d, e \in P : Better(s, c, d) /\ Better(s, d, e) => Better(s, c, e)
  BY <1>1, <1>2
<1>6. \A c, d \in P : c = d \/ Better(s, c, d) \/ Better(s, d, c)
  BY <1>1, <1>2, <1>3
<1>7. \A c, d \in P : Better(s, c, d) => ScoreOf(s, c) >= ScoreOf(s, d)
  BY <1>1, <1>2
<1> QED BY <1>4, <1>5, <1>6, <1>7

\* The recursion by which candidates are taken has a solution.
LEMMA GreedyExists ==
    ASSUME NEW N \in Nat, NEW P, NEW nth \in [0..(N - 1) -> P]
    PROVE  \E f \in [0..N -> SUBSET P] : Taken(f, N, nth)
<1> DEFINE With(n, C) == IF \E c \in C : Collide(c, nth[n - 1]) THEN C ELSE C \cup {nth[n - 1]}
           V == SUBSET P
           none == {}
           Step == [n \in 1..N |-> [C \in V |-> With(n, C)]]
<1>1. Step \in [1..N -> [V -> V]] /\ none \in V
  <2>1. ASSUME NEW n \in 1..N, NEW C \in V PROVE With(n, C) \in V
    <3>1. n - 1 \in 0..(N - 1)
      OBVIOUS
    <3>2. nth[n - 1] \in P
      BY <3>1
    <3> QED BY <3>2
  <2> HIDE DEF With, V
  <2>2. \A n \in 1..N : [C \in V |-> With(n, C)] \in [V -> V]
    BY <2>1
  <2>3. none \in V
    BY DEF V
  <2> QED BY <2>2, <2>3
<1>2. \A n \in 1..N, C \in V : Step[n][C] = With(n, C)
  <2> HIDE DEF With, V
  <2> QED OBVIOUS
<1> HIDE DEF Step, V, none
<1>3. PICK f \in [0..N -> V] : f[0] = none /\ \A n \in 1..N : f[n] = Step[n][f[n - 1]]
  <2>1. \E f \in [0..N -> V] : Runs(f, N, none, Step)
    BY <1>1, RecursionExists
  <2> QED BY <2>1 DEF Runs
<1>4. ASSUME NEW n \in 1..N PROVE f[n] = With(n, f[n - 1])
  <2>1. n - 1 \in 0..N
    OBVIOUS
  <2>2. f[n - 1] \in V /\ f[n] = Step[n][f[n - 1]]
    BY <1>3, <2>1
  <2> HIDE DEF With
  <2> QED BY <1>2, <2>2
<1>5. f \in [0..N -> SUBSET P] /\ f[0] = {} /\ \A n \in 1..N : f[n] = With(n, f[n - 1])
  BY <1>3, <1>4 DEF V, none
<1>6. Taken(f, N, nth)
  BY <1>5, Zenon DEF Taken
<1> QED BY <1>5, <1>6

\* The associator's labels: no rider and no label has two, and a candidate that
\* was passed over collides with one that is at least as good.
LEMMA LabelledIsStable ==
    ASSUME NEW s \in RiderScenes, NEW riders
    PROVE  /\ \A c, d \in Labelled(s, riders) : Collide(c, d) => c = d
           /\ \A c \in LabelPairs(s, riders) : \E d \in Labelled(s, riders) :
                  Collide(d, c) /\ ScoreOf(s, d) >= ScoreOf(s, c)
<1> DEFINE P == LabelPairs(s, riders)
           N == Cardinality(P)
           nthOf(n) == CHOOSE c \in P : Cardinality({d \in P : Better(s, d, c)}) = n
           Rec(f) == f = [n \in 0..N |-> IF n = 0 THEN {}
                                         ELSE IF \E c \in f[n - 1] : Collide(c, nthOf(n - 1)) THEN f[n - 1]
                                         ELSE f[n - 1] \cup {nthOf(n - 1)}]
           chosen == CHOOSE f : Rec(f)
           Ahead == [c \in P |-> {d \in P : Better(s, d, c)}]
           rank == [c \in P |-> Cardinality(Ahead[c])]
           nth == [n \in 0..(N - 1) |-> nthOf(n)]
<1>1. IsFiniteSet(P) /\ N \in Nat
  BY PairsAreFinite, FS_CardinalityType
<1>2. Labelled(s, riders) = chosen[N]
  BY Zenon DEF Labelled
<1>3. /\ \A c \in P : ~Better(s, c, c)
      /\ \A c, d, e \in P : Better(s, c, d) /\ Better(s, d, e) => Better(s, c, e)
      /\ \A c, d \in P : c = d \/ Better(s, c, d) \/ Better(s, d, c)
      /\ \A c, d \in P : Better(s, c, d) => ScoreOf(s, c) >= ScoreOf(s, d)
  BY BetterIsOrder
<1>4. \A c \in P : ScoreOf(s, c) \in Int
  BY PairsHaveScores
<1>5. \A c \in P : rank[c] = Cardinality({d \in P : Better(s, d, c)})
  <2> HIDE DEF P
  <2> QED OBVIOUS
<1>6. /\ rank \in [P -> 0..(N - 1)]
      /\ \A c, d \in P : rank[c] = rank[d] => c = d
      /\ \A c, d \in P : rank[c] <= rank[d] => c = d \/ Better(s, c, d)
  <2> HIDE DEF P
  <2>1. Ahead \in [P -> SUBSET P] /\ \A c, d \in P : d \in Ahead[c] <=> Better(s, d, c)
    OBVIOUS
  <2>2. rank = [c \in P |-> Cardinality(Ahead[c])]
    OBVIOUS
  <2> HIDE DEF rank, Ahead
  <2>3. /\ \A c \in P : c \notin Ahead[c]
        /\ \A c, d \in P : d \in Ahead[c] => Ahead[d] \subseteq Ahead[c]
        /\ \A c, d \in P : c = d \/ c \in Ahead[d] \/ d \in Ahead[c]
    BY <1>3, <2>1
  <2>4. /\ rank \in [P -> 0..(Cardinality(P) - 1)]
        /\ \A c, d \in P : rank[c] = rank[d] => c = d
        /\ \A c, d \in P : rank[c] <= rank[d] => c = d \/ c \in Ahead[d]
    BY <1>1, <2>1, <2>2, <2>3, OrderRanks
  <2> QED BY <2>1, <2>4
<1> HIDE DEF rank, Ahead
<1>7. \A n \in 0..(N - 1) : nthOf(n) \in P /\ rank[nthOf(n)] = n
  <2> SUFFICES ASSUME NEW n \in 0..(N - 1) PROVE nthOf(n) \in P /\ rank[nthOf(n)] = n
    OBVIOUS
  <2> DEFINE Nth(d) == Cardinality({e \in P : Better(s, e, d)}) = n
  <2>1. PICK c \in P : rank[c] = n
    <3> HIDE DEF P
    <3> QED BY <1>1, <1>6, RanksAreAll
  <2>2. \E d \in P : Nth(d)
    BY <1>5, <2>1
  <2>3. (CHOOSE d \in P : Nth(d)) \in P /\ Nth(CHOOSE d \in P : Nth(d))
    <3> HIDE DEF Nth, P
    <3> QED BY <2>2
  <2>4. nthOf(n) \in P /\ Nth(nthOf(n))
    BY <2>3
  <2> HIDE DEF nthOf
  <2> QED BY <1>5, <2>4
<1>8. nth \in [0..(N - 1) -> P] /\ \A n \in 0..(N - 1) : nth[n] = nthOf(n) /\ rank[nth[n]] = n
  <2> HIDE DEF nthOf, N, P
  <2> QED BY <1>7
<1> HIDE DEF nth
<1>9. Rec(chosen)
  <2> HIDE DEF P, N, nthOf
  <2>1. PICK f \in [0..N -> SUBSET P] : Taken(f, N, nth)
    BY <1>1, <1>8, GreedyExists
  <2>2. ASSUME NEW n \in 0..N
        PROVE  f[n] = IF n = 0 THEN {} ELSE IF \E c \in f[n - 1] : Collide(c, nthOf(n - 1)) THEN f[n - 1]
                                            ELSE f[n - 1] \cup {nthOf(n - 1)}
    <3>1. CASE n = 0
      BY <2>1, <3>1 DEF Taken
    <3>2. CASE n # 0
      <4>1. n \in 1..N /\ n - 1 \in 0..(N - 1)
        BY <1>1, <3>2
      <4>2. nth[n - 1] = nthOf(n - 1)
        BY <1>8, <4>1
      <4>3. f[n] = IF \E c \in f[n - 1] : Collide(c, nth[n - 1])
                   THEN f[n - 1] ELSE f[n - 1] \cup {nth[n - 1]}
        BY <2>1, <4>1, Zenon DEF Taken
      <4> QED BY <3>2, <4>2, <4>3
    <3> QED BY <3>1, <3>2
  <2>3. Rec(f)
    BY <2>1, <2>2
  <2> HIDE DEF Rec
  <2> QED BY <2>3
<1>10. Taken(chosen, N, nth)
  <2> DEFINE C == chosen
  <2>1. Rec(C)
    BY <1>9
  <2> HIDE DEF P, N, nthOf, C
  <2>2. C[0] = {}
    BY <1>1, <2>1
  <2>3. ASSUME NEW n \in 1..N
        PROVE  C[n] = IF \E c \in C[n - 1] : Collide(c, nth[n - 1]) THEN C[n - 1] ELSE C[n - 1] \cup {nth[n - 1]}
    <3>1. n \in 0..N /\ n # 0 /\ n - 1 \in 0..(N - 1)
      BY <1>1
    <3>2. nth[n - 1] = nthOf(n - 1)
      BY <1>8, <3>1
    <3>3. C[n] = IF n = 0 THEN {} ELSE IF \E c \in C[n - 1] : Collide(c, nthOf(n - 1)) THEN C[n - 1]
                                       ELSE C[n - 1] \cup {nthOf(n - 1)}
      BY <2>1, <3>1, Zenon
    <3> QED BY <3>1, <3>2, <3>3
  <2>4. Taken(C, N, nth)
    BY <2>2, <2>3, Zenon DEF Taken
  <2> QED BY <2>4 DEF C
<1> HIDE DEF chosen, P, N, nthOf
<1>11. /\ chosen[N] \subseteq P
       /\ \A c, d \in chosen[N] : Collide(c, d) => c = d
       /\ \A c \in P : \E d \in chosen[N] : Collide(d, c) /\ rank[d] <= rank[c]
  <2>1. NoneLeftApart(chosen[N], P, rank)
    <3>1. \A n \in 0..(N - 1) : rank[nth[n]] = n
      BY <1>8
    <3> QED BY <1>1, <1>6, <1>8, <1>10, <3>1, GreedyIsStable
  <2> QED BY <2>1 DEF NoneLeftApart
<1>12. \A c \in P : \E d \in chosen[N] : Collide(d, c) /\ ScoreOf(s, d) >= ScoreOf(s, c)
  <2> SUFFICES ASSUME NEW c \in P PROVE \E d \in chosen[N] : Collide(d, c) /\ ScoreOf(s, d) >= ScoreOf(s, c)
    OBVIOUS
  <2>1. PICK d \in chosen[N] : Collide(d, c) /\ rank[d] <= rank[c]
    BY <1>11
  <2>2. d \in P /\ (d = c \/ Better(s, d, c))
    BY <1>6, <1>11, <2>1
  <2>3. ScoreOf(s, d) >= ScoreOf(s, c)
    BY <1>3, <1>4, <2>2
  <2> QED BY <2>1, <2>3
<1> QED BY <1>2, <1>11, <1>12 DEF P

\* The persons whom the associator puts on motorcycles are persons of the frame.
LEMMA RidersArePersons ==
    ASSUME NEW s \in RiderScenes, NEW seen \in RiderChoices[s], NEW k \in seen
    PROVE  k[1] \in PersonIds(s)
<1> DEFINE pairs == {a \in OfClass(s.tracks, "person") \X Places(s.tracks) : MayRide(a[1], a[2][1])}
<1>1. PICK A \in Assignments(pairs, PlaceCost) : seen = {<<a[1].id, a[2][1].id>> : a \in A}
  BY DEF RiderChoices, Associations
<1>2. A \subseteq pairs
  BY AssignmentsMatch
<1>3. PICK a \in A : k[1] = a[1].id
  BY <1>1
<1>4. a[1] \in OfClass(s.tracks, "person")
  BY <1>2
<1>. QED
  BY <1>3, <1>4 DEF PersonIds

\* The labels of each frame are stable, whatever was confirmed before.
LEMMA WatchLabels ==
    ASSUME NEW s \in RiderScenes, NEW seen \in RiderChoices[s], WatchRiders(s, seen)
    PROVE  LabelsStable'
<1> DEFINE riders == {k[1] : k \in (settled \cup NewlySettled(seen)) \cap seen}
<1>1. /\ view' = s /\ labelled' = Labelled(s, riders) /\ riding' = seen
      /\ settled' \subseteq settled \cup NewlySettled(seen)
  BY DEF WatchRiders, Smooth
<1>2. /\ \A c, d \in labelled' : Collide(c, d) => c = d
      /\ \A c \in LabelPairs(s, riders) : \E d \in labelled' :
             Collide(d, c) /\ ScoreOf(s, d) >= ScoreOf(s, c)
  BY <1>1, LabelledIsStable
<1>3. ASSUME NEW p \in {k[1] : k \in settled' \cap riding'}, NEW l \in s.labels, MayWear(PersonOf(s, p), l)
      PROVE  \E c \in labelled' : /\ c[1] = p \/ c[2] = l
                                  /\ HelmetScore(PersonOf(s, c[1]), c[2]) >= HelmetScore(PersonOf(s, p), l)
  <2>1. PICK k \in settled' \cap riding' : p = k[1]
    OBVIOUS
  <2>2. p \in riders /\ p \in PersonIds(s)
    BY <1>1, <2>1, RidersArePersons
  <2>3. <<p, l>> \in LabelPairs(s, riders)
    BY <1>3, <2>2 DEF LabelPairs, PersonIds
  <2>4. PICK d \in labelled' : Collide(d, <<p, l>>) /\ ScoreOf(s, d) >= ScoreOf(s, <<p, l>>)
    BY <1>2, <2>3
  <2>. QED
    BY <2>4 DEF Collide, ScoreOf
<1>4. \A c, d \in labelled' : c[1] = d[1] \/ c[2] = d[2] => c = d
  BY <1>2 DEF Collide
<1>. QED
  BY <1>1, <1>3, <1>4 DEF LabelsStable

\* No rider and no label that would rather have each other are left apart, in
\* any frame, for any boxes, scores and numbers of persons and labels.
THEOREM LabelsAreStable == RidersSpec => []LabelsStable
<1>1. RidersInit => LabelsStable
  BY DEF RidersInit, LabelsStable, EmptyScene
<1>2. LabelsStable /\ [RidersNext]_riderVars => LabelsStable'
  <2> SUFFICES ASSUME LabelsStable, [RidersNext]_riderVars PROVE LabelsStable'
    OBVIOUS
  <2>1. ASSUME NEW s \in RiderScenes, NEW seen \in RiderChoices[s], WatchRiders(s, seen)
        PROVE  LabelsStable'
    BY <2>1, WatchLabels
  <2>2. CASE ForgetRiders
    BY <2>2 DEF ForgetRiders, LabelsStable, EmptyScene
  <2>3. CASE UNCHANGED riderVars
    BY <2>3 DEF riderVars, relationState, LabelsStable
  <2>. QED
    BY <2>1, <2>2, <2>3 DEF RidersNext
<1>. QED
  BY <1>1, <1>2, PTL DEF RidersSpec

=====================================================================================
