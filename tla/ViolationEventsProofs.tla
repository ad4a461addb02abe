------------------------- MODULE ViolationEventsProofs -------------------------
(***************************************************************************)
(* What TLAPS proves of the events of a job, for every set of violations,  *)
(* video, number of attempts and of reviewers.                             *)
(*                                                                         *)
(* A replay is harmless because an attempt that stands at a frame knows    *)
(* that all transitions before it are on record, whoever wrote them: that  *)
(* is Replayed, and it holds as long as nobody writes old metadata back.   *)
(* A review does.  What it writes back may lack transitions, but is in     *)
(* order, because it was when it was read: OrderInv says so of the         *)
(* metadata that reviews hold, too, and needs no more of what an attempt   *)
(* has passed than that the event is in the table.                         *)
(***************************************************************************)
EXTENDS ViolationEvents, TLAPS, WellFoundedInduction

\* What is due at a place, and what its transaction writes.
AttemptsFit == \A a \in Attempts :
    /\ at[a] \in {"persisting", "saving"} =>
          /\ frame[a] >= 1
          /\ due[a] \subseteq (IF flushed[a] THEN Flushed(frame[a]) ELSE Emitted(frame[a]))
    /\ at[a] \notin {"persisting", "saving"} => due[a] = {}
    /\ at[a] = "saving" => \A v \in Written(a) : \E t \in TransitionTypes : <<v, t>> \in due[a]
    /\ at[a] # "saving" => rows[a] = {} /\ missing[a] = {}
    /\ at[a] \in {"waiting", "decoding"} => ~flushed[a]
    /\ at[a] = "waiting" => frame[a] = 0
    /\ at[a] \in {"publishing", "attaching", "finished", "done"} => flushed[a] /\ frame[a] >= 1

\* An event that was read or has an image is in the table, and stays there.
NeverDeleted ==
    /\ \A r \in Reviewers : \A v \in reading[r].of : Exists(v) /\ reading[r].meta.status # "none"
    /\ \A v \in Violations : image[v] # 0 => Exists(v)

AttemptInv == EventsTypeOK /\ AttemptsFit /\ NeverDeleted

Unrepeated(h) == \A i, k \in 1..Len(h) : i # k => h[i] # h[k]

OnRecord(v, t, f) == Recorded(meta[v].history, <<t, f>>)

\* Every transition up to the frame of an attempt is on record, unless it is
\* still due.
ReplayedBy(a, v) == at[a] \notin {"waiting", "failed"} =>
    /\ StartFrame[v] <= frame[a] /\ <<v, "started">> \notin due[a] => OnRecord(v, "started", StartFrame[v])
    /\ Ends(v) /\ EndFrame[v] <= frame[a] /\ <<v, "ended">> \notin due[a] => OnRecord(v, "ended", EndFrame[v])
    /\ flushed[a] /\ Ends(v) /\ StartFrame[v] <= frame[a] /\ frame[a] < EndFrame[v] /\ <<v, "ended">> \notin due[a]
          => OnRecord(v, "ended", frame[a])

Replayed == \A a \in Attempts, v \in Violations : ReplayedBy(a, v)

HistoryInv == AttemptInv /\ Replayed

\* An event whose start an attempt has passed is in the table, whatever its
\* metadata say: reviews write old metadata back, but never delete an event.
BegunBy(a, v) ==
    at[a] \notin {"waiting", "failed"} /\ StartFrame[v] <= frame[a] /\ <<v, "started">> \notin due[a]
        => Exists(v)

Begun == \A a \in Attempts, v \in Violations : BegunBy(a, v)

\* What HistoryInOrder says of the metadata m of an event, on record or read by
\* a review.
InOrder(v, m) ==
    /\ m.status # "none" <=> m.history # <<>>
    /\ m.status = "ended" => Ends(v)
    /\ m.status # "none" =>
          /\ m.history[1] = <<"started", StartFrame[v]>>
          /\ Unrepeated(m.history)
          /\ m.status = "ended" => \E i \in 2..Len(m.history) : m.history[i][1] = "ended"

OrderInv == /\ AttemptInv /\ Begun
            /\ \A v \in Violations : InOrder(v, meta[v])
            /\ \A r \in Reviewers : \A v \in reading[r].of : InOrder(v, reading[r].meta)

\* The end of an event is the one on record.
EndOnRecord == \A v \in Violations :
    OnRecord(v, "ended", LastFrame(v)) => meta[v].end = LastFrame(v)

WholeVideo == \A a \in Attempts : flushed[a] => frame[a] = VideoFrames

CompleteInv == HistoryInv /\ EndOnRecord /\ WholeVideo

\* The end on record is the one that the attempt in progress has written last.
EndedBy(a, v) == at[a] \notin {"waiting", "failed"} /\ Ends(v) /\ <<v, "ended">> \notin due[a] =>
    /\ EndFrame[v] <= frame[a] => meta[v].end = EndFrame[v]
    /\ flushed[a] /\ StartFrame[v] <= frame[a] /\ frame[a] < EndFrame[v] => meta[v].end = frame[a]

EndIsLast == \A a \in Attempts, v \in Violations : EndedBy(a, v)

\* Attempts follow each other, and the images are those that the last one
\* published.
ImagesPublished ==
    /\ \A a, b \in Attempts : b < a /\ at[a] # "waiting" => at[b] = "failed"
    /\ \A a \in Attempts : at[a] \in {"attaching", "finished", "done"} => stored = EvidenceOf(a)
    /\ \A a \in Attempts : at[a] \in {"finished", "done"} /\ stored # {} =>
          \A v \in Violations : image[v] # 0 => image[v] \in stored

ImageInv == AttemptInv /\ ImagesPublished

\* What the only reviewer has read is still on record.
LoneReviewInv == /\ AttemptInv
                 /\ \A v \in Violations : Agreed(v)
                 /\ \A r \in Reviewers : \A v \in reading[r].of :
                       reading[r].verdict = verdict[v] /\ reading[r].meta.review = meta[v].review

-------------------------------------------------------------------------------
(* The nearest image *)

\* A non-empty set of numbers has a least one.
LEMMA LeastNumber ==
    ASSUME NEW T \in SUBSET Nat, T # {}
    PROVE  \E m \in T : \A n \in T : m <= n
<1>1. \E m \in T : \A n \in T : <<n, m>> \notin OpToRel(<, Nat)
  BY NatLessThanWellFounded, WFMin
<1>2. PICK m \in T : \A n \in T : <<n, m>> \notin OpToRel(<, Nat)
  BY <1>1
<1>3. \A n \in T : m \in Nat /\ n \in Nat /\ ~(n < m)
  BY <1>2 DEF OpToRel
<1>4. \A n \in T : m <= n
  BY <1>3
<1> QED BY <1>4

LEMMA NearestIsOne ==
    ASSUME NEW f \in Nat, NEW frames \in SUBSET Nat, frames # {}
    PROVE  Nearest(f, frames) \in frames
<1> DEFINE T == {Distance(f, g) : g \in frames}
<1>1. T \in SUBSET Nat /\ T # {}
  <2>1. \A g \in frames : Distance(f, g) \in Nat
    BY DEF Distance
  <2>2. \E g \in frames : Distance(f, g) \in T
    OBVIOUS
  <2>3. T # {}
    BY <2>2
  <2> QED BY <2>1, <2>3
<1>2. PICK g \in frames : \A h \in frames : Distance(f, g) <= Distance(f, h)
  <2>1. PICK m \in T : \A n \in T : m <= n
    BY <1>1, LeastNumber
  <2> QED BY <2>1
<1> DEFINE U == {h \in frames : Distance(f, h) = Distance(f, g)}
<1>3. PICK k \in U : \A h \in U : k <= h
  <2>1. U \in SUBSET Nat /\ U # {}
    OBVIOUS
  <2> HIDE DEF U
  <2> QED BY <2>1, LeastNumber
<1>4. /\ k \in frames
      /\ \A h \in frames : Distance(f, k) <= Distance(f, h)
      /\ \A h \in frames : Distance(f, k) = Distance(f, h) => k <= h
  BY <1>2, <1>3
<1> QED BY <1>4 DEF Nearest

-------------------------------------------------------------------------------
(* Types, and what is due where *)

LEMMA DueFits ==
    ASSUME NEW f \in Nat
    PROVE  /\ Emitted(f) \subseteq Violations \X TransitionTypes
           /\ Flushed(f) \subseteq Violations \X TransitionTypes
  BY DEF Emitted, Flushed, TransitionTypes

\* What an entry adds to a history that is typed.
LEMMA RecordFacts ==
    ASSUME NEW S, NEW h \in Seq(S), NEW e \in S
    PROVE  /\ Record(h, e) \in Seq(S)
           /\ Record(h, e) # <<>>
           /\ Recorded(Record(h, e), e)
           /\ \A x : Recorded(h, x) => Recorded(Record(h, e), x)
           /\ \A x : Recorded(Record(h, e), x) => Recorded(h, x) \/ x = e
           /\ \A i \in 1..Len(h) : Record(h, e)[i] = h[i]
           /\ Len(h) <= Len(Record(h, e))
           /\ h = <<>> => Record(h, e)[1] = e
           /\ Unrepeated(h) => Unrepeated(Record(h, e))
<1>1. CASE Recorded(h, e)
  <2>1. Record(h, e) = h
    BY <1>1 DEF Record
  <2>2. Len(h) \in Nat /\ (h = <<>> => Len(h) = 0)
    OBVIOUS
  <2>3. h # <<>>
    BY <1>1, <2>2 DEF Recorded
  <2> QED BY <1>1, <2>1, <2>2, <2>3
<1>2. CASE ~Recorded(h, e)
  <2> DEFINE r == Append(h, e)
  <2>1. Record(h, e) = r
    BY <1>2 DEF Record
  <2>2. /\ r \in Seq(S)
        /\ Len(h) \in Nat
        /\ Len(r) = Len(h) + 1
        /\ r[Len(h) + 1] = e
        /\ \A i \in 1..Len(h) : r[i] = h[i]
    OBVIOUS
  <2>3. \A i \in 1..Len(h) : h[i] # e
    BY <1>2 DEF Recorded
  <2> HIDE DEF r
  <2>4. r # <<>>
    BY <2>2
  <2>5. /\ Recorded(r, e) /\ \A x : Recorded(h, x) => Recorded(r, x)
        /\ \A x : Recorded(r, x) => Recorded(h, x) \/ x = e
    BY <2>2 DEF Recorded
  <2>6. h = <<>> => r[1] = e
    BY <2>2
  <2>7. ASSUME \A i, k \in 1..Len(h) : i # k => h[i] # h[k],
               NEW i \in 1..Len(r), NEW k \in 1..Len(r), i # k
        PROVE  r[i] # r[k]
    <3>1. CASE i = Len(h) + 1
      BY <2>2, <2>3, <2>7, <3>1
    <3>2. CASE k = Len(h) + 1
      BY <2>2, <2>3, <2>7, <3>2
    <3>3. CASE i \in 1..Len(h) /\ k \in 1..Len(h)
      BY <2>2, <2>7, <3>3
    <3> QED BY <2>2, <3>1, <3>2, <3>3
  <2>8. Unrepeated(h) => Unrepeated(r)
    BY <2>7 DEF Unrepeated
  <2> QED BY <2>1, <2>2, <2>4, <2>5, <2>6, <2>8
<1> QED BY <1>1, <1>2

LEMMA MergeFits ==
    ASSUME NEW m \in Metadata, NEW k, NEW t \in TransitionTypes, NEW f \in 1..VideoFrames
    PROVE  Merge(m, k, t, f) \in Metadata /\ Merge(m, k, t, f).status # "none"
<1>1. <<t, f>> \in TransitionTypes \X (1..VideoFrames) /\ m.history \in Seq(TransitionTypes \X (1..VideoFrames))
  BY DEF Metadata
<1>2. Record(m.history, <<t, f>>) \in Seq(TransitionTypes \X (1..VideoFrames))
  BY <1>1, RecordFacts
<1>3. StatusAfter(m.status, k, t) \in {"active", "started", "ended"}
  BY DEF StatusAfter
<1> QED BY <1>2, <1>3, EventsAssumption DEF Merge, Metadata, EventsAssumption

LEMMA AttemptStart == ASSUME EventsAssumption PROVE EventsInit => AttemptInv
  BY DEF EventsAssumption, EventsInit, AttemptInv, EventsTypeOK, AttemptsFit, NeverDeleted, NoEvent,
         NoReading, Metadata, Places, TransitionTypes, Attempts, Exists, Verdicts

LEMMA AttemptStep ==
    ASSUME EventsAssumption, AttemptInv, [EventsNext]_allVars PROVE AttemptInv'
<1> USE DEF AttemptInv
<1>0. CASE UNCHANGED allVars
  BY <1>0 DEF allVars, eventVars, attemptVars, EventsTypeOK, AttemptsFit, NeverDeleted, Exists, Written
<1>1. ASSUME NEW a \in Attempts, Begin(a) PROVE AttemptInv'
  BY <1>1 DEF Begin, Move, eventVars, EventsTypeOK, AttemptsFit, NeverDeleted, Exists, Written, Places
<1>2. ASSUME NEW a \in Attempts, Analyse(a) PROVE AttemptInv'
  <2>1. frame[a] + 1 \in 1..VideoFrames
    BY <1>2 DEF Analyse, EventsTypeOK, EventsAssumption
  <2>2. Emitted(frame[a] + 1) \subseteq Violations \X TransitionTypes
    BY <2>1, DueFits
  <2>3. EventsTypeOK'
    BY <1>2, <2>1, <2>2 DEF Analyse, Move, eventVars, EventsTypeOK, Places
  <2>4. AttemptsFit'
    <3> DEFINE E == Emitted(frame[a] + 1)
    <3>1. /\ at[a] = "decoding"
          /\ frame' = [frame EXCEPT ![a] = frame[a] + 1]
          /\ due' = [due EXCEPT ![a] = E]
          /\ at' = [at EXCEPT ![a] = IF E = {} THEN "decoding" ELSE "persisting"]
          /\ UNCHANGED <<flushed, rows, missing>>
      BY <1>2 DEF Analyse, Move
    <3>2. SUFFICES ASSUME NEW b \in Attempts PROVE AttemptsFit!(b)'
      BY DEF AttemptsFit
    <3>3. CASE b # a
      BY <3>1, <3>3 DEF EventsTypeOK, AttemptsFit, Written
    <3>4. CASE b = a
      <4>1. frame'[a] = frame[a] + 1
        BY <3>1 DEF EventsTypeOK
      <4>2. E = Emitted(frame'[a])
        BY <4>1
      <4> HIDE DEF E
      <4>3. /\ due'[a] = E /\ ~flushed'[a] /\ frame'[a] \in 1..VideoFrames
            /\ at'[a] = IF E = {} THEN "decoding" ELSE "persisting"
            /\ rows'[a] = {} /\ missing'[a] = {}
        BY <2>1, <3>1 DEF EventsTypeOK, AttemptsFit
      <4> QED BY <3>4, <4>2, <4>3 DEF Written
    <3> QED BY <3>3, <3>4
  <2>5. NeverDeleted'
    BY <1>2 DEF Analyse, Move, eventVars, EventsTypeOK, NeverDeleted, Exists
  <2> QED BY <2>3, <2>4, <2>5
<1>3. ASSUME NEW a \in Attempts, Finish(a) PROVE AttemptInv'
  <2>1. frame[a] \in 1..VideoFrames
    BY <1>3 DEF Finish, EventsTypeOK, EventsAssumption
  <2>2. Flushed(frame[a]) \subseteq Violations \X TransitionTypes
    BY <2>1, DueFits
  <2>3. EventsTypeOK'
    BY <1>3, <2>1, <2>2 DEF Finish, Move, eventVars, EventsTypeOK, Places
  <2>4. AttemptsFit'
    <3> DEFINE F == Flushed(frame[a])
    <3>1. /\ at[a] = "decoding"
          /\ due' = [due EXCEPT ![a] = F]
          /\ flushed' = [flushed EXCEPT ![a] = TRUE]
          /\ at' = [at EXCEPT ![a] = IF F = {} THEN "publishing" ELSE "persisting"]
          /\ UNCHANGED <<frame, rows, missing>>
      BY <1>3 DEF Finish, Move
    <3>2. SUFFICES ASSUME NEW b \in Attempts PROVE AttemptsFit!(b)'
      BY DEF AttemptsFit
    <3>3. CASE b # a
      BY <3>1, <3>3 DEF EventsTypeOK, AttemptsFit, Written
    <3>4. CASE b = a
      <4>1. F = {} \/ F # {}
        OBVIOUS
      <4> HIDE DEF F
      <4>2. /\ due'[a] = F /\ flushed'[a] /\ frame'[a] \in 1..VideoFrames
            /\ at'[a] = IF F = {} THEN "publishing" ELSE "persisting"
            /\ rows'[a] = {} /\ missing'[a] = {}
        BY <2>1, <3>1 DEF EventsTypeOK, AttemptsFit
      <4>3. F = Flushed(frame[a])
        BY DEF F
      <4> QED BY <2>1, <3>1, <3>4, <4>2, <4>3 DEF EventsTypeOK
    <3> QED BY <3>3, <3>4
  <2>5. NeverDeleted'
    BY <1>3 DEF Finish, Move, eventVars, EventsTypeOK, NeverDeleted, Exists
  <2> QED BY <2>3, <2>4, <2>5
<1>4. ASSUME NEW a \in Attempts, SelectEvents(a) PROVE AttemptInv'
  <2>1. Batch(a) \subseteq Violations /\ \A v \in Batch(a) : \E t \in TransitionTypes : <<v, t>> \in due[a]
    BY DEF Batch
  <2> DEFINE found == {v \in Batch(a) : Exists(v)}
  <2>2. found \subseteq Batch(a) /\ found \cup (Batch(a) \ found) = Batch(a)
    OBVIOUS
  <2>3. /\ rows' = [rows EXCEPT ![a] = found]
        /\ missing' = [missing EXCEPT ![a] = Batch(a) \ found]
        /\ at[a] = "persisting"
        /\ at' = [at EXCEPT ![a] = "saving"]
        /\ UNCHANGED <<eventVars, frame, due, flushed, reading>>
    BY <1>4 DEF SelectEvents, Move
  <2> HIDE DEF found
  <2>4. EventsTypeOK'
    BY <2>1, <2>2, <2>3 DEF eventVars, EventsTypeOK, Places
  <2>5. AttemptsFit'
    BY <2>1, <2>2, <2>3 DEF eventVars, EventsTypeOK, AttemptsFit, Written
  <2>6. NeverDeleted'
    BY <2>3 DEF eventVars, EventsTypeOK, NeverDeleted, Exists
  <2> QED BY <2>4, <2>5, <2>6
<1>5. ASSUME NEW a \in Attempts, CommitEvents(a) PROVE AttemptInv'
  <2>1. at[a] = "saving" /\ frame[a] \in 1..VideoFrames
    BY <1>5 DEF CommitEvents, EventsTypeOK, AttemptsFit, EventsAssumption
  <2>2. \A v \in Violations : TypeDue(a, v) \in TransitionTypes
    BY DEF TypeDue, TransitionTypes
  <2>3. \A v \in Violations : /\ Merge(meta[v], Kind[v], TypeDue(a, v), frame[a]) \in Metadata
                            /\ Merge(meta[v], Kind[v], TypeDue(a, v), frame[a]).status # "none"
    <3>1. \A v \in Violations : meta[v] \in Metadata
      BY DEF EventsTypeOK
    <3>2. ASSUME NEW m \in Metadata, NEW k, NEW t \in TransitionTypes
          PROVE  Merge(m, k, t, frame[a]) \in Metadata /\ Merge(m, k, t, frame[a]).status # "none"
      BY <2>1, MergeFits
    <3> QED BY <2>2, <3>1, <3>2
  <2>4. /\ meta' \in [Violations -> Metadata]
        /\ \A v \in Violations : Exists(v) => Exists(v)'
    BY <1>5, <2>3 DEF CommitEvents, EventsTypeOK, Exists
  <2> DEFINE left == {d \in due[a] : d[1] \notin Written(a)}
  <2>5. /\ left \subseteq due[a]
        /\ due' = [due EXCEPT ![a] = left]
        /\ rows' = [rows EXCEPT ![a] = {}]
        /\ missing' = [missing EXCEPT ![a] = {}]
        /\ at' = [at EXCEPT ![a] = IF left # {} THEN "persisting" ELSE IF flushed[a] THEN "publishing" ELSE "decoding"]
        /\ UNCHANGED <<verdict, image, stored, frame, flushed, reading>>
    BY <1>5 DEF CommitEvents, Move
  <2> HIDE DEF left
  <2>6. EventsTypeOK'
    BY <2>4, <2>5 DEF EventsTypeOK, Places
  <2>7. AttemptsFit'
    BY <2>1, <2>5 DEF EventsTypeOK, AttemptsFit, Written
  <2>8. NeverDeleted'
    BY <2>4, <2>5 DEF EventsTypeOK, NeverDeleted
  <2> QED BY <2>6, <2>7, <2>8
<1>6. ASSUME NEW a \in Attempts, Publish(a) PROVE AttemptInv'
  <2>1. EvidenceOf(a) \subseteq 1..VideoFrames
    BY DEF EvidenceOf, EventsAssumption
  <2> QED BY <1>6, <2>1 DEF Publish, Move, EventsTypeOK, AttemptsFit, NeverDeleted, Exists, Written, Places
<1>7. ASSUME NEW a \in Attempts, Attach(a) PROVE AttemptInv'
  <2>1. /\ image' \in [Violations -> 0..VideoFrames]
        /\ \A v \in Violations : image'[v] # 0 => Exists(v)
    <3>1. CASE EvidenceOf(a) = {}
      BY <1>7, <3>1 DEF Attach, EventsTypeOK, NeverDeleted
    <3>2. CASE EvidenceOf(a) # {}
      <4>0. EvidenceOf(a) \subseteq 1..VideoFrames
        BY DEF EvidenceOf, EventsAssumption
      <4>1. EvidenceOf(a) \in SUBSET Nat
        BY <4>0
      <4>2. \A v \in Violations : StartFrame[v] \in Nat
        BY DEF EventsAssumption
      <4>3. \A v \in Violations : Nearest(StartFrame[v], EvidenceOf(a)) \in 0..VideoFrames
        <5>1. ASSUME NEW f \in Nat PROVE Nearest(f, EvidenceOf(a)) \in EvidenceOf(a)
          BY <3>2, <4>1, NearestIsOne
        <5>2. \A v \in Violations : Nearest(StartFrame[v], EvidenceOf(a)) \in EvidenceOf(a)
          BY <4>2, <5>1
        <5> QED BY <4>0, <5>2 DEF EventsAssumption
      <4>4. image' = [v \in Violations |-> IF Exists(v) THEN Nearest(StartFrame[v], EvidenceOf(a)) ELSE image[v]]
        BY <1>7, <3>2 DEF Attach
      <4> QED BY <4>3, <4>4 DEF EventsTypeOK, NeverDeleted
    <3> QED BY <3>1, <3>2
  <2>2. /\ at[a] = "attaching"
        /\ at' = [at EXCEPT ![a] = "finished"]
        /\ UNCHANGED <<meta, verdict, stored, frame, due, flushed, rows, missing, reading>>
    BY <1>7 DEF Attach, Move
  <2>3. EventsTypeOK' /\ NeverDeleted'
    BY <2>1, <2>2 DEF EventsTypeOK, Places, NeverDeleted, Exists
  <2>4. AttemptsFit'
    BY <2>2 DEF EventsTypeOK, AttemptsFit, Written
  <2> QED BY <2>3, <2>4
<1>8. ASSUME NEW a \in Attempts, Succeed(a) PROVE AttemptInv'
  BY <1>8 DEF Succeed, Move, eventVars, EventsTypeOK, AttemptsFit, NeverDeleted, Exists, Written, Places
<1>9. ASSUME NEW a \in Attempts, Fail(a) PROVE AttemptInv'
  BY <1>9 DEF Fail, Move, eventVars, EventsTypeOK, AttemptsFit, NeverDeleted, Exists, Written, Places
<1>10. ASSUME NEW r \in Reviewers, NEW v \in Violations, ReadEvent(r, v) PROVE AttemptInv'
  BY <1>10 DEF ReadEvent, eventVars, attemptVars, EventsTypeOK, AttemptsFit, NeverDeleted, Exists, Written
<1>11. ASSUME NEW r \in Reviewers, NEW v \in Violations, NEW decision \in Verdicts,
              WriteReview(r, v, decision)
       PROVE  AttemptInv'
  <2>1. /\ reading[r].meta \in Metadata
        /\ reading[r].meta.status # "none"
    BY <1>11 DEF WriteReview, EventsTypeOK, NeverDeleted
  <2>2. /\ [reading[r].meta EXCEPT !.review = decision] \in Metadata
        /\ [reading[r].meta EXCEPT !.review = decision].status # "none"
    BY <2>1 DEF Metadata
  <2>3. /\ meta' \in [Violations -> Metadata]
        /\ \A w \in Violations : Exists(w) => Exists(w)'
    BY <1>11, <2>2 DEF WriteReview, EventsTypeOK, Exists
  <2>4. verdict' \in [Violations -> {"pending"} \cup Verdicts]
    BY <1>11 DEF WriteReview, EventsTypeOK
  <2>5. NoReading \in [of : SUBSET Violations, meta : Metadata, verdict : {"pending"} \cup Verdicts] /\ NoReading.of = {}
    BY DEF NoReading, NoEvent, Metadata, EventsAssumption
  <2>6. reading' = [reading EXCEPT ![r] = NoReading] /\ UNCHANGED <<image, stored, attemptVars>>
    BY <1>11 DEF WriteReview
  <2>7. EventsTypeOK'
    BY <2>3, <2>4, <2>5, <2>6 DEF EventsTypeOK, attemptVars
  <2>8. AttemptsFit'
    BY <2>6 DEF attemptVars, AttemptsFit, Written
  <2>9. NeverDeleted'
    BY <2>3, <2>5, <2>6 DEF EventsTypeOK, NeverDeleted
  <2> QED BY <2>7, <2>8, <2>9
<1> QED BY <1>0, <1>1, <1>2, <1>3, <1>4, <1>5, <1>6, <1>7, <1>8, <1>9, <1>10, <1>11
     DEF EventsNext, Attempt, Review

\* What is stored of events, attempts and reviews keeps its type.
THEOREM EventsTypeCorrect == EventsSpec => []EventsTypeOK
<1>1. EventsInit => AttemptInv
  BY EventsAssumption, AttemptStart
<1>2. AttemptInv /\ [EventsNext]_allVars => AttemptInv'
  BY EventsAssumption, AttemptStep
<1>3. AttemptInv => EventsTypeOK
  BY DEF AttemptInv
<1> QED BY <1>1, <1>2, <1>3, PTL DEF EventsSpec

-------------------------------------------------------------------------------
(* Reviews *)

\* No step of an attempt changes a review or its status.
THEOREM ReviewsAreKept == EventsSpec => ReviewKept
<1> DEFINE Kept == (\E a \in Attempts : Attempt(a))
                   => \A v \in Violations : meta'[v].review = meta[v].review /\ verdict'[v] = verdict[v]
<1>1. ASSUME EventsTypeOK, NEW a \in Attempts, Attempt(a), NEW v \in Violations
      PROVE  meta'[v].review = meta[v].review /\ verdict'[v] = verdict[v]
  <2>1. ASSUME CommitEvents(a) PROVE meta'[v].review = meta[v].review /\ verdict'[v] = verdict[v]
    BY <2>1 DEF CommitEvents, Merge
  <2> QED BY <1>1, <2>1
       DEF Attempt, Begin, Analyse, Finish, SelectEvents, Publish, Attach, Succeed, Fail, eventVars
<1>2. EventsTypeOK => [Kept]_allVars
  BY <1>1
<1> QED BY <1>2, EventsTypeCorrect, PTL DEF ReviewKept

LEMMA LoneReviewStep ==
    ASSUME \A r, s \in Reviewers : r = s, LoneReviewInv, [EventsNext]_allVars PROVE LoneReviewInv'
<1>1. AttemptInv /\ EventsTypeOK /\ AttemptInv'
  BY EventsAssumption, AttemptStep DEF LoneReviewInv, AttemptInv
<1> DEFINE Agree == (\A v \in Violations : Agreed(v)) /\ \A r \in Reviewers : \A v \in reading[r].of :
                        reading[r].verdict = verdict[v] /\ reading[r].meta.review = meta[v].review
<1>2. Agree
  BY DEF LoneReviewInv
<1>3. Agree'
  <2>1. ASSUME NEW a \in Attempts, Attempt(a) PROVE Agree'
    <3>1. \A v \in Violations : meta'[v].review = meta[v].review /\ verdict'[v] = verdict[v]
      <4>1. CASE CommitEvents(a)
        BY <4>1 DEF CommitEvents, Merge
      <4> QED BY <2>1, <4>1
           DEF Attempt, Begin, Analyse, Finish, SelectEvents, Publish, Attach, Succeed, Fail, eventVars
    <3>2. reading' = reading
      BY <2>1 DEF Attempt, Begin, Analyse, Finish, SelectEvents, CommitEvents, Publish, Attach, Succeed, Fail
    <3> QED BY <1>1, <1>2, <3>1, <3>2 DEF Agreed, EventsTypeOK
  <2>2. ASSUME NEW r \in Reviewers, NEW v \in Violations, ReadEvent(r, v) PROVE Agree'
    BY <1>1, <1>2, <2>2 DEF ReadEvent, eventVars, Agreed, EventsTypeOK
  <2>3. ASSUME NEW r \in Reviewers, NEW v \in Violations, NEW decision \in Verdicts,
               WriteReview(r, v, decision)
        PROVE  Agree'
    <3>1. verdict'[v] = decision /\ meta'[v].review = decision
      BY <1>1, <1>2, <2>3 DEF WriteReview, EventsTypeOK, Metadata
    <3>2. \A w \in Violations \ {v} : verdict'[w] = verdict[w] /\ meta'[w] = meta[w]
      BY <1>1, <2>3 DEF WriteReview, EventsTypeOK
    <3>3. \A s \in Reviewers : reading'[s].of = {}
      BY <1>1, <2>3 DEF WriteReview, NoReading, EventsTypeOK
    <3> QED BY <1>2, <3>1, <3>2, <3>3 DEF Agreed, Verdicts
  <2>4. CASE UNCHANGED allVars
    BY <1>2, <2>4 DEF allVars, eventVars, Agreed
  <2> QED BY <2>1, <2>2, <2>3, <2>4 DEF EventsNext, Review
<1> QED BY <1>1, <1>3 DEF LoneReviewInv

\* While one reviewer is at work, the status and the review on record agree at
\* all times, whatever the attempts replay meanwhile.
THEOREM LoneReviewAgrees ==
    ASSUME \A r, s \in Reviewers : r = s
    PROVE  EventsSpec => [](\A v \in Violations : Agreed(v))
<1> DEFINE AllAgreed == \A v \in Violations : Agreed(v)
<1>1. EventsInit => LoneReviewInv
  BY EventsAssumption, AttemptStart DEF EventsInit, LoneReviewInv, Agreed, NoEvent, NoReading
<1>2. LoneReviewInv /\ [EventsNext]_allVars => LoneReviewInv'
  BY LoneReviewStep
<1>3. LoneReviewInv => AllAgreed
  BY DEF LoneReviewInv
<1> QED BY <1>1, <1>2, <1>3, PTL DEF EventsSpec

\* However many review an event at the same time, only a review that another one
\* has overtaken parts the status from the review on record.
THEOREM ReviewsAgree == EventsSpec => ReviewAgrees
<1> DEFINE Untouched(v) == verdict'[v] = verdict[v] /\ meta'[v].review = meta[v].review
           Late(v) == \E r \in Reviewers : Overtaken(r, v) /\ reading'[r].of = {}
           Agree == \A v \in Violations :
                       \/ Agreed(v)'
                       \/ verdict'[v] = verdict[v] /\ meta'[v].review = meta[v].review
                       \/ \E r \in Reviewers : Overtaken(r, v) /\ reading'[r].of = {}
<1>1. ASSUME EventsTypeOK, NEW r \in Reviewers, NEW w \in Violations, NEW decision \in Verdicts,
             WriteReview(r, w, decision), NEW v \in Violations
      PROVE  Agreed(v)' \/ Untouched(v) \/ Late(v)
  <2>1. CASE v # w
    BY <1>1, <2>1 DEF WriteReview, EventsTypeOK
  <2>2. CASE v = w
    <3>1. meta'[v].review = decision /\ decision \notin {"none", "pending"}
      BY <1>1, <2>2 DEF WriteReview, EventsTypeOK, Metadata, Verdicts
    <3>2. CASE decision # reading[r].verdict \/ reading[r].verdict = verdict[v]
      <4>1. verdict'[v] = decision
        BY <1>1, <2>2, <3>2 DEF WriteReview, EventsTypeOK
      <4> QED BY <3>1, <4>1 DEF Agreed
    <3>3. CASE reading[r].verdict # verdict[v]
      <4>1. v \in reading[r].of /\ reading'[r].of = {}
        BY <1>1, <2>2 DEF WriteReview, NoReading, EventsTypeOK
      <4> QED BY <3>3, <4>1 DEF Overtaken
    <3> QED BY <3>2, <3>3
  <2> QED BY <2>1, <2>2
<1>2. ASSUME EventsTypeOK, NEW a \in Attempts, Attempt(a), NEW v \in Violations PROVE Untouched(v)
  <2>1. ASSUME CommitEvents(a) PROVE Untouched(v)
    BY <2>1 DEF CommitEvents, Merge
  <2> QED BY <1>2, <2>1
       DEF Attempt, Begin, Analyse, Finish, SelectEvents, Publish, Attach, Succeed, Fail, eventVars
<1>3. ASSUME NEW r \in Reviewers, NEW w \in Violations, ReadEvent(r, w), NEW v \in Violations
      PROVE  Untouched(v)
  BY <1>3 DEF ReadEvent, eventVars
<1>4. EventsTypeOK /\ [EventsNext]_allVars => [Agree]_allVars
  <2>1. ASSUME EventsTypeOK, EventsNext, NEW v \in Violations PROVE Agreed(v)' \/ Untouched(v) \/ Late(v)
    <3> HIDE DEF Untouched, Late
    <3> QED BY <1>1, <1>2, <1>3, <2>1 DEF EventsNext, Review
  <2> QED BY <2>1
<1> QED BY <1>4, EventsTypeCorrect, PTL DEF EventsSpec, ReviewAgrees

-------------------------------------------------------------------------------
(* Images *)

LEMMA ImageStep ==
    ASSUME ~Overlap, ImageInv, [EventsNext]_allVars PROVE ImageInv'
<1>1. AttemptInv /\ EventsTypeOK /\ AttemptsFit /\ NeverDeleted /\ AttemptInv' /\ ImagesPublished
  BY EventsAssumption, AttemptStep DEF ImageInv, AttemptInv
<1> DEFINE Alone   == \A a, b \in Attempts : b < a /\ at[a] # "waiting" => at[b] = "failed"
           Current == \A a \in Attempts :
                         at[a] \in {"attaching", "finished", "done"} => stored = EvidenceOf(a)
           Among   == \A a \in Attempts : at[a] \in {"finished", "done"} /\ stored # {} =>
                         \A v \in Violations : image[v] # 0 => image[v] \in stored
<1>2. Alone /\ Current /\ Among
  BY <1>1 DEF ImagesPublished
<1>3. \A a, b \in Attempts : at[a] \notin {"waiting", "failed"} /\ at[b] \notin {"waiting", "failed"} => a = b
  BY <1>2 DEF Attempts
<1>4. ASSUME NEW a \in Attempts, Begin(a) PROVE ImagesPublished'
  <2>1. at[a] = "waiting" /\ at' = [at EXCEPT ![a] = "decoding"] /\ UNCHANGED <<image, stored, frame>>
    BY <1>4 DEF Begin, Move, eventVars
  <2>2. ASSUME NEW b \in Attempts, b < a PROVE at[b] = "failed"
    <3>1. a - 1 \in Attempts /\ at[a - 1] = "failed"
      <4>1. a > 1 /\ a - 1 \in Attempts
        BY <2>2, EventsAssumption DEF Attempts, EventsAssumption
      <4>2. at[a - 1] = "failed" \/ (Overlap /\ at[a - 1] \notin {"waiting", "done"})
        BY <1>4, <4>1 DEF Begin
      <4> QED BY <4>1, <4>2
    <3>2. b = a - 1 \/ b < a - 1
      BY <2>2 DEF Attempts
    <3> QED BY <1>2, <3>1, <3>2
  <2>3. Alone'
    BY <1>1, <1>2, <2>1, <2>2 DEF EventsTypeOK
  <2>4. Current' /\ Among'
    BY <1>1, <1>2, <2>1 DEF EventsTypeOK, EvidenceOf
  <2> QED BY <2>3, <2>4 DEF ImagesPublished
<1>5. ASSUME NEW a \in Attempts, Publish(a) PROVE ImagesPublished'
  <2>1. at[a] = "publishing" /\ at' = [at EXCEPT ![a] = "attaching"] /\ stored' = EvidenceOf(a)
        /\ UNCHANGED <<image, frame>>
    BY <1>5 DEF Publish, Move
  <2>2. Alone'
    BY <1>1, <1>2, <2>1 DEF EventsTypeOK
  <2>3. \A b \in Attempts : b # a => at'[b] \in {"waiting", "failed"}
    BY <1>1, <1>3, <2>1 DEF EventsTypeOK
  <2>4. Current' /\ Among'
    BY <1>1, <2>1, <2>3 DEF EventsTypeOK, EvidenceOf
  <2> QED BY <2>2, <2>4 DEF ImagesPublished
<1>6. ASSUME NEW a \in Attempts, Attach(a) PROVE ImagesPublished'
  <2>1. at[a] = "attaching" /\ at' = [at EXCEPT ![a] = "finished"] /\ UNCHANGED <<stored, frame>>
    BY <1>6 DEF Attach, Move
  <2>2. stored = EvidenceOf(a)
    BY <1>2, <2>1
  <2>3. ASSUME stored # {}, NEW v \in Violations, image'[v] # 0 PROVE image'[v] \in stored
    <3>1. EvidenceOf(a) \in SUBSET Nat /\ EvidenceOf(a) # {} /\ StartFrame[v] \in Nat
      <4>1. stored \in SUBSET Nat
        BY <1>1 DEF EventsTypeOK
      <4>2. StartFrame[v] \in Nat
        BY EventsAssumption DEF EventsAssumption
      <4> QED BY <2>2, <2>3, <4>1, <4>2
    <3>2. image'[v] = IF Exists(v) THEN Nearest(StartFrame[v], EvidenceOf(a)) ELSE image[v]
      BY <1>6, <3>1 DEF Attach
    <3>3. ~Exists(v) => image[v] = 0
      BY <1>1 DEF NeverDeleted
    <3>4. Nearest(StartFrame[v], EvidenceOf(a)) \in EvidenceOf(a)
      BY <3>1, NearestIsOne
    <3> QED BY <2>2, <2>3, <3>2, <3>3, <3>4
  <2>4. Alone' /\ Current'
    BY <1>1, <1>2, <2>1 DEF EventsTypeOK, EvidenceOf
  <2>5. Among'
    BY <2>1, <2>3
  <2> QED BY <2>4, <2>5 DEF ImagesPublished
<1>7. ASSUME NEW a \in Attempts,
             Analyse(a) \/ Finish(a) \/ SelectEvents(a) \/ CommitEvents(a)
      PROVE  ImagesPublished'
  <2>1. /\ at[a] \in {"decoding", "persisting", "saving"}
        /\ at' = [at EXCEPT ![a] = at'[a]]
        /\ at'[a] \in {"decoding", "persisting", "saving", "publishing"}
        /\ UNCHANGED <<image, stored>>
        /\ \A b \in Attempts : b # a => frame'[b] = frame[b]
    BY <1>1, <1>7 DEF Analyse, Finish, SelectEvents, CommitEvents, Move, eventVars, EventsTypeOK
  <2>2. Alone'
    BY <1>1, <1>2, <2>1 DEF EventsTypeOK
  <2>3. Current' /\ Among'
    BY <1>1, <1>2, <2>1 DEF EventsTypeOK, EvidenceOf
  <2> QED BY <2>2, <2>3 DEF ImagesPublished
<1>8. ASSUME NEW a \in Attempts, Succeed(a) \/ Fail(a) PROVE ImagesPublished'
  <2>1. /\ at' = [at EXCEPT ![a] = at'[a]]
        /\ at[a] # "waiting"
        /\ at'[a] = "failed" \/ (at[a] = "finished" /\ at'[a] = "done")
        /\ UNCHANGED <<image, stored, frame>>
    BY <1>1, <1>8 DEF Succeed, Fail, Move, eventVars, EventsTypeOK
  <2>2. Alone'
    BY <1>1, <1>2, <2>1, <1>8 DEF EventsTypeOK, Succeed, Fail
  <2>3. Current' /\ Among'
    BY <1>1, <1>2, <2>1 DEF EventsTypeOK, EvidenceOf
  <2> QED BY <2>2, <2>3 DEF ImagesPublished
<1>9. ASSUME UNCHANGED <<image, stored, attemptVars>> PROVE ImagesPublished'
  BY <1>1, <1>9 DEF ImagesPublished, attemptVars, EvidenceOf
<1>10. ASSUME NEW r \in Reviewers, Review(r) PROVE ImagesPublished'
  BY <1>9, <1>10 DEF Review, ReadEvent, WriteReview, eventVars
<1> QED BY <1>1, <1>4, <1>5, <1>6, <1>7, <1>8, <1>9, <1>10
     DEF ImageInv, EventsNext, Attempt, allVars, eventVars

\* As long as a job has one worker at a time, the images of its events are
\* among those that the attempt that succeeded has published.
THEOREM ImagesAlwaysFollow == ASSUME ~Overlap PROVE EventsSpec => []ImagesFollow
<1>1. EventsInit => ImageInv
  BY EventsAssumption, AttemptStart DEF EventsInit, ImageInv, ImagesPublished
<1>2. ImageInv /\ [EventsNext]_allVars => ImageInv'
  BY ImageStep
<1>3. ImageInv => ImagesFollow
  BY DEF ImageInv, ImagesPublished, ImagesFollow
<1> QED BY <1>1, <1>2, <1>3, PTL DEF EventsSpec

-------------------------------------------------------------------------------
(* Histories *)

\* The transition that a transaction writes for an event: it is due, the other
\* one of the event is not, and a due end comes after its start.
LEMMA WhatIsWritten ==
    ASSUME AttemptInv, NEW a \in Attempts, at[a] = "saving", NEW v \in Written(a)
    PROVE  /\ v \in Violations
           /\ TypeDue(a, v) \in TransitionTypes
           /\ <<v, TypeDue(a, v)>> \in due[a]
           /\ \A t \in TransitionTypes : <<v, t>> \in due[a] => t = TypeDue(a, v)
           /\ TypeDue(a, v) = "started" => ~flushed[a] /\ StartFrame[v] = frame[a]
           /\ TypeDue(a, v) = "ended" => /\ Ends(v)
                                         /\ StartFrame[v] <= frame[a]
                                         /\ ~flushed[a] => EndFrame[v] = frame[a]
                                         /\ flushed[a] => frame[a] < EndFrame[v]
<1>1. /\ v \in Violations /\ frame[a] \in Nat /\ flushed[a] \in BOOLEAN
      /\ StartFrame[v] \in Nat /\ EndFrame[v] \in Nat /\ StartFrame[v] < EndFrame[v]
  BY EventsAssumption DEF AttemptInv, EventsTypeOK, Written, EventsAssumption
<1>2. \E t \in TransitionTypes : <<v, t>> \in due[a]
  BY DEF AttemptInv, AttemptsFit
<1>3. due[a] \subseteq (IF flushed[a] THEN Flushed(frame[a]) ELSE Emitted(frame[a]))
  BY DEF AttemptInv, AttemptsFit
<1>4. <<v, "started">> \in due[a] => ~flushed[a] /\ StartFrame[v] = frame[a]
  BY <1>3 DEF Flushed, Emitted
<1>5. <<v, "ended">> \in due[a] => Ends(v)
  BY <1>3 DEF Flushed, Emitted
<1>6. /\ ~(<<v, "started">> \in due[a] /\ <<v, "ended">> \in due[a])
      /\ <<v, "ended">> \in due[a] => /\ StartFrame[v] <= frame[a]
                                      /\ ~flushed[a] => EndFrame[v] = frame[a]
                                      /\ flushed[a] => frame[a] < EndFrame[v]
  <2>1. CASE flushed[a]
    <3>1. <<v, "ended">> \in due[a] => StartFrame[v] <= frame[a] /\ frame[a] < EndFrame[v]
      BY <1>3, <2>1 DEF Flushed
    <3>2. <<v, "started">> \notin due[a]
      BY <1>4, <2>1
    <3> QED BY <2>1, <3>1, <3>2
  <2>2. CASE ~flushed[a]
    <3>1. <<v, "ended">> \in due[a] => EndFrame[v] = frame[a]
      BY <1>3, <2>2 DEF Emitted
    <3>2. <<v, "started">> \in due[a] => StartFrame[v] = frame[a]
      BY <1>4
    <3>3. EndFrame[v] = frame[a] => StartFrame[v] <= frame[a] /\ StartFrame[v] # frame[a]
      BY <1>1
    <3> QED BY <2>2, <3>1, <3>2, <3>3
  <2> QED BY <2>1, <2>2
<1>7. <<v, TypeDue(a, v)>> \in due[a] /\ TypeDue(a, v) \in TransitionTypes
  BY <1>2 DEF TypeDue, TransitionTypes
<1>8. \A t \in TransitionTypes : <<v, t>> \in due[a] => t = TypeDue(a, v)
  BY <1>6, <1>7 DEF TransitionTypes
<1>9. TypeDue(a, v) = "started" => ~flushed[a] /\ StartFrame[v] = frame[a]
  BY <1>4, <1>7
<1>10. TypeDue(a, v) = "ended" => <<v, "ended">> \in due[a]
  BY <1>7
<1> QED BY <1>1, <1>5, <1>6, <1>7, <1>8, <1>9, <1>10, Zenon

\* What the transaction of an attempt adds to the history of each event.
LEMMA CommitRecords ==
    ASSUME AttemptInv, NEW a \in Attempts, CommitEvents(a), NEW v \in Violations
    PROVE  /\ v \notin Written(a) => meta'[v] = meta[v]
           /\ v \in Written(a) =>
                 /\ meta'[v] = Merge(meta[v], Kind[v], TypeDue(a, v), frame[a])
                 /\ meta'[v].history = Record(meta[v].history, <<TypeDue(a, v), frame[a]>>)
                 /\ <<TypeDue(a, v), frame[a]>> \in TransitionTypes \X (1..VideoFrames)
           /\ meta[v].history \in Seq(TransitionTypes \X (1..VideoFrames))
<1>1. /\ at[a] = "saving"
      /\ meta' = [w \in Violations |-> IF w \in Written(a)
                                       THEN Merge(meta[w], Kind[w], TypeDue(a, w), frame[a])
                                       ELSE meta[w]]
  BY DEF CommitEvents
<1>2. meta[v].history \in Seq(TransitionTypes \X (1..VideoFrames))
  BY DEF AttemptInv, EventsTypeOK, Metadata
<1>3. frame[a] \in 1..VideoFrames
  BY <1>1, EventsAssumption DEF AttemptInv, EventsTypeOK, AttemptsFit, EventsAssumption
<1>4. TypeDue(a, v) \in TransitionTypes
  BY DEF TypeDue, TransitionTypes
<1>5. v \in Written(a) => /\ meta'[v] = Merge(meta[v], Kind[v], TypeDue(a, v), frame[a])
                          /\ meta'[v].history = Record(meta[v].history, <<TypeDue(a, v), frame[a]>>)
  BY <1>1 DEF Merge
<1>6. v \notin Written(a) => meta'[v] = meta[v]
  BY <1>1
<1> QED BY <1>2, <1>3, <1>4, <1>5, <1>6

\* A transaction keeps what is on record and puts on record what is no longer
\* due, for whichever attempt.
LEMMA CommitReplayed ==
    ASSUME AttemptInv, Replayed, NEW a \in Attempts, CommitEvents(a) PROVE Replayed'
<1>1. /\ at[a] = "saving"
      /\ at' = [at EXCEPT ![a] = at'[a]]
      /\ due' = [due EXCEPT ![a] = {d \in due[a] : d[1] \notin Written(a)}]
      /\ UNCHANGED <<frame, flushed>>
  BY DEF AttemptInv, EventsTypeOK, CommitEvents, Move
<1>2. ASSUME NEW v \in Violations, NEW t, NEW f, OnRecord(v, t, f) PROVE OnRecord(v, t, f)'
  <2>1. CASE v \notin Written(a)
    BY <1>2, <2>1, CommitRecords DEF OnRecord
  <2>2. CASE v \in Written(a)
    <3> DEFINE h == meta[v].history
               e == <<TypeDue(a, v), frame[a]>>
               S == TransitionTypes \X (1..VideoFrames)
    <3>0. h \in Seq(S) /\ e \in S /\ Recorded(h, <<t, f>>)
      BY <1>2, <2>2, CommitRecords DEF OnRecord
    <3> HIDE DEF h, e, S
    <3>1. Recorded(Record(h, e), <<t, f>>)
      BY <3>0, RecordFacts
    <3> USE DEF h, e
    <3> QED BY <2>2, <3>1, CommitRecords DEF OnRecord
  <2> QED BY <2>1, <2>2
<1> DEFINE Now(v, t, f) == Recorded(meta'[v].history, <<t, f>>)
<1>3. ASSUME NEW v \in Written(a) PROVE Now(v, TypeDue(a, v), frame[a])
  <2>1. v \in Violations
    BY <1>1, <1>3, WhatIsWritten
  <2>2. Recorded(Record(meta[v].history, <<TypeDue(a, v), frame[a]>>), <<TypeDue(a, v), frame[a]>>)
    BY <1>3, <2>1, CommitRecords, RecordFacts
  <2> QED BY <1>3, <2>1, <2>2, CommitRecords
<1>4. ASSUME NEW b \in Attempts, NEW v \in Violations, <<v, "started">> \in due[b] <=> <<v, "started">> \in due'[b],
             <<v, "ended">> \in due[b] <=> <<v, "ended">> \in due'[b]
      PROVE  ReplayedBy(b, v)'
  <2>1. ReplayedBy(b, v)
    BY DEF Replayed
  <2>2. at'[b] \notin {"waiting", "failed"} => at[b] \notin {"waiting", "failed"}
    BY <1>1 DEF AttemptInv, EventsTypeOK
  <2>3. frame' = frame /\ flushed' = flushed
    BY <1>1
  <2>4. \A t, f : OnRecord(v, t, f) => OnRecord(v, t, f)'
    BY <1>2
  <2> QED BY <1>4, <2>1, <2>2, <2>3, <2>4 DEF ReplayedBy
<1>5. ASSUME NEW v \in Written(a) PROVE ReplayedBy(a, v)'
  <2>1. /\ TypeDue(a, v) = "started" => ~flushed[a] /\ StartFrame[v] = frame[a]
        /\ TypeDue(a, v) = "ended" => /\ ~flushed[a] => EndFrame[v] = frame[a]
                                      /\ flushed[a] => frame[a] < EndFrame[v]
        /\ v \in Violations
        /\ \A t \in TransitionTypes : <<v, t>> \in due[a] => t = TypeDue(a, v)
        /\ TypeDue(a, v) \in TransitionTypes
    BY <1>1, <1>5, WhatIsWritten
  <2>2. ReplayedBy(a, v) /\ at[a] = "saving"
    BY <1>1, <2>1 DEF Replayed
  <2>3. frame' = frame /\ flushed' = flushed
    BY <1>1
  <2>4. \A t, f : OnRecord(v, t, f) => OnRecord(v, t, f)'
    BY <1>2, <2>1
  <2>5. Recorded(meta'[v].history, <<TypeDue(a, v), frame[a]>>)
    BY <1>3, <1>5
  <2>6. CASE TypeDue(a, v) = "started"
    <3>1. OnRecord(v, "started", StartFrame[v])'
      BY <2>1, <2>5, <2>6 DEF OnRecord
    <3>2. <<v, "ended">> \notin due[a]
      BY <2>1, <2>6 DEF TransitionTypes
    <3> QED BY <2>2, <2>3, <2>4, <3>1, <3>2 DEF ReplayedBy
  <2>7. CASE TypeDue(a, v) = "ended"
    <3>1. OnRecord(v, "ended", frame[a])'
      BY <2>3, <2>5, <2>7 DEF OnRecord
    <3>2. <<v, "started">> \notin due[a]
      BY <2>1, <2>7 DEF TransitionTypes
    <3>3. Ends(v) /\ EndFrame[v] <= frame[a] => EndFrame[v] = frame[a]
      <4>1. frame[a] \in Nat /\ EndFrame[v] \in Nat
        BY <2>1, EventsAssumption DEF AttemptInv, EventsTypeOK, EventsAssumption
      <4>2. CASE flushed[a]
        BY <2>1, <2>7, <4>1, <4>2
      <4>3. CASE ~flushed[a]
        BY <2>1, <2>7, <4>3
      <4> QED BY <4>2, <4>3
    <3>4. OnRecord(v, "started", StartFrame[v])' \/ ~(StartFrame[v] <= frame[a])
      BY <2>2, <2>4, <3>2 DEF ReplayedBy
    <3> QED BY <2>3, <3>1, <3>3, <3>4 DEF ReplayedBy
  <2> QED BY <2>1, <2>6, <2>7 DEF TransitionTypes
<1>6. \A b \in Attempts \ {a} : due'[b] = due[b]
  BY <1>1 DEF AttemptInv, EventsTypeOK
<1>7. \A v \in Violations : \A t : v \notin Written(a) => (<<v, t>> \in due[a] <=> <<v, t>> \in due'[a])
  BY <1>1 DEF AttemptInv, EventsTypeOK
<1>8. \A v \in Violations : v \notin Written(a) => ReplayedBy(a, v)'
  BY <1>4, <1>7
<1>9. \A b \in Attempts \ {a}, v \in Violations : ReplayedBy(b, v)'
  BY <1>4, <1>6
<1> QED BY <1>5, <1>8, <1>9 DEF Replayed

\* A transaction appends to a history only what belongs after what is in it.
LEMMA CommitOrder ==
    ASSUME OrderInv, NEW a \in Attempts, CommitEvents(a)
    PROVE  /\ \A v \in Violations : InOrder(v, meta'[v])
           /\ \A v \in Violations : meta[v].status = "ended" /\ Kind[v] # "lane_violation" => meta'[v].status = "ended"
<1> DEFINE First(v, h)  == h[1] = <<"started", StartFrame[v]>>
           HasEnd(h)    == \E i \in 2..Len(h) : h[i][1] = "ended"
           Fits(v, m)   == /\ m.status # "none" <=> m.history # <<>>
                           /\ m.status = "ended" => Ends(v)
                           /\ m.status # "none" => /\ First(v, m.history)
                                                   /\ Unrepeated(m.history)
                                                   /\ m.status = "ended" => HasEnd(m.history)
<1>1. \A v \in Violations : Fits(v, meta[v])
  BY DEF OrderInv, InOrder
<1>2. at[a] = "saving" /\ AttemptInv
  BY DEF CommitEvents, OrderInv
<1>3. ASSUME NEW v \in Written(a)
      PROVE  /\ Fits(v, meta'[v])
             /\ meta[v].status = "ended" /\ Kind[v] # "lane_violation" => meta'[v].status = "ended"
  <2> DEFINE t == TypeDue(a, v)
             h == meta[v].history
             e == <<t, frame[a]>>
             g == Record(h, e)
  <2>1. v \in Violations /\ t \in TransitionTypes
    BY <1>2, <1>3, WhatIsWritten
  <2>2. meta'[v].history = g /\ meta'[v].status = StatusAfter(meta[v].status, Kind[v], t)
        /\ h \in Seq(TransitionTypes \X (1..VideoFrames)) /\ e \in TransitionTypes \X (1..VideoFrames)
    <3>1. /\ meta'[v] = Merge(meta[v], Kind[v], t, frame[a])
          /\ meta'[v].history = g
          /\ e \in TransitionTypes \X (1..VideoFrames)
          /\ h \in Seq(TransitionTypes \X (1..VideoFrames))
      BY <1>2, <1>3, <2>1, CommitRecords
    <3>2. meta'[v].status = StatusAfter(meta[v].status, Kind[v], t)
      BY <3>1 DEF Merge
    <3> QED BY <3>1, <3>2
  <2>3. /\ t = "started" => e = <<"started", StartFrame[v]>>
        /\ t = "ended" => Ends(v) /\ StartFrame[v] <= frame[a]
        /\ t = "ended" => <<v, "started">> \notin due[a]
    BY <1>2, <1>3, WhatIsWritten DEF TransitionTypes
  <2>4. t = "ended" => h # <<>>
    <3>1. t = "ended" => Exists(v)
      BY <1>2, <2>1, <2>3 DEF OrderInv, Begun, BegunBy
    <3> QED BY <1>1, <2>1, <3>1 DEF Exists
  <2>5. e[1] = t
    OBVIOUS
  <2>6. /\ h # <<>> => First(v, h) /\ Unrepeated(h) /\ (meta[v].status = "ended" => HasEnd(h))
        /\ meta[v].status = "ended" => h # <<>> /\ Ends(v)
        /\ Len(h) \in Nat
        /\ h = <<>> => Len(h) = 0
    BY <1>1, <2>1, <2>2
  <2>7. t \in {"started", "ended"}
    BY <2>1 DEF TransitionTypes
  <2> HIDE DEF t, h, e
  <2>8. /\ g # <<>> /\ Len(g) \in Nat
        /\ Recorded(g, e)
        /\ \A i \in 1..Len(h) : g[i] = h[i]
        /\ Len(h) <= Len(g)
        /\ h = <<>> => g[1] = e
        /\ Unrepeated(h) => Unrepeated(g)
    <3> DEFINE S == TransitionTypes \X (1..VideoFrames)
    <3>1. h \in Seq(S) /\ e \in S
      BY <2>2
    <3> HIDE DEF S
    <3>2. /\ g \in Seq(S) /\ g # <<>> /\ Recorded(g, e) /\ Len(h) <= Len(g)
          /\ \A i \in 1..Len(h) : g[i] = h[i]
          /\ h = <<>> => g[1] = e
      BY <3>1, RecordFacts
    <3>3. Unrepeated(h) => Unrepeated(g)
      BY <3>1, RecordFacts
    <3>4. Len(g) \in Nat
      BY <3>2
    <3> QED BY <3>2, <3>3, <3>4
  <2> HIDE DEF g
  <2>9. First(v, g)
    <3>1. CASE h = <<>>
      BY <2>3, <2>4, <2>7, <2>8, <3>1
    <3>2. CASE h # <<>>
      BY <2>6, <2>8, <3>2
    <3> QED BY <3>1, <3>2
  <2>10. Unrepeated(g)
    <3>1. h = <<>> => Unrepeated(h)
      BY <2>6 DEF Unrepeated
    <3> QED BY <2>6, <2>8, <3>1
  <2>11. HasEnd(h) => HasEnd(g)
    <3>1. ASSUME NEW i \in 2..Len(h), h[i][1] = "ended" PROVE i \in 2..Len(g) /\ g[i][1] = "ended"
      <4>1. Len(h) \in Nat
        BY <2>6
      <4> QED BY <2>8, <3>1, <4>1
    <3> QED BY <3>1
  <2>12. t = "ended" => HasEnd(g)
    <3>1. ASSUME t = "ended" PROVE HasEnd(g)
      <4>1. PICK i \in 1..Len(g) : g[i] = e
        BY <2>8 DEF Recorded
      <4>2. g[i][1] = "ended"
        BY <2>5, <3>1, <4>1
      <4>3. i # 1
        BY <2>9, <4>2
      <4> QED BY <2>8, <4>1, <4>2, <4>3
    <3> QED BY <3>1
  <2>13. /\ StatusAfter(meta[v].status, Kind[v], t) # "none"
         /\ StatusAfter(meta[v].status, Kind[v], t) = "ended" => t = "ended" \/ meta[v].status = "ended"
         /\ meta[v].status = "ended" /\ Kind[v] # "lane_violation" /\ Kind[v] # "red_light"
               => StatusAfter(meta[v].status, Kind[v], t) = "ended"
    BY <2>7 DEF StatusAfter
  <2>14. StatusAfter(meta[v].status, Kind[v], t) = "ended" => HasEnd(g) /\ Ends(v)
    <3> HIDE DEF HasEnd
    <3> QED BY <2>3, <2>6, <2>11, <2>12, <2>13
  <2>15. Ends(v) => Kind[v] # "red_light"
    BY DEF Ends
  <2> HIDE DEF First, HasEnd
  <2> QED BY <2>2, <2>6, <2>8, <2>9, <2>10, <2>13, <2>14, <2>15
<1>4. \A v \in Violations : v \notin Written(a) => meta'[v] = meta[v]
  BY <1>2, CommitRecords
<1>5. \A v \in Violations : Fits(v, meta'[v])
  <2> HIDE DEF Fits
  <2> QED BY <1>1, <1>3, <1>4
<1>6. \A v \in Violations : meta[v].status = "ended" /\ Kind[v] # "lane_violation" => meta'[v].status = "ended"
  BY <1>3, <1>4
<1> QED BY <1>5, <1>6 DEF InOrder

\* Whatever attempts and reviews do, the metadata of an event are in order, those
\* that a review will write back included, and no step of an attempt reopens an
\* event that has ended, except one of a lane violation.
LEMMA OrderStep ==
    ASSUME OrderInv, [EventsNext]_allVars
    PROVE  /\ OrderInv'
           /\ (\E a \in Attempts : Attempt(a)) =>
                 \A v \in Violations :
                     meta[v].status = "ended" /\ Kind[v] # "lane_violation" => meta'[v].status = "ended"
<1> DEFINE Stays == \A v \in Violations :
                       meta[v].status = "ended" /\ Kind[v] # "lane_violation" => meta'[v].status = "ended"
           Events == \A v \in Violations : InOrder(v, meta[v])
           Read   == \A r \in Reviewers : \A v \in reading[r].of : InOrder(v, reading[r].meta)
<1>1. AttemptInv /\ EventsTypeOK /\ AttemptsFit /\ AttemptInv' /\ NeverDeleted /\ Begun /\ Events /\ Read
  BY EventsAssumption, AttemptStep DEF OrderInv, AttemptInv
<1> HIDE DEF Events, Read
<1>2. ASSUME meta' = meta PROVE Events' /\ Stays
  BY <1>1, <1>2 DEF Events, InOrder, Ends, Unrepeated
<1>3. ASSUME reading' = reading PROVE Read'
  BY <1>1, <1>3 DEF Read, InOrder, Ends, Unrepeated
<1>4. \A v \in Violations : Exists(v) => Exists(v)'
  <2>1. ASSUME NEW a \in Attempts, CommitEvents(a), NEW v \in Violations, Exists(v) PROVE Exists(v)'
    <3>1. CASE v \in Written(a)
      <4>1. /\ meta'[v] = Merge(meta[v], Kind[v], TypeDue(a, v), frame[a])
            /\ TypeDue(a, v) \in TransitionTypes
        BY <1>1, <2>1, <3>1, CommitRecords, WhatIsWritten DEF CommitEvents
      <4> QED BY <4>1 DEF Merge, StatusAfter, Exists
    <3>2. CASE v \notin Written(a)
      BY <1>1, <2>1, <3>2, CommitRecords DEF Exists
    <3> QED BY <3>1, <3>2
  <2>2. ASSUME NEW r \in Reviewers, NEW w \in Violations, NEW decision \in Verdicts,
               WriteReview(r, w, decision), NEW v \in Violations, Exists(v)
        PROVE  Exists(v)'
    BY <1>1, <2>2 DEF WriteReview, Exists, NeverDeleted, EventsTypeOK, Metadata
  <2>3. ASSUME meta' = meta, NEW v \in Violations, Exists(v) PROVE Exists(v)'
    BY <2>3 DEF Exists
  <2> QED BY <2>1, <2>2, <2>3
       DEF EventsNext, Attempt, Review, Begin, Analyse, Finish, SelectEvents, Publish, Attach, Succeed, Fail,
           ReadEvent, allVars, eventVars
<1>5. ASSUME NEW a \in Attempts,
             \A b \in Attempts \ {a} : at'[b] = at[b] /\ due'[b] = due[b] /\ frame'[b] = frame[b],
             \A v \in Violations : BegunBy(a, v)'
      PROVE  Begun'
  <2>1. \A b \in Attempts \ {a}, v \in Violations : BegunBy(b, v)'
    BY <1>1, <1>4, <1>5 DEF Begun, BegunBy
  <2> QED BY <1>5, <2>1 DEF Begun
<1>6. \A v \in Violations, a \in Attempts : StartFrame[v] \in Nat \ {0} /\ frame[a] \in Nat
  BY <1>1, EventsAssumption DEF EventsTypeOK, EventsAssumption
<1>7. ASSUME NEW a \in Attempts, Attempt(a) PROVE Begun'
  <2>1. /\ \A b \in Attempts \ {a} : at'[b] = at[b] /\ due'[b] = due[b] /\ frame'[b] = frame[b]
    BY <1>1, <1>7 DEF Attempt, Begin, Analyse, Finish, SelectEvents, CommitEvents, Publish, Attach, Succeed,
                      Fail, Move, EventsTypeOK
  <2>2. ASSUME NEW v \in Violations PROVE BegunBy(a, v)'
    <3>1. BegunBy(a, v)
      BY <1>1 DEF Begun
    <3>2. CASE Begin(a)
      <4>1. frame'[a] = 0
        BY <1>1, <3>2 DEF Begin, AttemptsFit, EventsTypeOK
      <4> QED BY <1>6, <4>1 DEF BegunBy
    <3>3. CASE Analyse(a)
      <4>1. /\ at[a] = "decoding" /\ due[a] = {}
            /\ frame'[a] = frame[a] + 1 /\ due'[a] = Emitted(frame[a] + 1)
        BY <1>1, <3>3 DEF Analyse, AttemptsFit, EventsTypeOK
      <4>2. StartFrame[v] = frame[a] + 1 => <<v, "started">> \in due'[a]
        BY <4>1 DEF Emitted
      <4>3. StartFrame[v] <= frame'[a] => StartFrame[v] <= frame[a] \/ StartFrame[v] = frame[a] + 1
        BY <1>6, <4>1
      <4> QED BY <1>4, <3>1, <4>1, <4>2, <4>3 DEF BegunBy
    <3>4. CASE Finish(a)
      <4>1. at[a] = "decoding" /\ due[a] = {} /\ frame'[a] = frame[a]
        BY <1>1, <3>4 DEF Finish, AttemptsFit
      <4> QED BY <1>4, <3>1, <4>1 DEF BegunBy
    <3>5. CASE SelectEvents(a) \/ Publish(a) \/ Attach(a) \/ Succeed(a)
      <4>1. at[a] \notin {"waiting", "failed"} /\ due' = due /\ frame' = frame
        BY <3>5 DEF SelectEvents, Publish, Attach, Succeed
      <4> QED BY <1>4, <3>1, <4>1 DEF BegunBy
    <3>6. CASE CommitEvents(a)
      <4>1. /\ at[a] = "saving" /\ frame' = frame
            /\ due'[a] = {d \in due[a] : d[1] \notin Written(a)}
        BY <1>1, <3>6 DEF CommitEvents, EventsTypeOK
      <4>2. CASE v \in Written(a)
        <5>1. /\ meta'[v] = Merge(meta[v], Kind[v], TypeDue(a, v), frame[a])
              /\ TypeDue(a, v) \in TransitionTypes
          BY <1>1, <3>6, <4>1, <4>2, CommitRecords, WhatIsWritten
        <5>2. Exists(v)'
          BY <5>1 DEF Merge, StatusAfter, Exists
        <5> QED BY <5>2 DEF BegunBy
      <4>3. CASE v \notin Written(a)
        <5>1. <<v, "started">> \in due[a] <=> <<v, "started">> \in due'[a]
          BY <4>1, <4>3
        <5> QED BY <1>4, <3>1, <4>1, <5>1 DEF BegunBy
      <4> QED BY <4>2, <4>3
    <3>7. CASE Fail(a)
      BY <1>1, <3>7 DEF Fail, Move, BegunBy, EventsTypeOK
    <3> QED BY <1>7, <3>2, <3>3, <3>4, <3>5, <3>6, <3>7 DEF Attempt
  <2> QED BY <1>5, <2>1, <2>2
<1>8. ASSUME NEW a \in Attempts, Attempt(a) PROVE Events' /\ Read' /\ Stays
  <2>1. reading' = reading
    BY <1>8 DEF Attempt, Begin, Analyse, Finish, SelectEvents, CommitEvents, Publish, Attach, Succeed, Fail
  <2>2. CASE CommitEvents(a)
    <3>1. (\A v \in Violations : InOrder(v, meta'[v])) /\ Stays
      BY <2>2, CommitOrder
    <3>2. Events'
      BY <3>1 DEF Events, InOrder, Ends, Unrepeated
    <3> QED BY <1>3, <2>1, <3>1, <3>2
  <2>3. CASE meta' = meta
    BY <1>2, <1>3, <2>1, <2>3
  <2> QED BY <1>8, <2>2, <2>3
       DEF Attempt, Begin, Analyse, Finish, SelectEvents, Publish, Attach, Succeed, Fail, eventVars
<1>9. ASSUME NEW r \in Reviewers, Review(r) PROVE Begun' /\ Events' /\ Read'
  <2>1. UNCHANGED attemptVars
    BY <1>9 DEF Review, ReadEvent, WriteReview
  <2>2. Begun'
    BY <1>1, <1>4, <2>1 DEF Begun, BegunBy, attemptVars
  <2>3. ASSUME NEW v \in Violations, ReadEvent(r, v) PROVE Events' /\ Read'
    <3>1. /\ meta' = meta
          /\ reading' = [reading EXCEPT ![r] = [of |-> {v}, meta |-> meta[v], verdict |-> verdict[v]]]
      BY <2>3 DEF ReadEvent, eventVars
    <3>2. \A s \in Reviewers : \A w \in reading'[s].of : InOrder(w, reading'[s].meta)
      BY <1>1, <3>1 DEF Events, Read, EventsTypeOK
    <3>3. Read'
      BY <3>2 DEF Read, InOrder, Ends, Unrepeated
    <3> QED BY <1>2, <3>1, <3>3
  <2>4. ASSUME NEW v \in Violations, NEW decision \in Verdicts, WriteReview(r, v, decision)
        PROVE  Events' /\ Read'
    <3>1. /\ v \in reading[r].of
          /\ meta' = [meta EXCEPT ![v] = [reading[r].meta EXCEPT !.review = decision]]
          /\ reading' = [reading EXCEPT ![r] = NoReading]
      BY <2>4 DEF WriteReview
    <3>2. InOrder(v, reading[r].meta) /\ reading[r].meta \in Metadata
      BY <1>1, <3>1 DEF Read, EventsTypeOK
    <3>3. /\ meta'[v].status = reading[r].meta.status
          /\ meta'[v].history = reading[r].meta.history
      BY <1>1, <3>1, <3>2 DEF EventsTypeOK, Metadata
    <3>4. InOrder(v, meta'[v])
      BY <3>2, <3>3 DEF InOrder
    <3>5. \A w \in Violations \ {v} : meta'[w] = meta[w]
      BY <1>1, <3>1 DEF EventsTypeOK
    <3>6. \A w \in Violations : InOrder(w, meta'[w])
      BY <1>1, <3>4, <3>5 DEF Events
    <3>7. \A s \in Reviewers : \A w \in reading'[s].of : InOrder(w, reading'[s].meta)
      BY <1>1, <3>1 DEF Read, NoReading, EventsTypeOK
    <3> QED BY <3>6, <3>7 DEF Events, Read, InOrder, Ends, Unrepeated
  <2> QED BY <1>9, <2>2, <2>3, <2>4 DEF Review
<1>10. ASSUME UNCHANGED allVars PROVE Begun' /\ Events' /\ Read'
  <2>1. Begun'
    BY <1>1, <1>10 DEF Begun, BegunBy, Exists, allVars, eventVars, attemptVars
  <2> QED BY <1>2, <1>3, <1>10, <2>1 DEF allVars, eventVars
<1>11. Begun' /\ Events' /\ Read'
  BY <1>7, <1>8, <1>9, <1>10 DEF EventsNext
<1> QED BY <1>1, <1>8, <1>11 DEF OrderInv, Events, Read

\* The metadata of every event are in order, in every state.
LEMMA OrderInvHolds == EventsSpec => []OrderInv
<1>1. EventsInit => OrderInv
  <2> SUFFICES ASSUME EventsInit PROVE OrderInv
    OBVIOUS
  <2>1. AttemptInv
    BY EventsAssumption, AttemptStart
  <2>2. Begun
    BY DEF EventsInit, Begun, BegunBy
  <2>3. \A v \in Violations : InOrder(v, meta[v])
    BY DEF EventsInit, NoEvent, InOrder
  <2>4. \A r \in Reviewers : \A v \in reading[r].of : InOrder(v, reading[r].meta)
    BY DEF EventsInit, NoReading
  <2> QED BY <2>1, <2>2, <2>3, <2>4 DEF OrderInv
<1>2. OrderInv /\ [EventsNext]_allVars => OrderInv'
  BY OrderStep
<1> QED BY <1>1, <1>2, PTL DEF EventsSpec

\* However often a job is replayed, by attempts that overlap and while reviewers
\* write old metadata back, the history of an event begins with its start, has
\* every transition once, and an ended event has an end.
THEOREM HistoriesInOrder == EventsSpec => []HistoryInOrder
<1>1. OrderInv => HistoryInOrder
  BY DEF OrderInv, InOrder, HistoryInOrder, Exists, Unrepeated
<1> QED BY <1>1, OrderInvHolds, PTL

\* No step of an attempt reopens an event that has ended, except one of a lane
\* violation, whatever reviewers do.
THEOREM AttemptsNeverReopen ==
    EventsSpec => [][(\E a \in Attempts : Attempt(a)) =>
                        \A v \in Violations : Kind[v] # "lane_violation" /\ meta[v].status = "ended"
                                                  => meta'[v].status = "ended"]_allVars
<1>1. OrderInv /\ [EventsNext]_allVars =>
          [(\E a \in Attempts : Attempt(a)) =>
              \A v \in Violations : Kind[v] # "lane_violation" /\ meta[v].status = "ended"
                                        => meta'[v].status = "ended"]_allVars
  BY OrderStep
<1> QED BY <1>1, OrderInvHolds, PTL DEF EventsSpec

\* So that no event but one of a lane violation is reopened when nobody reviews.
THEOREM EndedEventsStay == ASSUME Reviewers = {} PROVE EventsSpec => EndedStaysEnded
<1>1. OrderInv /\ [EventsNext]_allVars =>
          [\A v \in Violations : Kind[v] # "lane_violation" /\ meta[v].status = "ended"
                                     => meta'[v].status = "ended"]_allVars
  BY OrderStep DEF EventsNext
<1> QED BY <1>1, OrderInvHolds, PTL DEF EventsSpec, EndedStaysEnded

LEMMA HistoryStep ==
    ASSUME Reviewers = {}, HistoryInv, [EventsNext]_allVars
    PROVE  HistoryInv'
<1> DEFINE Kept == Replayed'
<1>1. AttemptInv /\ EventsTypeOK /\ AttemptsFit /\ AttemptInv' /\ Replayed
  BY EventsAssumption, AttemptStep DEF HistoryInv, AttemptInv
<1>3. ASSUME meta' = meta,
             NEW a \in Attempts,
             \A b \in Attempts \ {a} : /\ at'[b] = at[b] /\ due'[b] = due[b]
                                       /\ frame'[b] = frame[b] /\ flushed'[b] = flushed[b],
             \A v \in Violations : ReplayedBy(a, v)'
      PROVE  Kept
  <2>1. \A b \in Attempts \ {a}, v \in Violations : ReplayedBy(b, v)'
    BY <1>1, <1>3 DEF Replayed, ReplayedBy, OnRecord
  <2> QED BY <1>3, <2>1 DEF Replayed
<1>4. \A v \in Violations, a \in Attempts : StartFrame[v] \in Nat \ {0} /\ EndFrame[v] \in Nat \ {0} /\ frame[a] \in Nat
  BY <1>1, EventsAssumption DEF EventsTypeOK, EventsAssumption
<1>5. ASSUME NEW a \in Attempts, Begin(a) PROVE Kept
  <2>1. frame'[a] = 0 /\ flushed'[a] = FALSE
    BY <1>1, <1>5 DEF Begin, AttemptsFit, EventsTypeOK
  <2>2. \A v \in Violations : ReplayedBy(a, v)'
    BY <1>4, <2>1 DEF ReplayedBy
  <2> QED BY <1>1, <1>3, <1>5, <2>2 DEF Begin, Move, eventVars, EventsTypeOK
<1>6. ASSUME NEW a \in Attempts, Analyse(a) PROVE Kept
  <2>1. /\ at[a] = "decoding" /\ due[a] = {} /\ flushed'[a] = FALSE
        /\ frame'[a] = frame[a] + 1 /\ due'[a] = Emitted(frame[a] + 1)
        /\ meta' = meta
    BY <1>1, <1>6 DEF Analyse, AttemptsFit, EventsTypeOK, eventVars
  <2>2. ASSUME NEW v \in Violations PROVE ReplayedBy(a, v)'
    <3>1. ReplayedBy(a, v)
      BY <1>1 DEF Replayed
    <3>2. StartFrame[v] = frame[a] + 1 => <<v, "started">> \in due'[a]
      BY <2>1 DEF Emitted
    <3>3. Ends(v) /\ EndFrame[v] = frame[a] + 1 => <<v, "ended">> \in due'[a]
      BY <2>1 DEF Emitted
    <3>4. /\ StartFrame[v] <= frame'[a] => StartFrame[v] <= frame[a] \/ StartFrame[v] = frame[a] + 1
          /\ EndFrame[v] <= frame'[a] => EndFrame[v] <= frame[a] \/ EndFrame[v] = frame[a] + 1
      BY <1>4, <2>1
    <3> QED BY <2>1, <3>1, <3>2, <3>3, <3>4 DEF ReplayedBy, OnRecord
  <2> QED BY <1>1, <1>3, <1>6, <2>1, <2>2 DEF Analyse, Move, eventVars, EventsTypeOK
<1>7. ASSUME NEW a \in Attempts, Finish(a) PROVE Kept
  <2>1. /\ at[a] = "decoding" /\ due[a] = {} /\ frame'[a] = frame[a]
        /\ due'[a] = Flushed(frame[a]) /\ meta' = meta
    BY <1>1, <1>7 DEF Finish, AttemptsFit, EventsTypeOK, eventVars
  <2>2. ASSUME NEW v \in Violations PROVE ReplayedBy(a, v)'
    <3>1. ReplayedBy(a, v)
      BY <1>1 DEF Replayed
    <3>2. Ends(v) /\ StartFrame[v] <= frame[a] /\ frame[a] < EndFrame[v] => <<v, "ended">> \in due'[a]
      BY <2>1 DEF Flushed
    <3> QED BY <2>1, <3>1, <3>2 DEF ReplayedBy, OnRecord
  <2> QED BY <1>1, <1>3, <1>7, <2>1, <2>2 DEF Finish, Move, eventVars, EventsTypeOK
<1>8. ASSUME NEW a \in Attempts, SelectEvents(a) \/ Publish(a) \/ Attach(a) \/ Succeed(a) PROVE Kept
  <2>1. /\ at[a] \notin {"waiting", "failed"} /\ meta' = meta
        /\ due' = due /\ frame' = frame /\ flushed' = flushed
        /\ \A b \in Attempts \ {a} : at'[b] = at[b]
    BY <1>1, <1>8 DEF SelectEvents, Publish, Attach, Succeed, Move, eventVars, EventsTypeOK
  <2>2. \A v \in Violations : ReplayedBy(a, v)'
    BY <1>1, <2>1 DEF Replayed, ReplayedBy, OnRecord
  <2> QED BY <1>3, <2>1, <2>2
<1>9. ASSUME NEW a \in Attempts, CommitEvents(a) PROVE Kept
  BY <1>1, <1>9, CommitReplayed
<1>10. ASSUME NEW a \in Attempts, Fail(a) PROVE Kept
  <2>1. \A v \in Violations : ReplayedBy(a, v)'
    BY <1>1, <1>10 DEF Fail, Move, ReplayedBy, EventsTypeOK
  <2> QED BY <1>1, <1>3, <1>10, <2>1 DEF Fail, Move, eventVars, EventsTypeOK
<1>11. ASSUME UNCHANGED allVars PROVE Kept
  BY <1>1, <1>11 DEF allVars, eventVars, attemptVars, Replayed, ReplayedBy, OnRecord
<1>12. Kept
  <2> HIDE DEF Kept
  <2> QED BY <1>5, <1>6, <1>7, <1>8, <1>9, <1>10, <1>11 DEF EventsNext, Attempt
<1> QED BY <1>1, <1>12 DEF HistoryInv

LEMMA HistoryStart == EventsInit => HistoryInv
<1>1. ASSUME EventsInit PROVE Replayed
  BY <1>1 DEF EventsInit, Replayed, ReplayedBy
<1> QED BY <1>1, EventsAssumption, AttemptStart DEF HistoryInv

-------------------------------------------------------------------------------
(* Completeness *)

\* An end that is put on record is the last frame of its event.
LEMMA CommitEnds ==
    ASSUME AttemptInv, EndOnRecord, WholeVideo, NEW a \in Attempts, CommitEvents(a)
    PROVE  EndOnRecord'
<1>1. at[a] = "saving" /\ frame[a] \in 1..VideoFrames /\ VideoFrames \in Nat
  BY EventsAssumption DEF CommitEvents, AttemptInv, EventsTypeOK, AttemptsFit, EventsAssumption
<1>2. ASSUME NEW v \in Violations, OnRecord(v, "ended", LastFrame(v))' PROVE meta'[v].end = LastFrame(v)
  <2>1. OnRecord(v, "ended", LastFrame(v)) => meta[v].end = LastFrame(v)
    BY DEF EndOnRecord
  <2>2. CASE v \notin Written(a)
    BY <1>2, <2>1, <2>2, CommitRecords DEF OnRecord, LastFrame
  <2>3. CASE v \in Written(a)
    <3> DEFINE t == TypeDue(a, v)
               h == meta[v].history
               e == <<t, frame[a]>>
               S == TransitionTypes \X (1..VideoFrames)
    <3>1. /\ h \in Seq(S) /\ e \in S
          /\ meta'[v].history = Record(h, e)
          /\ meta'[v] = Merge(meta[v], Kind[v], t, frame[a])
      BY <2>3, CommitRecords
    <3>2. meta'[v].end = IF t = "ended" THEN frame[a] ELSE meta[v].end
      BY <3>1 DEF Merge
    <3>3. t = "ended" => frame[a] = LastFrame(v)
      <4>1. t = "ended" => /\ ~flushed[a] => EndFrame[v] = frame[a]
                           /\ flushed[a] => frame[a] < EndFrame[v]
        BY <1>1, <2>3, WhatIsWritten
      <4>2. EndFrame[v] \in Nat
        BY EventsAssumption DEF EventsAssumption
      <4>3. CASE flushed[a]
        <5>1. frame[a] = VideoFrames
          BY <4>3 DEF WholeVideo
        <5>2. t = "ended" => VideoFrames < EndFrame[v]
          BY <4>1, <4>3, <5>1
        <5>3. VideoFrames < EndFrame[v] => LastFrame(v) = VideoFrames
          BY <1>1, <4>2 DEF LastFrame
        <5> QED BY <5>1, <5>2, <5>3
      <4>4. CASE ~flushed[a]
        BY <1>1, <4>1, <4>4 DEF LastFrame
      <4> QED BY <4>3, <4>4
    <3>4. t = "started" => OnRecord(v, "ended", LastFrame(v))
      <4>1. Recorded(Record(h, e), <<"ended", LastFrame(v)>>)
        BY <1>2, <3>1 DEF OnRecord, LastFrame
      <4> DEFINE x == <<"ended", LastFrame(v)>>
      <4>2. t = "started" => x # e
        OBVIOUS
      <4> HIDE DEF h, e, S, x
      <4>3. Recorded(h, x) \/ x = e
        <5>1. Recorded(Record(h, e), x)
          BY <4>1 DEF x
        <5> QED BY <3>1, <5>1, RecordFacts
      <4> QED BY <4>2, <4>3 DEF OnRecord, h, x
    <3>5. t \in {"started", "ended"}
      BY DEF TypeDue
    <3> QED BY <2>1, <3>2, <3>3, <3>4, <3>5
  <2> QED BY <2>2, <2>3
<1> QED BY <1>2 DEF EndOnRecord, LastFrame

LEMMA CompleteStep ==
    ASSUME Reviewers = {}, ~Stoppable, CompleteInv, [EventsNext]_allVars PROVE CompleteInv'
<1>1. AttemptInv /\ EventsTypeOK /\ AttemptsFit /\ EndOnRecord /\ WholeVideo /\ HistoryInv /\ HistoryInv'
  BY HistoryStep DEF CompleteInv, HistoryInv, AttemptInv
<1>2. ASSUME NEW a \in Attempts, CommitEvents(a) PROVE EndOnRecord' /\ WholeVideo'
  BY <1>1, <1>2, CommitEnds DEF CommitEvents, WholeVideo
<1>3. ASSUME NEW a \in Attempts, Finish(a) PROVE EndOnRecord' /\ WholeVideo'
  <2>1. frame[a] = VideoFrames /\ frame' = frame /\ flushed' = [flushed EXCEPT ![a] = TRUE] /\ meta' = meta
    BY <1>3 DEF Finish, eventVars
  <2> QED BY <1>1, <2>1 DEF EndOnRecord, OnRecord, LastFrame, WholeVideo, EventsTypeOK
<1>4. ASSUME NEW a \in Attempts, Analyse(a) PROVE EndOnRecord' /\ WholeVideo'
  <2>1. ~flushed[a] /\ flushed' = flushed /\ meta' = meta /\ \A b \in Attempts \ {a} : frame'[b] = frame[b]
    BY <1>1, <1>4 DEF Analyse, AttemptsFit, EventsTypeOK, eventVars
  <2> QED BY <1>1, <2>1 DEF EndOnRecord, OnRecord, LastFrame, WholeVideo
<1>5. ASSUME meta' = meta /\ frame' = frame /\ flushed' = flushed PROVE EndOnRecord' /\ WholeVideo'
  BY <1>1, <1>5 DEF EndOnRecord, OnRecord, LastFrame, WholeVideo
<1>6. ASSUME NEW a \in Attempts,
             Begin(a) \/ SelectEvents(a) \/ Publish(a) \/ Attach(a) \/ Succeed(a) \/ Fail(a)
      PROVE  EndOnRecord' /\ WholeVideo'
  BY <1>5, <1>6 DEF Begin, SelectEvents, Publish, Attach, Succeed, Fail, eventVars
<1>7. EndOnRecord' /\ WholeVideo'
  BY <1>2, <1>3, <1>4, <1>5, <1>6 DEF EventsNext, Attempt, allVars, eventVars, attemptVars
<1> QED BY <1>1, <1>7 DEF CompleteInv

\* When attempts follow each other, they may stop anywhere: the end on record is
\* that of the last of them.
LEMMA LastEndStep ==
    ASSUME Reviewers = {}, ~Overlap, ImageInv, EndIsLast, [EventsNext]_allVars PROVE EndIsLast'
<1>1. AttemptInv /\ EventsTypeOK /\ AttemptsFit /\ EndIsLast
  BY DEF ImageInv, AttemptInv
<1>2. \A a, b \in Attempts : a # b /\ at[a] \notin {"waiting", "failed"} => at[b] \in {"waiting", "failed"}
  <2>1. \A a, b \in Attempts : b < a /\ at[a] # "waiting" => at[b] = "failed"
    BY DEF ImageInv, ImagesPublished
  <2>2. Attempts \subseteq Nat
    BY EventsAssumption DEF Attempts, EventsAssumption
  <2>3. \A a, b \in Attempts : a # b => a < b \/ b < a
    BY <2>2
  <2> QED BY <2>1, <2>3
<1>3. \A v \in Violations, a \in Attempts :
          /\ StartFrame[v] \in Nat \ {0} /\ EndFrame[v] \in Nat \ {0} /\ frame[a] \in Nat
          /\ StartFrame[v] < EndFrame[v]
  BY <1>1, EventsAssumption DEF EventsTypeOK, EventsAssumption
<1>4. ASSUME meta' = meta,
             NEW a \in Attempts,
             \A b \in Attempts \ {a} : /\ at'[b] = at[b] /\ due'[b] = due[b]
                                       /\ frame'[b] = frame[b] /\ flushed'[b] = flushed[b],
             \A v \in Violations : EndedBy(a, v)'
      PROVE  EndIsLast'
  <2>1. \A b \in Attempts \ {a}, v \in Violations : EndedBy(b, v)'
    BY <1>1, <1>4 DEF EndIsLast, EndedBy
  <2> QED BY <1>4, <2>1 DEF EndIsLast
<1>5. ASSUME NEW a \in Attempts, Begin(a) PROVE EndIsLast'
  <2>1. frame'[a] = 0 /\ flushed'[a] = FALSE
    BY <1>1, <1>5 DEF Begin, AttemptsFit, EventsTypeOK
  <2>2. \A v \in Violations : EndedBy(a, v)'
    BY <1>3, <2>1 DEF EndedBy
  <2> QED BY <1>1, <1>4, <1>5, <2>2 DEF Begin, Move, eventVars, EventsTypeOK
<1>6. ASSUME NEW a \in Attempts, Analyse(a) PROVE EndIsLast'
  <2>1. /\ at[a] = "decoding" /\ due[a] = {} /\ flushed'[a] = FALSE
        /\ frame'[a] = frame[a] + 1 /\ due'[a] = Emitted(frame[a] + 1)
        /\ meta' = meta
    BY <1>1, <1>6 DEF Analyse, AttemptsFit, EventsTypeOK, eventVars
  <2>2. ASSUME NEW v \in Violations PROVE EndedBy(a, v)'
    <3>1. EndedBy(a, v)
      BY <1>1 DEF EndIsLast
    <3>2. Ends(v) /\ EndFrame[v] = frame[a] + 1 => <<v, "ended">> \in due'[a]
      BY <2>1 DEF Emitted
    <3>3. EndFrame[v] <= frame'[a] => EndFrame[v] <= frame[a] \/ EndFrame[v] = frame[a] + 1
      BY <1>3, <2>1
    <3> QED BY <2>1, <3>1, <3>2, <3>3 DEF EndedBy
  <2> QED BY <1>1, <1>4, <1>6, <2>1, <2>2 DEF Analyse, Move, eventVars, EventsTypeOK
<1>7. ASSUME NEW a \in Attempts, Finish(a) PROVE EndIsLast'
  <2>1. /\ at[a] = "decoding" /\ due[a] = {} /\ frame'[a] = frame[a]
        /\ due'[a] = Flushed(frame[a]) /\ meta' = meta
    BY <1>1, <1>7 DEF Finish, AttemptsFit, EventsTypeOK, eventVars
  <2>2. ASSUME NEW v \in Violations PROVE EndedBy(a, v)'
    <3>1. EndedBy(a, v)
      BY <1>1 DEF EndIsLast
    <3>2. Ends(v) /\ StartFrame[v] <= frame[a] /\ frame[a] < EndFrame[v] => <<v, "ended">> \in due'[a]
      BY <2>1 DEF Flushed
    <3> QED BY <2>1, <3>1, <3>2 DEF EndedBy
  <2> QED BY <1>1, <1>4, <1>7, <2>1, <2>2 DEF Finish, Move, eventVars, EventsTypeOK
<1>8. ASSUME NEW a \in Attempts, SelectEvents(a) \/ Publish(a) \/ Attach(a) \/ Succeed(a) PROVE EndIsLast'
  <2>1. /\ at[a] \notin {"waiting", "failed"} /\ meta' = meta
        /\ due' = due /\ frame' = frame /\ flushed' = flushed
        /\ \A b \in Attempts \ {a} : at'[b] = at[b]
    BY <1>1, <1>8 DEF SelectEvents, Publish, Attach, Succeed, Move, eventVars, EventsTypeOK
  <2>2. \A v \in Violations : EndedBy(a, v)'
    BY <1>1, <2>1 DEF EndIsLast, EndedBy
  <2> QED BY <1>4, <2>1, <2>2
<1>9. ASSUME NEW a \in Attempts, CommitEvents(a) PROVE EndIsLast'
  <2>1. /\ at[a] = "saving" /\ frame' = frame /\ flushed' = flushed
        /\ due'[a] = {d \in due[a] : d[1] \notin Written(a)}
        /\ \A b \in Attempts \ {a} : at'[b] = at[b]
    BY <1>1, <1>9 DEF CommitEvents, Move, EventsTypeOK
  <2>2. ASSUME NEW v \in Violations PROVE EndedBy(a, v)'
    <3>1. EndedBy(a, v)
      BY <1>1 DEF EndIsLast
    <3>2. CASE v \notin Written(a)
      <4>1. meta'[v] = meta[v]
        BY <1>1, <1>9, <3>2, CommitRecords
      <4>2. <<v, "ended">> \in due[a] <=> <<v, "ended">> \in due'[a]
        BY <2>1, <3>2
      <4> QED BY <2>1, <3>1, <4>1, <4>2 DEF EndedBy
    <3>3. CASE v \in Written(a)
      <4>1. meta'[v] = Merge(meta[v], Kind[v], TypeDue(a, v), frame[a])
        BY <1>1, <1>9, <3>3, CommitRecords
      <4>2. /\ TypeDue(a, v) = "started" => ~flushed[a] /\ StartFrame[v] = frame[a]
            /\ TypeDue(a, v) = "ended" => /\ ~flushed[a] => EndFrame[v] = frame[a]
                                          /\ flushed[a] => frame[a] < EndFrame[v]
            /\ TypeDue(a, v) \in {"started", "ended"}
        BY <1>1, <2>1, <3>3, WhatIsWritten DEF TransitionTypes
      <4>3. CASE TypeDue(a, v) = "started"
        <5>1. ~(EndFrame[v] <= frame[a]) /\ ~flushed'[a]
          BY <1>3, <2>1, <4>2, <4>3
        <5> QED BY <2>1, <5>1 DEF EndedBy
      <4>4. CASE TypeDue(a, v) = "ended"
        <5>1. meta'[v].end = frame[a]
          BY <4>1, <4>4 DEF Merge
        <5>2. EndFrame[v] <= frame[a] => EndFrame[v] = frame[a]
          <6>1. frame[a] \in Nat /\ EndFrame[v] \in Nat
            BY <1>3
          <6>2. CASE flushed[a]
            BY <4>2, <4>4, <6>1, <6>2
          <6>3. CASE ~flushed[a]
            BY <4>2, <4>4, <6>3
          <6> QED BY <6>2, <6>3
        <5> QED BY <2>1, <5>1, <5>2 DEF EndedBy
      <4> QED BY <4>2, <4>3, <4>4
    <3> QED BY <3>2, <3>3
  <2>3. \A b \in Attempts \ {a}, v \in Violations : EndedBy(b, v)'
    BY <1>2, <2>1 DEF EndedBy
  <2> QED BY <2>2, <2>3 DEF EndIsLast
<1>10. ASSUME NEW a \in Attempts, Fail(a) PROVE EndIsLast'
  <2>1. \A v \in Violations : EndedBy(a, v)'
    BY <1>1, <1>10 DEF Fail, Move, EndedBy, EventsTypeOK
  <2> QED BY <1>1, <1>4, <1>10, <2>1 DEF Fail, Move, eventVars, EventsTypeOK
<1>11. CASE UNCHANGED allVars
  BY <1>1, <1>11 DEF allVars, eventVars, attemptVars, EndIsLast, EndedBy
<1> QED BY <1>5, <1>6, <1>7, <1>8, <1>9, <1>10, <1>11 DEF EventsNext, Attempt

\* A success has replayed every transition of the video.
LEMMA SuccessReplayed ==
    ASSUME HistoryInv, NEW a \in Attempts, at[a] = "done", frame[a] = VideoFrames, NEW v \in Violations
    PROVE  /\ flushed[a] = TRUE /\ due[a] = {}
           /\ StartFrame[v] <= frame[a] /\ EndFrame[v] \in Nat /\ frame[a] \in Nat
           /\ OnRecord(v, "started", StartFrame[v])
           /\ Ends(v) => OnRecord(v, "ended", LastFrame(v))
<1>1. ReplayedBy(a, v) /\ due[a] = {} /\ flushed[a] = TRUE
  BY DEF HistoryInv, AttemptInv, EventsTypeOK, AttemptsFit, Replayed
<1>2. StartFrame[v] <= frame[a] /\ EndFrame[v] \in Nat /\ frame[a] \in Nat
  BY EventsAssumption DEF EventsAssumption
<1>3. OnRecord(v, "started", StartFrame[v])
  BY <1>1, <1>2 DEF ReplayedBy
<1>4. Ends(v) => OnRecord(v, "ended", LastFrame(v))
  <2>1. CASE EndFrame[v] <= frame[a]
    BY <1>1, <2>1 DEF ReplayedBy, LastFrame
  <2>2. CASE ~(EndFrame[v] <= frame[a])
    <3>1. frame[a] < EndFrame[v] /\ LastFrame(v) = frame[a]
      BY <1>2, <2>2 DEF LastFrame
    <3> QED BY <1>1, <1>2, <3>1 DEF ReplayedBy
  <2> QED BY <2>1, <2>2
<1> QED BY <1>1, <1>2, <1>3, <1>4

\* When an attempt that decoded the whole video has succeeded, every violation of
\* the video has its start and its end on record, and that end is the one of the
\* event: as long as nobody reviews meanwhile, and unless attempts both overlap
\* and stop in the middle, when the end of the earlier one may be written last.
THEOREM SuccessesComplete ==
    ASSUME Reviewers = {}, ~Stoppable \/ ~Overlap PROVE EventsSpec => []SucceededComplete
<1>1. EventsInit => HistoryInv
  BY HistoryStart
<1>2. HistoryInv /\ [EventsNext]_allVars => HistoryInv'
  BY HistoryStep
<1>3. CASE ~Stoppable
  <2>1. EventsInit => CompleteInv
    BY HistoryStart DEF EventsInit, CompleteInv, EndOnRecord, OnRecord, Recorded, WholeVideo, NoEvent
  <2>2. CompleteInv /\ [EventsNext]_allVars => CompleteInv'
    BY <1>3, CompleteStep
  <2>3. CompleteInv => SucceededComplete
    BY SuccessReplayed DEF CompleteInv, EndOnRecord, SucceededComplete, OnRecord
  <2> QED BY <2>1, <2>2, <2>3, PTL DEF EventsSpec
<1>4. CASE ~Overlap
  <2>1. EventsInit => ImageInv /\ EndIsLast
    BY EventsAssumption, AttemptStart DEF EventsInit, ImageInv, ImagesPublished, EndIsLast, EndedBy
  <2>2. ImageInv /\ [EventsNext]_allVars => ImageInv'
    BY <1>4, ImageStep
  <2>3. ImageInv /\ EndIsLast /\ [EventsNext]_allVars => EndIsLast'
    BY <1>4, LastEndStep
  <2>4. HistoryInv /\ EndIsLast => SucceededComplete
    <3> SUFFICES ASSUME HistoryInv, EndIsLast, NEW a \in Attempts, at[a] = "done", frame[a] = VideoFrames,
                        NEW v \in Violations
                 PROVE  /\ OnRecord(v, "started", StartFrame[v])
                        /\ Ends(v) => /\ OnRecord(v, "ended", LastFrame(v))
                                      /\ meta[v].end = LastFrame(v)
      BY DEF SucceededComplete, OnRecord
    <3>1. /\ flushed[a] = TRUE /\ due[a] = {}
          /\ StartFrame[v] <= frame[a] /\ EndFrame[v] \in Nat /\ frame[a] \in Nat
          /\ OnRecord(v, "started", StartFrame[v])
          /\ Ends(v) => OnRecord(v, "ended", LastFrame(v))
      BY SuccessReplayed
    <3>2. Ends(v) => /\ EndFrame[v] <= frame[a] => meta[v].end = EndFrame[v]
                     /\ frame[a] < EndFrame[v] => meta[v].end = frame[a]
      BY <3>1 DEF EndIsLast, EndedBy
    <3>3. Ends(v) => meta[v].end = LastFrame(v)
      <4>1. CASE EndFrame[v] <= frame[a]
        BY <3>2, <4>1 DEF LastFrame
      <4>2. CASE frame[a] < EndFrame[v]
        BY <3>1, <3>2, <4>2 DEF LastFrame
      <4> QED BY <3>1, <4>1, <4>2
    <3> QED BY <3>1, <3>3
  <2> QED BY <1>1, <1>2, <2>1, <2>2, <2>3, <2>4, PTL DEF EventsSpec
<1> QED BY <1>3, <1>4

===============================================================================
