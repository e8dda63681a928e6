--------------------- MODULE ReplicationBindings_proofs ---------------------
(***************************************************************************)
(* Proofs about Replication over either binding, the in-memory queue or    *)
(* DDS, for any finite set of vehicles: types, the order of the samples,   *)
(* and that late joiners end up with the dimensions of the current fleet.  *)
(***************************************************************************)
EXTENDS Replication_proofs, WellFoundedInduction

-----------------------------------------------------------------------------
(* Greatest elements.                                                      *)

LEMMA LeastNatural ==
  ASSUME NEW S \in SUBSET Nat, S # {}
  PROVE  \E n \in S : \A m \in S : n <= m
<1> DEFINE Less == {ss \in Nat \X Nat : ss[1] < ss[2]}
<1>1. IsWellFoundedOn(Less, Nat)
  BY NatLessThanWellFounded DEF OpToRel
<1>2. \A m, n \in Nat : <<m, n>> \in Less <=> m < n
  OBVIOUS
<1> HIDE DEF Less
<1>3. PICK n \in S : \A m \in S : ~(<<m, n>> \in Less)
  BY <1>1, WFMin
<1>4. \A m \in S : m \in Nat /\ n \in Nat /\ ~(m < n)
  BY <1>2, <1>3
<1>5. \A m \in S : n <= m
  BY <1>4
<1> QED BY <1>3, <1>5

\* The last of some positions of a sequence is one of them.
LEMMA LastPosition ==
  ASSUME NEW n \in Nat, NEW S \in SUBSET (1..n), S # {}
  PROVE  Max(S) \in S
<1> DEFINE T == {m \in Nat : n - m \in S}
<1>1. T \in SUBSET Nat /\ T # {}
  <2>1. PICK k \in S : TRUE
    OBVIOUS
  <2>2. k \in 1..n
    OBVIOUS
  <2>3. n - k \in Nat /\ n - (n - k) = k
    BY <2>2
  <2> QED BY <2>1, <2>3
<1>2. PICK m \in T : \A l \in T : m <= l
  <2> HIDE DEF T
  <2> QED BY <1>1, LeastNatural
<1>3. n - m \in S
  BY <1>2
<1>4. ASSUME NEW y \in S PROVE n - m >= y
  <2>1. y \in 1..n
    BY <1>4
  <2>2. n - y \in Nat /\ n - (n - y) = y
    BY <2>1
  <2>3. n - y \in T
    BY <2>2, <1>4
  <2>4. m <= n - y /\ m \in Nat
    BY <1>2, <2>3
  <2> QED BY <2>1, <2>4
<1> QED BY <1>3, <1>4 DEF Max

-----------------------------------------------------------------------------
(* Types.                                                                  *)

Records == [spawn : BOOLEAN, handle : Handles]

\* A run uses one of the bindings.
OneBinding == IF setup.dds THEN queue = <<>> ELSE ~pumping /\ unread = {} /\ DOMAIN frames = {}

Shape ==
  /\ setup \in Setups /\ step \in 0..MaxStep
  /\ given \in [Indices -> 0..2]
  /\ queue \in Seq(Entry) /\ \A k \in 1..Len(queue) : queue[k].step <= step
  /\ OneBinding
  /\ life \in [Indices -> {NoLife} \cup Records]
  /\ unread \subseteq Indices
  /\ \A c \in DOMAIN frames : frames[c].movers \subseteq Handles /\ frames[c].step \in 1..step
  /\ pumping \in BOOLEAN /\ dims \subseteq Handles
  /\ DOMAIN history \subseteq Handles
  /\ \A h \in DOMAIN history : history[h] \in Seq(1..step) /\ Len(history[h]) \in 1..HistoryCap

ShapeInv == Published /\ Shape

LEMMA ShapeIsTyped == ShapeInv => TypeOK
<1> SUFFICES ASSUME ShapeInv PROVE TypeOK
  OBVIOUS
<1>1. \A k \in 1..Len(queue) : queue[k].movers \subseteq Handles /\ queue[k].step \in 0..step
  <2> TAKE k \in 1..Len(queue)
  <2>1. queue[k] \in Entry /\ queue[k].step <= step /\ step \in Nat
    BY DEF ShapeInv, Shape
  <2> QED BY <2>1 DEF Entry
<1>2. \A i \in Indices : life[i] = NoLife \/ life[i].handle \in Handles
  <2> TAKE i \in Indices
  <2>1. life[i] = NoLife \/ life[i] \in Records
    BY DEF ShapeInv, Shape
  <2> QED BY <2>1 DEF Records
<1> QED BY <1>1, <1>2 DEF ShapeInv, Published, Shape, TypeOK

\* The samples of a vehicle stay samples when time goes on.
LEMMA SamplesGrow ==
  ASSUME NEW n \in Nat, NEW s \in Seq(1..n)
  PROVE  s \in Seq(1..n + 1)
<1>1. 1..n \subseteq 1..n + 1
  OBVIOUS
<1> QED BY <1>1

LEMMA AppendedSamples ==
  ASSUME NEW n \in Nat, NEW x \in 1..n, NEW s \in Seq(1..n), Len(s) <= HistoryCap
  PROVE  /\ Appended(s, x) \in Seq(1..n) /\ Len(Appended(s, x)) \in 1..HistoryCap
         /\ \E t \in Seq(1..n) : /\ Appended(s, x) = Append(t, x) 
                                 /\ (t = s \/ (s # <<>> /\ t = Tail(s)))
<1>1. HistoryCap \in Nat \ {0} /\ Len(s) \in Nat
  BY BoundAssumption
<1>2. CASE Len(s) >= HistoryCap
  <2>1. s # <<>>
    BY <1>1, <1>2
  <2>2. Tail(s) \in Seq(1..n) /\ Len(Tail(s)) = Len(s) - 1
    BY <2>1
  <2>3. Appended(s, x) = Append(Tail(s), x)
    BY <1>2 DEF Appended
  <2>4. Append(Tail(s), x) \in Seq(1..n) /\ Len(Append(Tail(s), x)) = Len(s)
    BY <1>1, <2>2
  <2>5. Len(s) \in 1..HistoryCap
    BY <1>1, <1>2
  <2>6. PICK t \in Seq(1..n) : t = Tail(s)
    BY <2>2
  <2> QED BY <2>1, <2>3, <2>4, <2>5, <2>6
<1>3. CASE ~(Len(s) >= HistoryCap)
  <2>1. Appended(s, x) = Append(s, x)
    BY <1>3 DEF Appended
  <2>2. Append(s, x) \in Seq(1..n) /\ Len(Append(s, x)) = Len(s) + 1
    OBVIOUS
  <2> QED BY <1>1, <1>3, <2>1, <2>2
<1> QED BY <1>2, <1>3

\* A frame is recorded.
LEMMA RecordedSamples ==
  ASSUME step \in Nat, NEW f, f.movers \subseteq Handles, f.step \in 1..step, Record(f),
         DOMAIN history \subseteq Handles,
         \A h \in DOMAIN history : history[h] \in Seq(1..step) /\ Len(history[h]) \in 1..HistoryCap
  PROVE  /\ DOMAIN history' \subseteq Handles
         /\ \A h \in DOMAIN history' : history'[h] \in Seq(1..step) /\ Len(history'[h]) \in 1..HistoryCap
<1>0. HistoryCap \in Nat \ {0}
  BY BoundAssumption
<1>1. history' = [h \in DOMAIN history \cup f.movers |->
                    IF h \in f.movers THEN Appended(Samples(h), f.step) ELSE history[h]]
  BY DEF Record
<1>2. \A h : Samples(h) \in Seq(1..step) /\ Len(Samples(h)) <= HistoryCap
  <2> TAKE h
  <2>1. CASE h \in DOMAIN history
    BY <1>0, <2>1 DEF Samples
  <2>2. CASE h \notin DOMAIN history
    <3>1. Samples(h) = <<>>
      BY <2>2 DEF Samples
    <3>2. <<>> \in Seq(1..step) /\ Len(<<>>) = 0
      OBVIOUS
    <3> QED BY <1>0, <3>1, <3>2
  <2> QED BY <2>1, <2>2
<1>3. \A h : /\ Appended(Samples(h), f.step) \in Seq(1..step)
             /\ Len(Appended(Samples(h), f.step)) \in 1..HistoryCap
  BY <1>2, AppendedSamples
<1> QED BY <1>1, <1>3

LEMMA ChunkedMovers ==
  ASSUME NEW sent, IsFiniteSet(sent)
  PROVE  \A c \in DOMAIN Chunks(sent) : Chunks(sent)[c] \subseteq sent
<1>1. SetToSeq(sent) \in [1..Cardinality(sent) -> sent]
  BY Listing
<1>2. Len(SetToSeq(sent)) = Cardinality(sent)
  BY <1>1, Listing, ArrayIsSeq
<1> QED BY <1>1, <1>2 DEF Chunks

\* What a step writes to the topics: of each index one of the records, of the
\* frame the chunks.
LifeWritten(fleet) ==
  /\ life' = [i \in Indices |-> life'[i]] /\ unread' \subseteq unread \cup Indices
  /\ \A i \in Indices :
       \/ /\ life'[i] = life[i] /\ (i \in unread' <=> i \in unread)
          /\ \A h \in Handles : h.index = i => (h \in fleet <=> h \in known)
       \/ /\ i \in unread'
          /\ \E r \in Births(fleet) \cup Tombstones(fleet) : r.handle.index = i /\ life'[i] = r

FramesWritten(sent) ==
  /\ DOMAIN frames' = DOMAIN frames \cup DOMAIN Chunks(sent)
  /\ \A c \in DOMAIN frames' :
       IF c \in DOMAIN Chunks(sent)
       THEN frames'[c].step = step + 1 /\ frames'[c].movers \subseteq sent
       ELSE frames'[c] = frames[c]

LEMMA Written ==
  ASSUME FiniteFleet, known \subseteq Handles, step \in Nat,
         NEW fleet \in SUBSET Handles, NEW sent \in SUBSET fleet, Write(Lifecycle(fleet), sent)
  PROVE  LifeWritten(fleet) /\ FramesWritten(sent) /\ queue' = queue
<1> DEFINE R == Lifecycle(fleet)
           Of(i) == {k \in 1..Len(R) : R[k].handle.index = i}
<1>1. /\ R \in Seq(Births(fleet) \cup Tombstones(fleet))
      /\ \A r \in Births(fleet) \cup Tombstones(fleet) : \E k \in 1..Len(R) : R[k] = r
  BY LifecycleRecords
<1>2. /\ life' = [i \in Indices |-> IF Of(i) = {} THEN life[i] ELSE R[Max(Of(i))]]
      /\ unread' = unread \cup {i \in Indices : Of(i) # {}}
      /\ frames' = [c \in DOMAIN frames \cup DOMAIN Chunks(sent) |->
                      IF c \in DOMAIN Chunks(sent)
                      THEN [step |-> step + 1, movers |-> Chunks(sent)[c]] ELSE frames[c]]
      /\ queue' = queue
  BY DEF Write
<1> HIDE DEF R
<1>3. Len(R) \in Nat /\ \A k \in 1..Len(R) : R[k] \in Births(fleet) \cup Tombstones(fleet)
  BY <1>1
<1>4. ASSUME NEW i \in Indices, Of(i) # {}
      PROVE  \E r \in Births(fleet) \cup Tombstones(fleet) : r.handle.index = i /\ life'[i] = r
  <2>1. Max(Of(i)) \in Of(i)
    BY <1>3, <1>4, LastPosition
  <2>2. life'[i] = R[Max(Of(i))]
    BY <1>2, <1>4
  <2> QED BY <1>3, <2>1, <2>2
<1>5. ASSUME NEW i \in Indices, Of(i) = {}, NEW h \in Handles, h.index = i
      PROVE  h \in fleet <=> h \in known
  <2>1. CASE h \in fleet \ known
    <3>1. Birth(h) \in Births(fleet) /\ Birth(h).handle = h
      BY <2>1 DEF Birth, Births
    <3>2. PICK k \in 1..Len(R) : R[k] = Birth(h)
      BY <1>1, <3>1
    <3>3. k \in Of(i)
      BY <1>5, <3>1, <3>2
    <3> QED BY <1>5, <3>3
  <2>2. CASE h \in known \ fleet
    <3>1. Tombstone(h) \in Tombstones(fleet) /\ Tombstone(h).handle = h
      BY <2>2 DEF Tombstone, Tombstones
    <3>2. PICK k \in 1..Len(R) : R[k] = Tombstone(h)
      BY <1>1, <3>1
    <3>3. k \in Of(i)
      BY <1>5, <3>1, <3>2
    <3> QED BY <1>5, <3>3
  <2> QED BY <2>1, <2>2
<1>6. IsFiniteSet(sent)
  BY FS_Subset DEF FiniteFleet
<1>7. ASSUME NEW c \in DOMAIN frames'
      PROVE  IF c \in DOMAIN Chunks(sent)
             THEN frames'[c].step = step + 1 /\ frames'[c].movers \subseteq sent
             ELSE frames'[c] = frames[c]
  BY <1>2, <1>6, <1>7, ChunkedMovers
<1> HIDE DEF Of
<1>8. ASSUME NEW i \in Indices
      PROVE  \/ /\ life'[i] = life[i] /\ (i \in unread' <=> i \in unread)
                /\ \A h \in Handles : h.index = i => (h \in fleet <=> h \in known)
             \/ /\ i \in unread'
                /\ \E r \in Births(fleet) \cup Tombstones(fleet) : r.handle.index = i /\ life'[i] = r
  <2>1. CASE Of(i) = {}
    BY <1>2, <1>5, <2>1
  <2>2. CASE Of(i) # {}
    BY <1>2, <1>4, <2>2
  <2> QED BY <2>1, <2>2
<1> QED BY <1>2, <1>7, <1>8 DEF LifeWritten, FramesWritten

LEMMA RecordsTyped ==
  ASSUME NEW fleet \in SUBSET Handles, known \subseteq Handles
  PROVE  Births(fleet) \cup Tombstones(fleet) \subseteq Records
<1>1. \A h \in Handles : Birth(h) \in Records /\ Tombstone(h) \in Records
  BY DEF Records, Birth, Tombstone
<1>2. \A r \in Births(fleet) : \E h \in Handles : r = Birth(h)
  BY DEF Births, Birth
<1>3. \A r \in Tombstones(fleet) : \E h \in Handles : r = Tombstone(h)
  BY DEF Tombstones, Tombstone
<1> QED BY <1>1, <1>2, <1>3

\* A step of the publisher, in one formula.
LEMMA PublishedFleet ==
  ASSUME ShapeInv, PublishStep
  PROVE  \E fleet \in SUBSET Handles, sent \in SUBSET Handles :
           /\ fleet \in Fleets /\ sent \subseteq fleet
           /\ IF setup.dds THEN Write(Lifecycle(fleet), sent) ELSE Enqueue(Lifecycle(fleet), sent)
           /\ known' = fleet /\ step' = step + 1 /\ step' \in 0..MaxStep
           /\ given' \in [Indices -> 0..2]
           /\ UNCHANGED <<setup, subscriber>>
           /\ Published'
<1>1. PICK fleet \in Fleets, drifted \in SUBSET known :
        /\ IF setup.dds THEN Write(Lifecycle(fleet), ShouldPublish(fleet, drifted))
                        ELSE Enqueue(Lifecycle(fleet), ShouldPublish(fleet, drifted))
        /\ known' = fleet
        /\ lastSent' = Rebase(fleet, ShouldPublish(fleet, drifted))
        /\ given' = [i \in Indices |->
             IF \E h \in fleet : h.index = i THEN (CHOOSE h \in fleet : h.index = i).gen ELSE given[i]]
  BY DEF PublishStep
<1>2. step < MaxStep /\ step' = step + 1 /\ UNCHANGED <<setup, subscriber>>
  BY DEF PublishStep
<1>3. fleet \in SUBSET Handles /\ step \in Nat /\ MaxStep \in Nat
  BY BoundAssumption DEF Fleets, ShapeInv, Published
<1>4. Published' /\ ShouldPublish(fleet, drifted) \subseteq fleet
  BY <1>1, <1>2, <1>3, PublishedStep DEF ShapeInv
<1>5. given' \in [Indices -> 0..2]
  <2>1. given \in [Indices -> 0..2]
    BY DEF ShapeInv, Shape
  <2>2. \A h \in fleet : h.gen \in 0..2
    BY <1>3 DEF Handles
  <2>3. ASSUME NEW i \in Indices, \E h \in fleet : h.index = i
        PROVE  (CHOOSE h \in fleet : h.index = i) \in fleet
    BY <2>3
  <2> QED BY <1>1, <2>1, <2>2, <2>3
<1> QED BY <1>1, <1>2, <1>3, <1>4, <1>5

LEMMA ShapeInit == Init => ShapeInv
<1> SUFFICES ASSUME Init PROVE ShapeInv
  OBVIOUS
<1>1. Published
  BY DEF Init, Nobody, Published
<1>2. MaxStep \in Nat
  BY BoundAssumption
<1>3. queue = <<>> /\ <<>> \in Seq(Entry) /\ Len(<<>>) = 0
  BY DEF Init
<1>4. step \in 0..MaxStep /\ setup \in Setups /\ unread = {} /\ pumping = FALSE /\ dims = {}
      /\ given = [i \in Indices |-> 0] /\ life = [i \in Indices |-> NoLife]
      /\ DOMAIN frames = {} /\ DOMAIN history = {}
  BY <1>2 DEF Init, Nobody
<1>5. given \in [Indices -> 0..2] /\ life \in [Indices -> {NoLife} \cup Records]
  BY <1>4
<1>6. Shape
  <2>3. OneBinding
    BY <1>3, <1>4 DEF OneBinding
  <2>1. \A k \in 1..Len(queue) : queue[k].step <= step
    BY <1>3
  <2>2. queue \in Seq(Entry) /\ queue = <<>> /\ pumping \in BOOLEAN /\ ~pumping
    BY <1>3, <1>4
  <2> QED BY <1>4, <1>5, <2>1, <2>2, <2>3 DEF Shape
<1> QED BY <1>1, <1>6 DEF ShapeInv

\* Announce takes and adds handles.
LEMMA AnnouncedShape ==
  ASSUME Shape, NEW records, \A r \in records : r = NoLife \/ r \in Records, Announce(records)
  PROVE  /\ dims' \subseteq Handles /\ DOMAIN history' \subseteq Handles
         /\ \A h \in DOMAIN history' : history'[h] \in Seq(1..step) /\ Len(history'[h]) \in 1..HistoryCap
<1> DEFINE gone == {r.handle : r \in {q \in records : ~q.spawn}}
           born == {r.handle : r \in {q \in records : q.spawn}}
<1>1. born \subseteq Handles
  BY DEF Records, NoLife
<1>2. dims' = (dims \ gone) \cup born /\ history' = [h \in DOMAIN history \ gone |-> history[h]]
  <2>1. (DOMAIN history \ gone) \cap DOMAIN history = DOMAIN history \ gone
    OBVIOUS
  <2> QED BY <2>1 DEF Announce, Restrict
<1> HIDE DEF gone, born
<1> QED BY <1>1, <1>2 DEF Shape

LEMMA OneBindingStep == ASSUME OneBinding, [Next]_vars PROVE OneBinding'
<1>1. CASE PublishStep
  <2>1. PICK fleet, sent : IF setup.dds THEN Write(Lifecycle(fleet), sent) ELSE Enqueue(Lifecycle(fleet), sent)
    BY <1>1 DEF PublishStep
  <2>2. UNCHANGED <<setup, pumping>>
    BY <1>1 DEF PublishStep, subscriber
  <2>3. CASE setup.dds
    BY <2>1, <2>2, <2>3 DEF Write, OneBinding
  <2>4. CASE ~setup.dds
    BY <2>1, <2>2, <2>4 DEF Enqueue, OneBinding
  <2> QED BY <2>3, <2>4
<1>2. CASE PumpCore
  BY <1>2 DEF PumpCore, OneBinding
<1>3. CASE PumpLifecycle
  BY <1>3 DEF PumpLifecycle, OneBinding
<1>4. CASE PumpVehicles
  BY <1>4 DEF PumpVehicles, OneBinding
<1>5. CASE LoseFrame
  <2>1. PICK c \in DOMAIN frames : TRUE
    BY <1>5 DEF LoseFrame
  <2>2. UNCHANGED <<setup, queue, unread, pumping>>
    BY <1>5 DEF LoseFrame, subscriber
  <2> QED BY <2>1, <2>2 DEF OneBinding
<1>6. CASE Join
  BY <1>6 DEF Join, OneBinding
<1>7. CASE UNCHANGED vars
  BY <1>7 DEF vars, transport, subscriber, OneBinding
<1> QED BY <1>1, <1>2, <1>3, <1>4, <1>5, <1>6, <1>7 DEF Next

LEMMA ShapeStep == ASSUME FiniteFleet, ShapeInv, [Next]_vars PROVE ShapeInv'
<1>0. step \in Nat /\ known \in SUBSET Handles
  BY DEF ShapeInv, Published
<1>8. OneBinding /\ OneBinding'
  BY OneBindingStep DEF ShapeInv, Shape
<1>1. CASE PublishStep
  <2>1. PICK fleet \in SUBSET Handles, sent \in SUBSET Handles :
           /\ sent \subseteq fleet
           /\ IF setup.dds THEN Write(Lifecycle(fleet), sent) ELSE Enqueue(Lifecycle(fleet), sent)
           /\ step' = step + 1 /\ step' \in 0..MaxStep
           /\ given' \in [Indices -> 0..2]
           /\ UNCHANGED <<setup, subscriber>>
           /\ Published'
    BY <1>1, PublishedFleet
  <2>2. \A h \in DOMAIN history : history[h] \in Seq(1..step + 1) /\ Len(history[h]) \in 1..HistoryCap
    BY <1>0, SamplesGrow DEF ShapeInv, Shape
  <2>3. CASE setup.dds
    <3>1. Write(Lifecycle(fleet), sent)
      BY <2>1, <2>3
    <3>2. LifeWritten(fleet) /\ FramesWritten(sent) /\ queue' = queue
      BY <1>0, <2>1, <3>1, Written
    <3>8. \A i \in Indices : life'[i] = life[i] \/ life'[i] \in Births(fleet) \cup Tombstones(fleet)
      BY <3>2 DEF LifeWritten
    <3>9. \A c \in DOMAIN frames' :
               \/ frames'[c].step = step + 1 /\ frames'[c].movers \subseteq sent
               \/ c \in DOMAIN frames /\ frames'[c] = frames[c]
      BY <3>2 DEF FramesWritten
    <3>3. \A i \in Indices : life'[i] \in {NoLife} \cup Records
      BY <1>0, <3>8, RecordsTyped DEF ShapeInv, Shape
    <3>4. life' \in [Indices -> {NoLife} \cup Records]
      BY <3>2, <3>3 DEF LifeWritten
    <3>5. \A c \in DOMAIN frames' : frames'[c].movers \subseteq Handles /\ frames'[c].step \in 1..step + 1
      <4> TAKE c \in DOMAIN frames'
      <4>1. CASE frames'[c].step = step + 1 /\ frames'[c].movers \subseteq sent
        BY <1>0, <2>1, <4>1
      <4>2. CASE c \in DOMAIN frames /\ frames'[c] = frames[c]
        BY <1>0, <4>2 DEF ShapeInv, Shape
      <4> QED BY <3>9, <4>1, <4>2
    <3>6. queue' \in Seq(Entry)
          /\ \A k \in 1..Len(queue') : queue'[k].step <= step + 1
      <4>1. queue' = <<>>
        BY <1>8, <2>3, <3>2 DEF OneBinding
      <4> QED BY <4>1
    <3>7. unread' \subseteq Indices
      BY <3>2 DEF ShapeInv, Shape, LifeWritten
    <3> QED BY <1>8, <2>1, <2>2, <3>4, <3>5, <3>6, <3>7 DEF ShapeInv, Shape, subscriber
  <2>4. CASE ~setup.dds
    <3>1. Enqueue(Lifecycle(fleet), sent) /\ queue \in Seq(Entry) /\ \A k \in 1..Len(queue) : queue[k].step <= step
      BY <2>1, <2>4 DEF ShapeInv, Shape
    <3>2. UNCHANGED <<life, unread, frames>>
      BY <3>1 DEF Enqueue
    <3>3. queue' \in Seq(Entry) /\ \A k \in 1..Len(queue') : queue'[k].step <= step + 1
      <4>1. PICK new \in Seq(Entry) : queue' = queue \o new /\ Step(new, fleet, sent)
        BY <1>0, <2>1, <3>1, Enqueued
      <4>2. \A k \in 1..Len(new) : new[k].step <= step + 1
        BY <4>1 DEF Step
      <4>3. \A k \in 1..Len(queue) : queue[k].step <= step + 1
        <5> TAKE k \in 1..Len(queue)
        <5>1. queue[k] \in Entry /\ queue[k].step <= step
          BY <3>1
        <5>2. queue[k].step \in Nat
          BY <5>1 DEF Entry
        <5> QED BY <1>0, <5>1, <5>2
      <4>4. \A k \in 1..Len(queue') :
              (k \in 1..Len(queue) /\ queue'[k] = queue[k])
              \/ (k - Len(queue) \in 1..Len(new) /\ queue'[k] = new[k - Len(queue)])
        BY <3>1, <4>1
      <4>5. queue' \in Seq(Entry)
        BY <3>1, <4>1, ConcatProperties
      <4> QED BY <4>2, <4>3, <4>4, <4>5
    <3> QED BY <1>8, <1>0, <2>1, <2>2, <2>4, <3>2, <3>3 DEF ShapeInv, Shape, subscriber
  <2> QED BY <2>3, <2>4
<1>2. CASE PumpCore
  <2>1. /\ queue # <<>> /\ queue' = Tail(queue) /\ queue \in Seq(Entry)
        /\ UNCHANGED <<setup, step, given, known, lastSent, life, unread, frames, pumping>>
    BY <1>2 DEF PumpCore, ShapeInv, Shape, engine, publisher
  <2>2. /\ Len(queue) \in Nat \ {0} /\ Head(queue) = queue[1] /\ Head(queue) \in Entry
        /\ queue' \in Seq(Entry) /\ Len(queue') = Len(queue) - 1
        /\ \A k \in 1..Len(queue') : queue'[k] = queue[k + 1]
    BY <2>1
  <2>3. \A k \in 1..Len(queue') : queue'[k].step <= step
    BY <2>2 DEF ShapeInv, Shape
  <2>4. /\ dims' \subseteq Handles /\ DOMAIN history' \subseteq Handles
        /\ \A h \in DOMAIN history' : history'[h] \in Seq(1..step) /\ Len(history'[h]) \in 1..HistoryCap
    <3>1. CASE Head(queue).life # {}
      <4>1. Announce(Head(queue).life)
        BY <1>2, <3>1 DEF PumpCore
      <4>2. \A r \in Head(queue).life : r \in Records
        BY <2>2 DEF Entry, Records
      <4> QED BY <4>1, <4>2, AnnouncedShape DEF ShapeInv
    <3>2. CASE Head(queue).life = {}
      <4>1. Record(Head(queue)) /\ dims' = dims
        BY <1>2, <3>2 DEF PumpCore
      <4>2. Head(queue).movers \subseteq Handles /\ Head(queue).step \in 1..step
        <5>1. Head(queue).step <= step
          BY <2>2 DEF ShapeInv, Shape
        <5>2. Head(queue).step \in Nat /\ Head(queue).step > 0 /\ Head(queue).movers \subseteq Handles
          BY <2>2, <3>2 DEF Entry
        <5> QED BY <1>0, <5>1, <5>2
      <4> QED BY <1>0, <4>1, <4>2, RecordedSamples DEF ShapeInv, Shape
    <3> QED BY <3>1, <3>2
  <2>6. Published'
    BY <2>1 DEF ShapeInv, Published
  <2> QED BY <1>8, <2>1, <2>2, <2>3, <2>4, <2>6 DEF ShapeInv, Shape
<1>3. CASE PumpLifecycle
  <2>1. PICK arrived \in SUBSET unread : Announce({life[i] : i \in arrived}) /\ unread' = unread \ arrived
    BY <1>3 DEF PumpLifecycle
  <2>2. pumping' = TRUE /\ UNCHANGED <<setup, step, given, known, lastSent, queue, life, frames>>
    BY <1>3 DEF PumpLifecycle, engine, publisher
  <2>3. \A r \in {life[i] : i \in arrived} : r = NoLife \/ r \in Records
    BY <2>1 DEF ShapeInv, Shape
  <2>4. /\ dims' \subseteq Handles /\ DOMAIN history' \subseteq Handles
        /\ \A h \in DOMAIN history' : history'[h] \in Seq(1..step) /\ Len(history'[h]) \in 1..HistoryCap
    BY <2>1, <2>2, <2>3, AnnouncedShape DEF ShapeInv
  <2>5. Published'
    BY <2>2 DEF ShapeInv, Published
  <2> QED BY <1>8, <2>1, <2>2, <2>4, <2>5 DEF ShapeInv, Shape
<1>4. CASE PumpVehicles
  <2>1. UNCHANGED <<setup, step, given, known, lastSent, queue, life, unread, dims>>
    BY <1>4 DEF PumpVehicles, engine, publisher
  <2>2. pumping' \in BOOLEAN
    BY <1>4 DEF PumpVehicles, ShapeInv, Shape
  <2>3. /\ \A c \in DOMAIN frames' : c \in DOMAIN frames /\ frames'[c] = frames[c]
        /\ DOMAIN history' \subseteq Handles
        /\ \A h \in DOMAIN history' : history'[h] \in Seq(1..step) /\ Len(history'[h]) \in 1..HistoryCap
    <3>1. CASE UNCHANGED <<frames, history>>
      BY <3>1 DEF ShapeInv, Shape
    <3>2. ASSUME NEW c \in DOMAIN frames, Record(frames[c]), frames' = Restrict(frames, DOMAIN frames \ {c})
          PROVE  /\ \A d \in DOMAIN frames' : d \in DOMAIN frames /\ frames'[d] = frames[d]
                 /\ DOMAIN history' \subseteq Handles
                 /\ \A h \in DOMAIN history' :
                      history'[h] \in Seq(1..step) /\ Len(history'[h]) \in 1..HistoryCap
      <4>1. frames[c].movers \subseteq Handles /\ frames[c].step \in 1..step
        BY DEF ShapeInv, Shape
      <4>2. /\ DOMAIN history' \subseteq Handles
            /\ \A h \in DOMAIN history' : history'[h] \in Seq(1..step) /\ Len(history'[h]) \in 1..HistoryCap
        BY <1>0, <3>2, <4>1, RecordedSamples DEF ShapeInv, Shape
      <4> QED BY <3>2, <4>2 DEF Restrict
    <3> QED BY <1>4, <3>1, <3>2 DEF PumpVehicles
  <2>4. Published'
    BY <2>1 DEF ShapeInv, Published
  <2> QED BY <1>8, <2>1, <2>2, <2>3, <2>4 DEF ShapeInv, Shape
<1>5. CASE LoseFrame
  <2>1. UNCHANGED <<setup, step, given, known, lastSent, queue, life, unread, pumping, dims, history>>
    BY <1>5 DEF LoseFrame, engine, publisher, subscriber
  <2>2. \A c \in DOMAIN frames' : c \in DOMAIN frames /\ frames'[c] = frames[c]
    BY <1>5 DEF LoseFrame, Restrict
  <2>3. Published'
    BY <2>1 DEF ShapeInv, Published
  <2> QED BY <1>8, <2>1, <2>2, <2>3 DEF ShapeInv, Shape
<1>6. CASE Join
  <2>1. /\ UNCHANGED <<setup, step, given, known, lastSent, queue, life>>
        /\ pumping' = FALSE /\ dims' = {} /\ DOMAIN history' = {} /\ DOMAIN frames' = {}
        /\ unread' \subseteq Indices
    BY <1>6 DEF Join, engine, publisher, Nobody
  <2>2. Published'
    BY <2>1 DEF ShapeInv, Published
  <2> QED BY <1>8, <2>1, <2>2 DEF ShapeInv, Shape
<1>7. CASE UNCHANGED vars
  <2>1. UNCHANGED <<setup, step, given, known, lastSent, queue, life, unread, frames, pumping, dims, history>>
    BY <1>7 DEF vars, engine, publisher, transport, subscriber
  <2>2. Published'
    BY <2>1 DEF ShapeInv, Published
  <2> QED BY <1>8, <2>1, <2>2 DEF ShapeInv, Shape
<1> QED BY <1>1, <1>2, <1>3, <1>4, <1>5, <1>6, <1>7 DEF Next

\* Type correctness over either binding.
THEOREM TypeCorrect == ASSUME FiniteFleet PROVE Spec => []TypeOK
<1>1. Spec => []ShapeInv
  BY ShapeInit, ShapeStep, PTL DEF Spec
<1> QED BY <1>1, ShapeIsTyped, PTL

-----------------------------------------------------------------------------
(* The order of the samples.  Over DDS a frame is one sample of its topic  *)
(* only where it fits one chunk: the chunks of several frames are taken in  *)
(* no fixed order, and HistoryNewestLast is false with them.                *)

OneChunk == (\E s \in Setups : s.dds) => Cardinality(Indices) <= MaxPerChunk

Ordered(samples)  == \A k \in 2..Len(samples) : samples[k - 1] < samples[k]
Before(samples, s) == \A k \in 1..Len(samples) : samples[k] < s

IsFrame(e) == e.life = {}

\* What is still to be read is newer than what has been read, and in order.
Newest ==
  /\ \A h \in DOMAIN history : Ordered(history[h])
  /\ \A h \in DOMAIN history, k \in 1..Len(queue) :
       IsFrame(queue[k]) => Before(history[h], queue[k].step)
  /\ \A k \in 1..Len(queue), j \in 1..Len(queue) :
       j < k /\ IsFrame(queue[j]) /\ IsFrame(queue[k]) => queue[j].step < queue[k].step
  /\ \A c \in DOMAIN frames, h \in DOMAIN history : c = 1 /\ Before(history[h], frames[c].step)
  /\ DOMAIN frames \subseteq {1}

NewestInv == ShapeInv /\ Newest

LEMMA FleetFitsChunk ==
  ASSUME FiniteFleet, OneChunk, setup \in Setups, setup.dds,
         NEW fleet \in Fleets, NEW sent \in SUBSET fleet
  PROVE  DOMAIN Chunks(sent) \subseteq {1}
<1> DEFINE I == {h.index : h \in sent}
           f == [h \in sent |-> h.index]
           g == [i \in Indices |-> [index |-> i, gen |-> 1]]
<1>1. sent \subseteq Handles /\ \A a, b \in sent : a.index = b.index => a = b
  BY DEF Fleets
<1>2. IsFiniteSet(Indices)
  <2>1. g \in Injection(Indices, Handles)
    <3>1. g \in [Indices -> Handles]
      BY DEF Handles
    <3>2. \A i, j \in Indices : g[i] = g[j] => i = j
      <4> TAKE i, j \in Indices
      <4>1. g[i].index = i /\ g[j].index = j
        OBVIOUS
      <4> QED BY <4>1
    <3> QED BY <3>1, <3>2 DEF Injection, IsInjective
  <2> HIDE DEF g
  <2> QED BY <2>1, FS_Injection DEF FiniteFleet
<1>3. f \in Injection(sent, Indices)
  <2>1. f \in [sent -> Indices]
    BY <1>1 DEF Handles
  <2> QED BY <1>1, <2>1 DEF Injection, IsInjective
<1>4. Cardinality(sent) <= Cardinality(Indices) /\ IsFiniteSet(sent)
  <2> HIDE DEF f
  <2> QED BY <1>2, <1>3, FS_Injection
<1>5. Cardinality(sent) \in Nat /\ Cardinality(Indices) \in Nat /\ MaxPerChunk \in Nat \ {0}
  BY <1>2, <1>4, FS_CardinalityType, BoundAssumption
<1>6. Cardinality(sent) <= MaxPerChunk
  BY <1>4, <1>5 DEF OneChunk
<1>7. SetToSeq(sent) \in [1..Cardinality(sent) -> sent]
  BY <1>4, Listing
<1>8. Len(SetToSeq(sent)) = Cardinality(sent)
  BY <1>5, <1>7, ArrayIsSeq
<1>9. \A m \in Nat \ {0} : \A n \in 0..m : (n + m - 1) \div m \in {0, 1}
  OBVIOUS
<1>10. (Len(SetToSeq(sent)) + MaxPerChunk - 1) \div MaxPerChunk \in {0, 1}
  <2>1. Cardinality(sent) \in 0..MaxPerChunk
    BY <1>5, <1>6
  <2> QED BY <1>5, <1>8, <1>9, <2>1
<1> QED BY <1>10 DEF Chunks

LEMMA AppendedOrdered ==
  ASSUME NEW n \in Nat, NEW x \in 1..n, NEW s \in Seq(1..n), Len(s) <= HistoryCap,
         Ordered(s), Before(s, x)
  PROVE  /\ Ordered(Appended(s, x))
         /\ \A y \in Nat : x < y => Before(Appended(s, x), y)
<1>1. PICK t \in Seq(1..n) : Appended(s, x) = Append(t, x) /\ (t = s \/ (s # <<>> /\ t = Tail(s)))
  BY AppendedSamples
<1>2. Ordered(t) /\ Before(t, x)
  <2>1. CASE t = s
    BY <2>1
  <2>2. CASE s # <<>> /\ t = Tail(s)
    <3>1. Len(t) = Len(s) - 1 /\ Len(s) \in Nat \ {0} /\ \A k \in 1..Len(t) : t[k] = s[k + 1]
      BY <2>2
    <3>2. \A k \in 1..Len(t) : k + 1 \in 1..Len(s)
      BY <3>1
    <3>3. Before(t, x)
      BY <3>1, <3>2 DEF Before
    <3>4. \A k \in 2..Len(t) : /\ k \in 1..Len(t) /\ k - 1 \in 1..Len(t)
                               /\ k + 1 \in 2..Len(s) /\ (k - 1) + 1 = (k + 1) - 1
      BY <3>1
    <3>5. Ordered(t)
      BY <3>1, <3>4 DEF Ordered
    <3> QED BY <3>3, <3>5
  <2> QED BY <1>1, <2>1, <2>2
<1>3. /\ Len(t) \in Nat /\ Len(Append(t, x)) = Len(t) + 1
      /\ \A k \in 1..Len(t) : Append(t, x)[k] = t[k] /\ t[k] \in 1..n
      /\ Append(t, x)[Len(t) + 1] = x
  OBVIOUS
<1>4. Ordered(Append(t, x))
  <2> SUFFICES ASSUME NEW k \in 2..Len(t) + 1 PROVE Append(t, x)[k - 1] < Append(t, x)[k]
    BY <1>3 DEF Ordered
  <2>1. CASE k = Len(t) + 1
    <3>1. k - 1 \in 1..Len(t)
      BY <1>3, <2>1
    <3> QED BY <1>2, <1>3, <2>1, <3>1 DEF Before
  <2>2. CASE k # Len(t) + 1
    <3>1. k \in 2..Len(t) /\ k - 1 \in 1..Len(t) /\ k \in 1..Len(t)
      BY <1>3, <2>2
    <3> QED BY <1>2, <1>3, <3>1 DEF Ordered
  <2> QED BY <2>1, <2>2
<1>5. ASSUME NEW y \in Nat, x < y PROVE Before(Append(t, x), y)
  <2> SUFFICES ASSUME NEW k \in 1..Len(t) + 1 PROVE Append(t, x)[k] < y
    BY <1>3 DEF Before
  <2>1. CASE k = Len(t) + 1
    BY <1>3, <1>5, <2>1
  <2>2. CASE k # Len(t) + 1
    <3>1. k \in 1..Len(t)
      BY <1>3, <2>2
    <3>2. t[k] < x /\ t[k] \in 1..n
      BY <1>2, <1>3, <3>1 DEF Before
    <3> QED BY <1>3, <1>5, <3>1, <3>2
  <2> QED BY <2>1, <2>2
<1> QED BY <1>1, <1>4, <1>5

\* A frame that is newer than all samples is recorded.
LEMMA RecordedNewest ==
  ASSUME ShapeInv, NEW f, f.step \in 1..step, Record(f),
         \A h \in DOMAIN history : Ordered(history[h]) /\ Before(history[h], f.step)
  PROVE  \A h \in DOMAIN history' :
           /\ Ordered(history'[h])
           /\ \/ h \in DOMAIN history /\ history'[h] = history[h]
              \/ \A y \in Nat : f.step < y => Before(history'[h], y)
<1>0. step \in Nat /\ HistoryCap \in Nat \ {0}
  BY BoundAssumption DEF ShapeInv, Published
<1>1. history' = [h \in DOMAIN history \cup f.movers |->
                    IF h \in f.movers THEN Appended(Samples(h), f.step) ELSE history[h]]
  BY DEF Record
<1>2. ASSUME NEW h
      PROVE  /\ Samples(h) \in Seq(1..step) /\ Len(Samples(h)) <= HistoryCap
             /\ Ordered(Samples(h)) /\ Before(Samples(h), f.step)
  <2>1. CASE h \in DOMAIN history
    BY <1>0, <2>1 DEF Samples, ShapeInv, Shape
  <2>2. CASE h \notin DOMAIN history
    <3>1. Samples(h) = <<>>
      BY <2>2 DEF Samples
    <3>2. <<>> \in Seq(1..step) /\ Len(<<>>) = 0
      OBVIOUS
    <3> QED BY <1>0, <3>1, <3>2 DEF Ordered, Before
  <2> QED BY <2>1, <2>2
<1>3. \A h : /\ Ordered(Appended(Samples(h), f.step))
             /\ \A y \in Nat : f.step < y => Before(Appended(Samples(h), f.step), y)
  BY <1>0, <1>2, AppendedOrdered
<1> TAKE h \in DOMAIN history'
<1>4. CASE h \in f.movers
  BY <1>1, <1>3, <1>4
<1>5. CASE h \notin f.movers
  BY <1>1, <1>5
<1> QED BY <1>4, <1>5

\* What is forgotten is no longer out of order.
LEMMA ForgottenNewest ==
  ASSUME Newest, UNCHANGED <<queue, frames>>, NEW S \in SUBSET DOMAIN history,
         history' = Restrict(history, S)
  PROVE  Newest'
<1>1. \A h \in DOMAIN history' : h \in DOMAIN history /\ history'[h] = history[h]
  BY DEF Restrict
<1> QED BY <1>1 DEF Newest

\* All samples of a state lie before the next step.
LEMMA SamplesBefore ==
  ASSUME ShapeInv
  PROVE  \A h \in DOMAIN history : Before(history[h], step + 1)
<1> TAKE h \in DOMAIN history
<1>1. history[h] \in Seq(1..step) /\ step \in Nat
  BY DEF ShapeInv, Shape, Published
<1>2. \A k \in 1..Len(history[h]) : history[h][k] \in 1..step
  BY <1>1
<1> QED BY <1>1, <1>2 DEF Before

LEMMA NewestPublish ==
  ASSUME FiniteFleet, OneChunk, NewestInv, PublishStep
  PROVE  Newest'
<1>0. step \in Nat /\ known \in SUBSET Handles /\ setup \in Setups
      /\ queue \in Seq(Entry) /\ \A k \in 1..Len(queue) : queue[k].step <= step
  BY DEF NewestInv, ShapeInv, Shape, Published
<1>1. PICK fleet \in SUBSET Handles, sent \in SUBSET Handles :
         /\ fleet \in Fleets /\ sent \subseteq fleet
         /\ IF setup.dds THEN Write(Lifecycle(fleet), sent) ELSE Enqueue(Lifecycle(fleet), sent)
         /\ UNCHANGED <<setup, subscriber>>
  BY PublishedFleet DEF NewestInv
<1>2. history' = history /\ \A h \in DOMAIN history : Ordered(history[h]) /\ Before(history[h], step + 1)
  BY <1>1, SamplesBefore DEF NewestInv, Newest, subscriber
<1>3. CASE setup.dds
  <2>1. FramesWritten(sent) /\ queue' = queue /\ queue = <<>>
    BY <1>0, <1>1, <1>3, Written DEF NewestInv, ShapeInv, Shape, OneBinding
  <2>2. DOMAIN Chunks(sent) \subseteq {1}
    BY <1>0, <1>1, <1>3, FleetFitsChunk
  <2>3. DOMAIN frames' \subseteq {1}
    BY <2>1, <2>2 DEF NewestInv, Newest, FramesWritten
  <2>4. ASSUME NEW c \in DOMAIN frames', NEW h \in DOMAIN history
        PROVE  Before(history[h], frames'[c].step)
    <3>1. CASE c \in DOMAIN Chunks(sent)
      BY <1>2, <2>1, <3>1 DEF FramesWritten
    <3>2. CASE c \notin DOMAIN Chunks(sent)
      BY <2>1, <3>2 DEF FramesWritten, NewestInv, Newest
    <3> QED BY <3>1, <3>2
  <2>5. Len(queue') = 0
    BY <2>1
  <2> QED BY <1>2, <2>3, <2>4, <2>5 DEF Newest
<1>4. CASE ~setup.dds
  <2>1. PICK new \in Seq(Entry) : queue' = queue \o new /\ Step(new, fleet, sent)
    BY <1>0, <1>1, <1>4, Enqueued
  <2>2. frames' = frames
    BY <1>1, <1>4 DEF Enqueue
  <2>3. /\ Len(queue) \in Nat /\ Len(new) \in Nat /\ Len(queue') = Len(queue) + Len(new)
        /\ \A k \in 1..Len(queue) : queue'[k] = queue[k]
        /\ \A k \in Len(queue) + 1..Len(queue') : queue'[k] = new[k - Len(queue)]
    BY <1>0, <2>1
  <2>4. \A k \in 1..Len(new) : IsFrame(new[k]) => k = Len(new) /\ new[k].step = step + 1
    <3> SUFFICES ASSUME NEW k \in 1..Len(new), new[k].life = {}
                 PROVE  k = Len(new) /\ new[k].step = step + 1
      BY DEF IsFrame
    <3>1. sent # {} /\ k = Len(new)
      BY <2>1 DEF Step
    <3> QED BY <2>1, <3>1 DEF Step
  <2>5. \A k \in Len(queue) + 1..Len(queue') :
          IsFrame(queue'[k]) => k = Len(queue') /\ queue'[k].step = step + 1
    <3> SUFFICES ASSUME NEW k \in Len(queue) + 1..Len(queue'), IsFrame(queue'[k])
                 PROVE  k = Len(queue') /\ queue'[k].step = step + 1
      OBVIOUS
    <3>1. k - Len(queue) \in 1..Len(new) /\ queue'[k] = new[k - Len(queue)]
      BY <2>3
    <3>2. k - Len(queue) = Len(new) /\ queue'[k].step = step + 1
      BY <2>4, <3>1
    <3> QED BY <2>3, <3>2
  <2>6. ASSUME NEW h \in DOMAIN history, NEW k \in 1..Len(queue'), IsFrame(queue'[k])
        PROVE  Before(history[h], queue'[k].step)
    <3>1. CASE k \in 1..Len(queue)
      BY <2>3, <2>6, <3>1 DEF NewestInv, Newest
    <3>2. CASE k \in Len(queue) + 1..Len(queue')
      BY <1>2, <2>5, <2>6, <3>2
    <3> QED BY <2>3, <3>1, <3>2
  <2>7. ASSUME NEW k \in 1..Len(queue'), NEW j \in 1..Len(queue'), j < k,
               IsFrame(queue'[j]), IsFrame(queue'[k])
        PROVE  queue'[j].step < queue'[k].step
    <3>1. CASE k \in 1..Len(queue)
      <4>1. j \in 1..Len(queue)
        BY <2>3, <2>7, <3>1
      <4> QED BY <2>3, <2>7, <3>1, <4>1 DEF NewestInv, Newest
    <3>2. CASE k \in Len(queue) + 1..Len(queue')
      <4>1. k = Len(queue') /\ queue'[k].step = step + 1
        BY <2>5, <2>7, <3>2
      <4>2. j \in 1..Len(queue)
        <5>1. j # Len(queue')
          BY <2>3, <2>7, <4>1
        <5>2. j \notin Len(queue) + 1..Len(queue')
          BY <2>5, <2>7, <5>1
        <5> QED BY <2>3, <5>2
      <4>3. queue'[j] \in Entry /\ queue'[j].step <= step
        BY <1>0, <2>3, <4>2
      <4>4. queue'[j].step \in Nat
        BY <4>3 DEF Entry
      <4> QED BY <1>0, <4>1, <4>3, <4>4
    <3> QED BY <2>3, <3>1, <3>2
  <2> QED BY <1>2, <2>2, <2>6, <2>7 DEF NewestInv, Newest
<1> QED BY <1>3, <1>4

LEMMA NewestPump ==
  ASSUME NewestInv, PumpCore
  PROVE  Newest'
<1>1. /\ queue # <<>> /\ queue' = Tail(queue) /\ queue \in Seq(Entry) /\ frames' = frames
      /\ step \in Nat /\ ~setup.dds
  BY DEF PumpCore, NewestInv, ShapeInv, Shape, OneBinding, Published
<1>2. /\ Len(queue) \in Nat \ {0} /\ Head(queue) = queue[1] /\ Head(queue) \in Entry
      /\ Len(queue') = Len(queue) - 1 /\ \A k \in 1..Len(queue') : queue'[k] = queue[k + 1]
  BY <1>1
<1>3. \A k \in 1..Len(queue') : k + 1 \in 1..Len(queue) /\ 1 \in 1..Len(queue) /\ 1 < k + 1
  BY <1>2
<1>4. ASSUME NEW k \in 1..Len(queue'), NEW j \in 1..Len(queue'), j < k,
             IsFrame(queue'[j]), IsFrame(queue'[k])
      PROVE  queue'[j].step < queue'[k].step
  <2>1. j + 1 < k + 1
    BY <1>2, <1>4
  <2> QED BY <1>2, <1>3, <1>4, <2>1 DEF NewestInv, Newest
<1>5. CASE Head(queue).life # {}
  <2>1. PICK S \in SUBSET DOMAIN history : history' = Restrict(history, S)
    BY <1>5 DEF PumpCore, Announce
  <2>2. \A h \in DOMAIN history' : h \in DOMAIN history /\ history'[h] = history[h]
    BY <2>1 DEF Restrict
  <2>3. ASSUME NEW h \in DOMAIN history', NEW k \in 1..Len(queue'), IsFrame(queue'[k])
        PROVE  Before(history'[h], queue'[k].step)
    BY <1>2, <1>3, <2>2, <2>3 DEF NewestInv, Newest
  <2> QED BY <1>1, <1>4, <2>2, <2>3 DEF NewestInv, Newest
<1>6. CASE Head(queue).life = {}
  <2> DEFINE f == Head(queue)
  <2>1. Record(f) /\ IsFrame(queue[1]) /\ f = queue[1]
    BY <1>2, <1>6 DEF PumpCore, IsFrame
  <2>2. f.step \in 1..step
    <3>1. f.step <= step
      BY <1>2 DEF NewestInv, ShapeInv, Shape
    <3>2. f.step \in Nat /\ f.step > 0
      BY <1>2, <1>6 DEF Entry
    <3> QED BY <1>1, <3>1, <3>2
  <2>3. \A h \in DOMAIN history : Ordered(history[h]) /\ Before(history[h], f.step)
    BY <1>2, <2>1 DEF NewestInv, Newest
  <2> HIDE DEF f
  <2>4. \A h \in DOMAIN history' :
           /\ Ordered(history'[h])
           /\ \/ h \in DOMAIN history /\ history'[h] = history[h]
              \/ \A y \in Nat : f.step < y => Before(history'[h], y)
    BY <2>1, <2>2, <2>3, RecordedNewest DEF NewestInv
  <2>5. ASSUME NEW h \in DOMAIN history', NEW k \in 1..Len(queue'), IsFrame(queue'[k])
        PROVE  Before(history'[h], queue'[k].step)
    <3>1. queue'[k] = queue[k + 1] /\ k + 1 \in 1..Len(queue) /\ queue[k + 1] \in Entry
      BY <1>1, <1>2, <1>3
    <3>2. queue'[k].step \in Nat
      BY <3>1 DEF Entry
    <3>3. CASE h \in DOMAIN history /\ history'[h] = history[h]
      BY <2>5, <3>1, <3>3 DEF NewestInv, Newest
    <3>4. CASE \A y \in Nat : f.step < y => Before(history'[h], y)
      <4>1. f.step < queue'[k].step
        BY <1>3, <2>1, <2>5, <3>1 DEF NewestInv, Newest
      <4> QED BY <3>2, <3>4, <4>1
    <3> QED BY <2>4, <3>3, <3>4
  <2>6. DOMAIN frames = {}
    BY <1>1 DEF NewestInv, ShapeInv, Shape, OneBinding
  <2> QED BY <1>1, <1>4, <2>4, <2>5, <2>6 DEF NewestInv, Newest
<1> QED BY <1>5, <1>6

LEMMA NewestInit == Init => NewestInv
<1> SUFFICES ASSUME Init PROVE NewestInv
  OBVIOUS
<1>1. DOMAIN history = {} /\ DOMAIN frames = {} /\ Len(queue) = 0
  BY DEF Init, Nobody
<1>2. Newest
  BY <1>1 DEF Newest
<1> QED BY <1>2, ShapeInit DEF NewestInv

LEMMA NewestStep ==
  ASSUME FiniteFleet, OneChunk, NewestInv, [Next]_vars
  PROVE  NewestInv'
<1>0. ShapeInv'
  BY ShapeStep DEF NewestInv
<1>1. CASE PublishStep
  BY <1>0, <1>1, NewestPublish DEF NewestInv
<1>2. CASE PumpCore
  BY <1>0, <1>2, NewestPump DEF NewestInv
<1>3. CASE PumpLifecycle
  <2>1. PICK S \in SUBSET DOMAIN history : history' = Restrict(history, S)
    BY <1>3 DEF PumpLifecycle, Announce
  <2>2. UNCHANGED <<queue, frames>>
    BY <1>3 DEF PumpLifecycle
  <2> QED BY <1>0, <2>1, <2>2, ForgottenNewest DEF NewestInv
<1>4. CASE PumpVehicles
  <2>1. queue' = queue
    BY <1>4 DEF PumpVehicles
  <2>2. CASE UNCHANGED <<frames, history>>
    BY <1>0, <2>1, <2>2 DEF NewestInv, Newest
  <2>3. ASSUME NEW c \in DOMAIN frames, Record(frames[c]), frames' = Restrict(frames, DOMAIN frames \ {c})
        PROVE  Newest'
    <3>1. DOMAIN frames' = {}
      BY <2>3 DEF NewestInv, Newest, Restrict
    <3>2. queue' = <<>>
      BY <2>1 DEF NewestInv, ShapeInv, Shape, OneBinding
    <3>3. \A h \in DOMAIN history' : Ordered(history'[h])
      <4>1. frames[c].step \in 1..step
        BY DEF NewestInv, ShapeInv, Shape
      <4>2. \A h \in DOMAIN history : Ordered(history[h]) /\ Before(history[h], frames[c].step)
        BY DEF NewestInv, Newest
      <4> QED BY <2>3, <4>1, <4>2, RecordedNewest DEF NewestInv
    <3>4. Len(queue') = 0
      BY <3>2
    <3> QED BY <3>1, <3>3, <3>4 DEF Newest
  <2> QED BY <1>0, <1>4, <2>2, <2>3 DEF PumpVehicles, NewestInv
<1>5. CASE LoseFrame
  <2>1. PICK c \in DOMAIN frames : frames' = Restrict(frames, DOMAIN frames \ {c})
    BY <1>5 DEF LoseFrame
  <2>2. UNCHANGED <<queue, history>>
    BY <1>5 DEF LoseFrame, subscriber
  <2>3. \A d \in DOMAIN frames' : d \in DOMAIN frames /\ frames'[d] = frames[d]
    BY <2>1 DEF Restrict
  <2> QED BY <1>0, <2>2, <2>3 DEF NewestInv, Newest
<1>6. CASE Join
  <2>1. DOMAIN history' = {} /\ DOMAIN frames' = {} /\ queue' = queue
    BY <1>6 DEF Join, Nobody
  <2> QED BY <1>0, <2>1 DEF NewestInv, Newest
<1>7. CASE UNCHANGED vars
  <2>1. UNCHANGED <<queue, frames, history>>
    BY <1>7 DEF vars, transport, subscriber
  <2> QED BY <1>0, <2>1 DEF NewestInv, Newest
<1> QED BY <1>1, <1>2, <1>3, <1>4, <1>5, <1>6, <1>7 DEF Next

\* The samples of a vehicle are in the order they were taken in, none twice,
\* over either binding, whatever is lost and however often a viewer joins.
THEOREM SamplesInOrder ==
  ASSUME FiniteFleet, OneChunk
  PROVE  Spec => []HistoryNewestLast
<1>1. NewestInv => HistoryNewestLast
  BY DEF NewestInv, Newest, Ordered, HistoryNewestLast
<1> QED BY <1>1, NewestInit, NewestStep, PTL DEF Spec

-----------------------------------------------------------------------------
(* Late joiners.  The lifecycle topic keeps the last sample of an index,    *)
(* whatever the generation, so over DDS the property needs vehicles whose   *)
(* indices are not given out twice.                                        *)

OneGeneration == \A s \in Setups : s.dds => s.generations = 1

Only(i) == [index |-> i, gen |-> 1]

\* The topic holds the last word on every index; who has taken it has the
\* dimensions of just that.
Topic ==
  /\ known \subseteq {Only(i) : i \in Indices} /\ dims \subseteq {Only(i) : i \in Indices}
  /\ \A i \in Indices : IF Only(i) \in known THEN life[i] = Birth(Only(i))
                                             ELSE life[i] = NoLife \/ life[i] = Tombstone(Only(i))
  /\ \A i \in unread : life[i] # NoLife
  /\ \A i \in Indices \ unread : Only(i) \in dims <=> Only(i) \in known

TopicInv == setup.dds => Topic

LEMMA OnlyOnes ==
  /\ \A i, j : Only(i) = Only(j) => i = j
  /\ \A i, j : Birth(Only(i)) # Tombstone(Only(j)) /\ Birth(Only(i)) # NoLife /\ Tombstone(Only(i)) # NoLife
  /\ \A i : Only(i).index = i /\ Only(i).gen = 1
<1>1. \A i : Only(i).index = i /\ Only(i).gen = 1
  BY DEF Only
<1>2. \A h : Birth(h).spawn = TRUE /\ Birth(h).handle = h /\ Tombstone(h).spawn = FALSE /\ Tombstone(h).handle = h
  BY DEF Birth, Tombstone
<1>3. NoLife.handle.gen = 0
  BY DEF NoLife
<1>4. \A i, j : Birth(Only(i)) # Tombstone(Only(j))
  BY <1>2
<1>5. \A i : Birth(Only(i)) # NoLife /\ Tombstone(Only(i)) # NoLife
  BY <1>1, <1>2, <1>3
<1> QED BY <1>1, <1>4, <1>5

LEMMA TopicPublish ==
  ASSUME FiniteFleet, OneGeneration, ShapeInv, setup.dds, Topic, PublishStep
  PROVE  Topic'
<1>0. step \in Nat /\ known \in SUBSET Handles /\ setup \in Setups
  BY DEF ShapeInv, Shape, Published
<1>1. PICK fleet \in SUBSET Handles, sent \in SUBSET Handles :
         /\ fleet \in Fleets /\ sent \subseteq fleet
         /\ Write(Lifecycle(fleet), sent) /\ known' = fleet /\ UNCHANGED <<setup, subscriber>>
  BY PublishedFleet
<1>2. LifeWritten(fleet)
  BY <1>0, <1>1, Written
<1>3. dims' = dims
  BY <1>1 DEF subscriber
<1>4. \A h \in fleet : h = Only(h.index) /\ h.index \in Indices
  <2> TAKE h \in fleet
  <2>1. h \in Handles /\ h.gen \in 1..setup.generations /\ setup.generations = 1
    BY <1>0, <1>1 DEF Fleets, OneGeneration
  <2> QED BY <2>1 DEF Handles, Only
<1>5. ASSUME NEW i \in Indices
      PROVE  /\ IF Only(i) \in fleet THEN life'[i] = Birth(Only(i))
                                    ELSE life'[i] = NoLife \/ life'[i] = Tombstone(Only(i))
             /\ i \in unread' => life'[i] # NoLife
             /\ i \notin unread' => (Only(i) \in dims <=> Only(i) \in fleet)
  <2>0. Only(i) \in Handles /\ Only(i).index = i
    BY DEF Only, Handles
  <2>1. CASE /\ life'[i] = life[i] /\ (i \in unread' <=> i \in unread)
             /\ Only(i) \in fleet <=> Only(i) \in known
    BY <2>1 DEF Topic
  <2>2. CASE i \in unread' /\ \E r \in Births(fleet) \cup Tombstones(fleet) : r.handle.index = i /\ life'[i] = r
    <3>1. PICK r \in Births(fleet) \cup Tombstones(fleet) : r.handle.index = i /\ life'[i] = r
      BY <2>2
    <3>2. CASE r \in Births(fleet)
      <4>1. PICK h \in fleet \ known : r = Birth(h)
        BY <3>2 DEF Births, Birth
      <4>2. h = Only(i)
        BY <1>4, <3>1, <4>1 DEF Birth
      <4> QED BY <2>2, <3>1, <4>1, <4>2, OnlyOnes
    <3>3. CASE r \in Tombstones(fleet)
      <4>1. PICK h \in known \ fleet : r = Tombstone(h)
        BY <3>3 DEF Tombstones, Tombstone
      <4>2. PICK j \in Indices : h = Only(j)
        BY <4>1 DEF Topic
      <4>3. j = i
        BY <3>1, <4>1, <4>2, OnlyOnes DEF Tombstone
      <4> QED BY <2>2, <3>1, <4>1, <4>2, <4>3, OnlyOnes
    <3> QED BY <3>1, <3>2, <3>3
  <2> QED BY <1>2, <2>0, <2>1, <2>2 DEF LifeWritten
<1>6. fleet \subseteq {Only(i) : i \in Indices}
  BY <1>4
<1>7. unread' \subseteq Indices
  BY <1>2 DEF LifeWritten, ShapeInv, Shape
<1> QED BY <1>1, <1>3, <1>5, <1>6, <1>7 DEF Topic

LEMMA TopicPump ==
  ASSUME ShapeInv, Topic, PumpLifecycle
  PROVE  Topic'
<1>1. PICK arrived \in SUBSET unread : Announce({life[i] : i \in arrived}) /\ unread' = unread \ arrived
  BY DEF PumpLifecycle
<1>2. UNCHANGED <<known, life>>
  BY DEF PumpLifecycle, publisher
<1>3. arrived \subseteq Indices /\ \A i \in arrived : life[i] # NoLife
  BY <1>1 DEF ShapeInv, Shape, Topic
<1> DEFINE recs == {life[i] : i \in arrived}
           gone == {r.handle : r \in {q \in recs : ~q.spawn}}
           born == {r.handle : r \in {q \in recs : q.spawn}}
<1>4. dims' = (dims \ gone) \cup born
  BY <1>1 DEF Announce
<1>5. \A i \in arrived : IF Only(i) \in known THEN life[i] = Birth(Only(i)) ELSE life[i] = Tombstone(Only(i))
  BY <1>3 DEF Topic
<1>10. \A i \in arrived :
         /\ life[i].handle = Only(i)
         /\ IF Only(i) \in known THEN life[i].spawn = TRUE ELSE life[i].spawn = FALSE
  <2> TAKE i \in arrived
  <2>1. CASE Only(i) \in known
    <3>1. life[i] = Birth(Only(i))
      BY <1>5, <2>1
    <3>2. Birth(Only(i)).handle = Only(i) /\ Birth(Only(i)).spawn = TRUE
      BY DEF Birth
    <3> QED BY <2>1, <3>1, <3>2
  <2>2. CASE Only(i) \notin known
    <3>1. life[i] = Tombstone(Only(i))
      BY <1>5, <2>2
    <3>2. Tombstone(Only(i)).handle = Only(i) /\ Tombstone(Only(i)).spawn = FALSE
      BY DEF Tombstone
    <3> QED BY <2>2, <3>1, <3>2
  <2> QED BY <2>1, <2>2
<1>6. \A h : h \in born <=> \E i \in arrived : h = Only(i) /\ Only(i) \in known
  BY <1>10
<1>7. \A h : h \in gone <=> \E i \in arrived : h = Only(i) /\ Only(i) \notin known
  BY <1>10
<1> HIDE DEF born, gone
<1>8. dims' \subseteq {Only(i) : i \in Indices}
  BY <1>3, <1>4, <1>6 DEF Topic
<1>9. ASSUME NEW i \in Indices \ unread' PROVE Only(i) \in dims' <=> Only(i) \in known
  <2>1. CASE i \in arrived
    <3>1. Only(i) \in born <=> Only(i) \in known
      BY <1>6, <2>1, OnlyOnes
    <3>2. Only(i) \notin known => Only(i) \in gone
      BY <1>7, <2>1
    <3> QED BY <1>4, <3>1, <3>2
  <2>2. CASE i \notin arrived
    <3>1. Only(i) \notin born /\ Only(i) \notin gone
      BY <1>6, <1>7, <2>2, OnlyOnes
    <3>2. i \in Indices \ unread
      BY <1>1, <1>9, <2>2
    <3> QED BY <1>4, <3>1, <3>2 DEF Topic
  <2> QED BY <2>1, <2>2
<1> QED BY <1>1, <1>2, <1>8, <1>9 DEF Topic

LEMMA TopicStep ==
  ASSUME FiniteFleet, OneGeneration, ShapeInv, TopicInv, [Next]_vars
  PROVE  TopicInv'
<1>0. setup' = setup
  BY DEF Next, PublishStep, PumpCore, PumpLifecycle, PumpVehicles, LoseFrame, Join, vars
<1> SUFFICES ASSUME setup.dds PROVE Topic'
  BY <1>0 DEF TopicInv
<1>1. Topic /\ queue = <<>>
  BY DEF TopicInv, ShapeInv, Shape, OneBinding
<1>2. CASE PublishStep
  BY <1>1, <1>2, TopicPublish
<1>3. CASE PumpCore
  BY <1>1, <1>3 DEF PumpCore
<1>4. CASE PumpLifecycle
  BY <1>1, <1>4, TopicPump
<1>5. CASE PumpVehicles
  <2>1. UNCHANGED <<known, life, unread, dims>>
    BY <1>5 DEF PumpVehicles, publisher
  <2> QED BY <1>1, <2>1 DEF Topic
<1>6. CASE LoseFrame
  <2>1. UNCHANGED <<known, life, unread, dims>>
    BY <1>6 DEF LoseFrame, publisher, subscriber
  <2> QED BY <1>1, <2>1 DEF Topic
<1>7. CASE Join
  <2>1. UNCHANGED <<known, life>> /\ dims' = {} /\ unread' = {i \in Indices : life[i] # NoLife}
    BY <1>7 DEF Join, publisher
  <2>2. \A i \in Indices : life[i] = NoLife => Only(i) \notin known
    BY <1>1, OnlyOnes DEF Topic
  <2> QED BY <1>1, <2>1, <2>2 DEF Topic
<1>8. CASE UNCHANGED vars
  <2>1. UNCHANGED <<known, life, unread, dims>>
    BY <1>8 DEF vars, publisher, transport, subscriber
  <2> QED BY <1>1, <2>1 DEF Topic
<1> QED BY <1>2, <1>3, <1>4, <1>5, <1>6, <1>7, <1>8 DEF Next

LEMMA TopicInit == Init => TopicInv
<1> SUFFICES ASSUME Init PROVE Topic
  BY DEF TopicInv
<1>1. known = {} /\ dims = {} /\ unread = {} /\ \A i \in Indices : life[i] = NoLife
  BY DEF Init
<1> QED BY <1>1 DEF Topic

\* A source that has read every lifecycle record has the dimensions of just the
\* vehicles on the road: over the queue with any number of generations, over
\* DDS with one, however late or often it joins.
THEOREM LateJoiners ==
  ASSUME FiniteFleet, OneGeneration
  PROVE  Spec => []DimsFollowTheFleet
<1>1. QueueInv /\ ShapeInv /\ TopicInv => DimsFollowTheFleet
  <2> SUFFICES ASSUME QueueInv, ShapeInv, TopicInv, queue = <<>>, unread = {}
               PROVE  dims = known
    BY DEF DimsFollowTheFleet
  <2>1. CASE setup.dds
    BY <2>1 DEF TopicInv, Topic
  <2>2. CASE ~setup.dds
    <3>1. dims \subseteq Handles /\ known \subseteq Handles
      BY <2>2 DEF QueueInv, Published
    <3>2. \A h \in Handles : dims \cap {h} = known \cap {h}
      BY <2>2, QueueRead
    <3>3. \A h \in Handles : h \in dims <=> h \in known
      BY <3>2
    <3> QED BY <3>1, <3>3
  <2> QED BY <2>1, <2>2
<1>2. Spec => [](QueueInv /\ ShapeInv /\ TopicInv)
  BY QueueInit, QueueStep, ShapeInit, ShapeStep, TopicInit, TopicStep, PTL DEF Spec
<1> QED BY <1>1, <1>2, PTL
=============================================================================
