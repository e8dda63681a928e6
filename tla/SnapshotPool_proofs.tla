------------------------ MODULE SnapshotPool_proofs ------------------------
(***************************************************************************)
(* Proofs about SnapshotPool for every pool capacity, every number of      *)
(* readers and every number of Ticks.                                      *)
(***************************************************************************)
EXTENDS SnapshotPool, TLAPS

\* With the pool on, the cursor walks the ring 0, 1, ..., Capacity-1, 0, ...
LEMMA CursorWraps ==
  ASSUME Capacity # 0, NEW c \in 0..Capacity - 1
  PROVE  (c + 1) % Capacity = IF c + 1 = Capacity THEN 0 ELSE c + 1
<1>1. Capacity \in Nat \ {0}
  BY CapacityAssumption
<1>2. CASE c + 1 = Capacity
  <2>1. Capacity % Capacity = 0
    BY <1>1, SMT
  <2> QED BY <1>2, <2>1
<1>3. CASE c + 1 # Capacity
  <2>1. c + 1 \in 0..Capacity - 1
    BY <1>1, <1>3
  <2>2. \A d \in 0..Capacity - 1 : d % Capacity = d
    BY <1>1, SMT
  <2> QED BY <1>3, <2>1, <2>2
<1> QED BY <1>2, <1>3

-----------------------------------------------------------------------------
(* Type correctness.                                                       *)

LEMMA EmptyIsFrame == Empty \in Frame /\ NoPair \in Pair
  BY BoundAssumption DEF Empty, Frame, NoPair, Pair

LEMMA TypeStep == TypeOK /\ [Next]_vars => TypeOK'
<1> SUFFICES ASSUME TypeOK, [Next]_vars PROVE TypeOK'
  OBVIOUS
<1>1. CASE FillBegin
  <2>1. NextSlot \in Slots
    BY <1>1, CapacityAssumption, BoundAssumption DEF FillBegin, NextSlot, Slots, TypeOK
  <2>2. step' \in 0..MaxStep
    BY <1>1, BoundAssumption DEF FillBegin, TypeOK
  <2>3. filling' \in Frame
    BY <1>1, <2>1, <2>2 DEF FillBegin, Frame
  <2>4. content' \in [Slots -> 0..MaxStep]
    BY <1>1, <2>1, BoundAssumption DEF FillBegin, TypeOK
  <2>5. cursor' \in IF Capacity = 0 THEN {0} ELSE 0..Capacity - 1
    BY <1>1, CursorWraps, CapacityAssumption DEF FillBegin, TypeOK
  <2> QED BY <1>1, <2>2, <2>3, <2>4, <2>5 DEF FillBegin, TypeOK, hook, readers
<1>2. CASE FillEnd
  <2>1. content' \in [Slots -> 0..MaxStep]
    BY <1>2 DEF FillEnd, TypeOK, Frame
  <2> QED BY <1>2, <2>1 DEF FillEnd, TypeOK, hook, readers
<1>3. CASE SetPrevious
  BY <1>3 DEF SetPrevious, TypeOK, readers
<1>4. CASE SetPublished
  BY <1>4 DEF SetPublished, TypeOK, readers
<1>5. ASSUME NEW r \in Interpolators, Interpolate(r) PROVE TypeOK'
  <2>1. r \in Readers
    BY DEF Readers
  <2>2. CASE ReadPrevious(r)
    BY <2>1, <2>2, EmptyIsFrame DEF ReadPrevious, TypeOK, ring, hook, Pair
  <2>3. CASE ReadPublished(r)
    BY <2>1, <2>3 DEF ReadPublished, TypeOK, ring, hook, Pair
  <2>4. CASE AlphaPrevious(r)
    BY <2>1, <2>4, EmptyIsFrame DEF AlphaPrevious, TypeOK, ring, hook, Pair
  <2>5. CASE AlphaPublished(r)
    BY <2>1, <2>5 DEF AlphaPublished, TypeOK, ring, hook, Pair
  <2>6. CASE Release(r, "blend")
    BY <2>1, <2>6, EmptyIsFrame DEF Release, TypeOK, ring, hook
  <2> QED BY <1>5, <2>2, <2>3, <2>4, <2>5, <2>6 DEF Interpolate
<1>6. ASSUME NEW r \in Viewers, View(r) PROVE TypeOK'
  <2>1. r \in Readers
    BY DEF Readers
  <2>2. CASE PairPublished(r)
    BY <2>1, <2>2, EmptyIsFrame DEF PairPublished, TypeOK, ring, hook, Pair
  <2>3. CASE PairPrevious(r)
    BY <2>1, <2>3 DEF PairPrevious, TypeOK, ring, hook, Pair
  <2>4. CASE Release(r, "pair")
    BY <2>1, <2>4, EmptyIsFrame DEF Release, TypeOK, ring, hook
  <2> QED BY <1>6, <2>2, <2>3, <2>4 DEF View
<1>7. CASE UNCHANGED vars
  BY <1>7 DEF TypeOK, vars, ring, hook, readers
<1> QED BY <1>1, <1>2, <1>3, <1>4, <1>5, <1>6, <1>7 DEF Next, Tick

\* Every variable keeps its type, whatever the capacity.
THEOREM TypeCorrect == Spec => []TypeOK
<1>1. Init => TypeOK
  BY EmptyIsFrame, BoundAssumption, CapacityAssumption DEF Init, TypeOK, Slots
<1>2. TypeOK /\ [Next]_vars => TypeOK'
  BY TypeStep
<1> QED BY <1>1, <1>2, PTL DEF Spec

-----------------------------------------------------------------------------
(* The ring.  Dist(s) is how many Ticks ago the cursor passed slot s, from *)
(* 1 for the slot filled last to Capacity for the one filled next.  The    *)
(* invariant: each slot holds the step filled Dist(s) Ticks ago, and a     *)
(* frame of the last Capacity steps aliases the slot at its own distance.  *)
(* Neither follows from the two properties: without the distances nothing  *)
(* says that the slot a Tick takes is not that of a frame still in use.    *)

Dist(s) == IF s < cursor THEN cursor - s ELSE cursor - s + Capacity

\* What the arrays of slot s hold when Fill is not in them.
Due(s) == IF Dist(s) <= step THEN step + 1 - Dist(s) ELSE 0

SlotsInv ==
  \A s \in Slots : content[s] = IF phase = "fill" /\ s = filling.slot THEN 0 ELSE Due(s)

\* f was filled, and its slot has not come round again within the ring.
Placed(f) ==
  /\ f.slot \in Slots /\ f.step \in 1..step
  /\ step - f.step < Capacity => Dist(f.slot) = step + 1 - f.step

\* A frame a reader can hold is one that Fill has finished.
Published(f) == f.step = 0 \/ (Placed(f) /\ (phase = "fill" => f.step < step))

FillingInv == phase # "idle" => Placed(filling) /\ filling.step = step

HookInv ==
  /\ Published(previous) /\ Published(published)
  /\ published.step = IF phase = "idle" THEN step ELSE step - 1
  /\ previous.step =
       CASE phase = "idle" -> IF step = 0 THEN 0 ELSE step - 1
         [] phase \in {"fill", "filled"} -> IF step = 1 THEN 0 ELSE step - 2
         [] phase = "retained" -> step - 1
  /\ phase # "idle" => step >= 1

HeldInv == \A r \in Readers : Published(held[r].prev) /\ Published(held[r].cur)

RingInv == TypeOK /\ SlotsInv /\ FillingInv /\ HookInv /\ HeldInv

LEMMA DistRange ==
  ASSUME TypeOK, Capacity # 0, NEW s \in Slots
  PROVE  Dist(s) \in 1..Capacity /\ (Dist(s) = Capacity <=> s = cursor)
BY CapacityAssumption DEF TypeOK, Slots, Dist

\* A Tick's claim of a slot moves every other slot one further away.
LEMMA DistAdvances ==
  ASSUME TypeOK, Capacity # 0, FillBegin, NEW s \in Slots
  PROVE  Dist(s)' = IF s = cursor THEN 1 ELSE Dist(s) + 1
<1>1. cursor' = IF cursor + 1 = Capacity THEN 0 ELSE cursor + 1
  BY CursorWraps DEF FillBegin, TypeOK
<1> QED BY <1>1, CapacityAssumption DEF TypeOK, Slots, Dist

LEMMA EmptyPublished == Published(Empty) /\ Published(NoPair.prev) /\ Published(NoPair.cur)
BY DEF Published, Empty, NoPair

\* A finished frame stays placed when a Tick claims the next slot.
LEMMA PlacedPersists ==
  ASSUME TypeOK, Capacity # 0, FillBegin, NEW f \in Frame, Published(f)
  PROVE  Published(f)'
<1>1. CASE f.step = 0
  BY <1>1 DEF Published
<1>2. CASE Placed(f)
  <2>1. step' = step + 1 /\ step \in Nat /\ Capacity \in Nat
    BY CapacityAssumption, BoundAssumption DEF FillBegin, TypeOK
  <2>2. f.slot \in Slots /\ f.step \in 1..step
    BY <1>2 DEF Placed
  <2>3. Dist(f.slot) \in 1..Capacity /\ (Dist(f.slot) = Capacity <=> f.slot = cursor)
    BY <2>2, DistRange
  <2>4. Dist(f.slot)' = IF f.slot = cursor THEN 1 ELSE Dist(f.slot) + 1
    BY <2>2, DistAdvances
  <2>5. ASSUME step' - f.step < Capacity PROVE Dist(f.slot)' = step' + 1 - f.step
    <3>1. Dist(f.slot) = step + 1 - f.step
      BY <1>2, <2>1, <2>2, <2>5 DEF Placed
    <3> QED BY <2>1, <2>2, <2>3, <2>4, <2>5, <3>1
  <2> QED BY <2>1, <2>2, <2>5 DEF Published, Placed
<1> QED BY <1>1, <1>2 DEF Published

\* The other actions move neither the cursor nor the step.
LEMMA PlacedUnchanged ==
  ASSUME TypeOK, UNCHANGED <<step, cursor>>, phase' = "fill" => phase = "fill",
         NEW f \in Frame, Published(f)
  PROVE  Published(f)'
BY DEF Published, Placed, Dist

LEMMA RingInit == ASSUME Init, Capacity # 0 PROVE RingInv
<1>1. TypeOK
  BY EmptyIsFrame, BoundAssumption, CapacityAssumption DEF Init, TypeOK, Slots
<1>2. SlotsInv
  BY <1>1, DistRange DEF Init, SlotsInv, Due
<1>3. HookInv
  BY EmptyPublished DEF Init, HookInv, Empty
<1>4. HeldInv
  BY EmptyPublished DEF Init, HeldInv
<1> QED BY <1>1, <1>2, <1>3, <1>4 DEF RingInv, FillingInv, Init

LEMMA RingStep ==
  ASSUME RingInv, Capacity # 0, [Next]_vars
  PROVE  RingInv'
<1>1. TypeOK /\ TypeOK'
  BY TypeStep DEF RingInv
<1>2. step \in Nat /\ Capacity \in Nat \ {0, 1}
  BY <1>1, CapacityAssumption, BoundAssumption DEF TypeOK
<1>3. CASE FillBegin
  <2>1. NextSlot = cursor /\ cursor \in Slots /\ step' = step + 1 /\ phase = "idle" /\ phase' = "fill"
    BY <1>1, <1>2, <1>3 DEF FillBegin, NextSlot, TypeOK, Slots
  <2>2. ASSUME NEW s \in Slots PROVE Dist(s)' = IF s = cursor THEN 1 ELSE Dist(s) + 1
    BY <1>1, <1>3, <2>2, DistAdvances
  <2>3. SlotsInv'
    <3> SUFFICES ASSUME NEW s \in Slots
                 PROVE  content'[s] = IF s = filling'.slot THEN 0 ELSE Due(s)'
      BY <2>1 DEF SlotsInv
    <3>1. filling'.slot = cursor /\ content' = [content EXCEPT ![cursor] = 0]
      BY <1>3, <2>1 DEF FillBegin
    <3>2. CASE s = cursor
      BY <1>1, <2>1, <3>1, <3>2 DEF TypeOK
    <3>3. CASE s # cursor
      <4>1. content'[s] = Due(s)
        BY <1>1, <2>1, <3>1, <3>3 DEF TypeOK, RingInv, SlotsInv
      <4>2. Dist(s) \in Nat
        BY <1>1, <1>2, DistRange
      <4>3. Due(s)' = Due(s)
        BY <1>2, <2>1, <2>2, <3>3, <4>2 DEF Due
      <4> QED BY <3>1, <3>3, <4>1, <4>3
    <3> QED BY <3>2, <3>3
  <2>4. FillingInv'
    <3>1. filling' = [slot |-> cursor, step |-> step + 1]
      BY <1>3, <2>1 DEF FillBegin
    <3> QED BY <1>2, <2>1, <2>2, <3>1 DEF FillingInv, Placed
  <2>5. HookInv'
    <3>1. Published(previous)' /\ Published(published)'
      <4>1. UNCHANGED <<previous, published>>
        BY <1>3 DEF FillBegin, hook
      <4> QED BY <1>1, <1>3, <4>1, PlacedPersists DEF TypeOK, RingInv, HookInv
    <3> QED BY <1>2, <1>3, <2>1, <3>1 DEF FillBegin, hook, RingInv, HookInv
  <2>6. HeldInv'
    <3> SUFFICES ASSUME NEW r \in Readers PROVE (Published(held[r].prev) /\ Published(held[r].cur))'
      BY DEF HeldInv
    <3>1. held[r].prev \in Frame /\ held[r].cur \in Frame /\ held' = held
      BY <1>1, <1>3 DEF TypeOK, Pair, FillBegin, readers
    <3> QED BY <1>1, <1>3, <3>1, PlacedPersists DEF RingInv, HeldInv
  <2> QED BY <1>1, <2>3, <2>4, <2>5, <2>6 DEF RingInv
<1>4. CASE FillEnd
  <2>1. UNCHANGED <<step, cursor, filling, previous, published, held>> /\ phase = "fill" /\ phase' = "filled"
    BY <1>4 DEF FillEnd, hook, readers
  <2>2. \A f \in Frame : Published(f) => Published(f)'
    BY <1>1, <2>1, PlacedUnchanged
  <2>3. SlotsInv'
    <3>1. Placed(filling) /\ filling.step = step
      BY <2>1 DEF RingInv, FillingInv
    <3>2. Due(filling.slot) = step
      BY <1>2, <3>1 DEF Placed, Due
    <3> QED BY <1>1, <1>4, <2>1, <3>1, <3>2 DEF FillEnd, TypeOK, RingInv, SlotsInv, Due, Dist
  <2>4. FillingInv' /\ HookInv'
    BY <1>1, <2>1, <2>2 DEF TypeOK, RingInv, FillingInv, HookInv, Placed, Dist
  <2>5. HeldInv'
    BY <1>1, <2>1, <2>2 DEF TypeOK, Pair, RingInv, HeldInv
  <2> QED BY <1>1, <2>3, <2>4, <2>5 DEF RingInv
<1>5. CASE SetPrevious \/ SetPublished
  <2>1. UNCHANGED <<step, cursor, content, filling, held>> /\ phase # "fill" /\ phase' # "fill" /\ phase # "idle"
    BY <1>5 DEF SetPrevious, SetPublished, readers
  <2>2. \A f \in Frame : Published(f) => Published(f)'
    BY <1>1, <2>1, PlacedUnchanged
  <2>3. Placed(filling) /\ filling.step = step /\ Published(filling)
    BY <2>1 DEF RingInv, FillingInv, Published
  <2>4. SlotsInv' /\ FillingInv'
    BY <2>1 DEF RingInv, SlotsInv, FillingInv, Due, Dist, Placed
  <2>5. HookInv'
    <3>1. CASE SetPrevious
      BY <1>1, <1>2, <2>1, <2>2, <3>1 DEF SetPrevious, TypeOK, RingInv, HookInv
    <3>2. CASE SetPublished
      BY <1>1, <1>2, <2>1, <2>2, <2>3, <3>2 DEF SetPublished, TypeOK, RingInv, HookInv
    <3> QED BY <1>5, <3>1, <3>2
  <2>6. HeldInv'
    BY <1>1, <2>1, <2>2 DEF TypeOK, Pair, RingInv, HeldInv
  <2> QED BY <1>1, <2>4, <2>5, <2>6 DEF RingInv
<1>6. ASSUME UNCHANGED <<ring, hook>>,
             \A r \in Readers : held'[r].prev \in {held[r].prev, previous, Empty}
                             /\ held'[r].cur \in {held[r].cur, published, Empty}
      PROVE  RingInv'
  <2>1. SlotsInv' /\ FillingInv' /\ HookInv'
    BY <1>6 DEF ring, hook, RingInv, SlotsInv, FillingInv, HookInv, Published, Placed, Due, Dist
  <2>2. HeldInv'
    BY <1>6, EmptyPublished, ZenonT(60)
    DEF ring, hook, RingInv, HookInv, HeldInv, Published, Placed, Dist
  <2> QED BY <1>1, <2>1, <2>2 DEF RingInv
<1>7. ASSUME NEW r \in Readers, Interpolate(r) \/ View(r) PROVE RingInv'
  <2>1. CASE ReadPrevious(r) \/ PairPublished(r)
    BY <1>1, <1>6, <2>1 DEF ReadPrevious, PairPublished, TypeOK
  <2>2. CASE ReadPublished(r)
    BY <1>1, <1>6, <2>2 DEF ReadPublished, TypeOK, Pair
  <2>3. CASE PairPrevious(r)
    BY <1>1, <1>6, <2>3 DEF PairPrevious, TypeOK, Pair
  <2>4. CASE AlphaPrevious(r) \/ AlphaPublished(r)
    BY <1>1, <1>6, <2>4 DEF AlphaPrevious, AlphaPublished
  <2>5. CASE Release(r, "blend") \/ Release(r, "pair")
    BY <1>1, <1>6, <2>5 DEF Release, TypeOK, NoPair
  <2> QED BY <1>7, <2>1, <2>2, <2>3, <2>4, <2>5 DEF Interpolate, View
<1>8. CASE UNCHANGED vars
  BY <1>6, <1>8 DEF vars, readers
<1> QED BY <1>3, <1>4, <1>5, <1>7, <1>8 DEF Next, Tick, Readers

\* A placed frame of the last Capacity steps still has its arrays to itself.
LEMMA RecentIsIntact ==
  ASSUME RingInv, Capacity # 0, NEW f \in Frame, Published(f), step - f.step < Capacity
  PROVE  Intact(f)
<1>1. CASE f.step = 0
  BY <1>1 DEF Intact
<1>2. CASE f.step # 0
  <2>1. Placed(f) /\ (phase = "fill" => f.step < step) /\ f.slot \in Slots /\ f.step \in 1..step
    BY <1>2 DEF Published, Placed
  <2>2. step \in Nat /\ Capacity \in Nat
    BY CapacityAssumption, BoundAssumption DEF RingInv, TypeOK
  <2>3. Dist(f.slot) = step + 1 - f.step
    BY <2>1 DEF Placed
  <2>4. ~(phase = "fill" /\ f.slot = filling.slot)
    <3> SUFFICES ASSUME phase = "fill", f.slot = filling.slot PROVE FALSE
      OBVIOUS
    <3>1. Dist(filling.slot) = 1
      BY <2>2, CapacityAssumption DEF RingInv, FillingInv, Placed
    <3> QED BY <2>1, <2>2, <2>3, <3>1
  <2>5. Due(f.slot) = f.step
    BY <2>1, <2>2, <2>3 DEF Due
  <2> QED BY <2>1, <2>4, <2>5 DEF RingInv, SlotsInv, Intact
<1> QED BY <1>1, <1>2

\* The documented validity window of a retained frame, for every pool capacity
\* and every reader: it outlives capacity-1 further Ticks.
THEOREM RetainedFrames == ASSUME Capacity # 0 PROVE Spec => []HeldFrameIntact
<1>1. RingInv => HeldFrameIntact
  <2> SUFFICES ASSUME RingInv, NEW r \in Readers, NEW f \in {held[r].prev, held[r].cur},
                      step - f.step <= Capacity - 1
               PROVE  Intact(f)
    BY CapacityAssumption DEF HeldFrameIntact
  <2>1. f \in Frame /\ Published(f)
    BY DEF RingInv, TypeOK, Pair, HeldInv
  <2>2. step - f.step < Capacity
    BY <2>1, CapacityAssumption, BoundAssumption DEF RingInv, TypeOK, Frame
  <2> QED BY <2>1, <2>2, RecentIsIntact
<1> QED BY <1>1, RingInit, RingStep, PTL DEF Spec

\* With room for a third frame (the default capacity) the pair the runner
\* offers is never recycled under a reader's eyes, at any moment of a Tick.
THEOREM HookFrames == ASSUME Capacity > 2 PROVE Spec => []HookFramesIntact
<1>1. Capacity # 0 /\ Capacity \in Nat
  BY CapacityAssumption
<1>2. RingInv => HookFramesIntact
  <2> SUFFICES ASSUME RingInv PROVE Intact(previous) /\ Intact(published)
    BY DEF HookFramesIntact
  <2>1. previous \in Frame /\ published \in Frame /\ Published(previous) /\ Published(published)
    BY DEF RingInv, TypeOK, HookInv
  <2>2. step - previous.step < Capacity /\ step - published.step < Capacity
    BY <1>1, BoundAssumption DEF RingInv, TypeOK, HookInv
  <2> QED BY <1>1, <2>1, <2>2, RecentIsIntact
<1>3. Init => RingInv
  BY <1>1, RingInit
<1>4. RingInv /\ [Next]_vars => RingInv'
  BY <1>1, RingStep
<1> QED BY <1>2, <1>3, <1>4, PTL DEF Spec

-----------------------------------------------------------------------------
(* The two references, with a pool of any capacity or none.  Where they    *)
(* stand within a Tick bounds what an interpolating reader can pair: what  *)
(* it took from `previous' is never newer than `published', then or later. *)

StepsInv ==
  /\ phase # "idle" => filling.step = step /\ step >= 1
  /\ published.step = IF phase = "idle" THEN step ELSE step - 1
  /\ previous.step =
       CASE phase = "idle" -> IF step = 0 THEN 0 ELSE step - 1
         [] phase \in {"fill", "filled"} -> IF step = 1 THEN 0 ELSE step - 2
         [] phase = "retained" -> step - 1

TornInv ==
  \A r \in Interpolators :
    /\ at[r] = "first" => held[r].prev.step <= published.step
    /\ at[r] \in {"pair", "alpha", "blend"} => held[r].prev.step <= held[r].cur.step

HookPairInv == TypeOK /\ StepsInv /\ TornInv

LEMMA HookPairInit == Init => HookPairInv
<1>1. Init => TypeOK
  BY EmptyIsFrame, BoundAssumption, CapacityAssumption DEF Init, TypeOK, Slots
<1> QED BY <1>1 DEF Init, Empty, HookPairInv, StepsInv, TornInv, Readers

LEMMA HookPairStep == ASSUME HookPairInv, [Next]_vars PROVE HookPairInv'
<1>1. TypeOK /\ TypeOK' /\ StepsInv /\ TornInv /\ Interpolators \cap Viewers = {}
  BY TypeStep, ReadersAssumption DEF HookPairInv
<1>2. /\ step \in Nat /\ previous.step \in Nat /\ published.step \in Nat /\ published'.step \in Nat
      /\ \A r \in Interpolators : held[r].prev.step \in Nat /\ held[r].cur.step \in Nat
  BY <1>1, BoundAssumption DEF TypeOK, Frame, Pair, Readers
<1>3. ASSUME Tick PROVE HookPairInv'
  <2>1. StepsInv' /\ published.step <= published'.step
    <3>1. CASE FillBegin
      BY <1>1, <1>2, <3>1 DEF FillBegin, hook, StepsInv
    <3>2. CASE FillEnd
      BY <1>1, <1>2, <3>2 DEF FillEnd, hook, StepsInv
    <3>3. CASE SetPrevious
      BY <1>1, <1>2, <3>3 DEF SetPrevious, StepsInv
    <3>4. CASE SetPublished
      BY <1>1, <1>2, <3>4 DEF SetPublished, StepsInv
    <3> QED BY <1>3, <3>1, <3>2, <3>3, <3>4 DEF Tick
  <2>2. UNCHANGED <<at, held>>
    BY <1>3 DEF Tick, FillBegin, FillEnd, SetPrevious, SetPublished, readers
  <2>3. TornInv'
    BY <1>1, <1>2, <2>1, <2>2 DEF TornInv
  <2> QED BY <1>1, <2>1, <2>3 DEF HookPairInv
<1>4. ASSUME UNCHANGED <<ring, hook>> PROVE StepsInv'
  BY <1>1, <1>4 DEF ring, hook, StepsInv
<1>5. ASSUME NEW r \in Interpolators, Interpolate(r) PROVE HookPairInv'
  <2>1. UNCHANGED <<ring, hook>> /\ r \in Readers
    BY <1>5 DEF Interpolate, ReadPrevious, ReadPublished, AlphaPrevious, AlphaPublished, Release, Readers
  <2>2. previous.step <= published.step
    BY <1>1, <1>2 DEF StepsInv, TypeOK
  <2>3. \A u \in Interpolators \ {r} : at'[u] = at[u] /\ held'[u] = held[u]
    BY <1>1, <1>5 DEF Interpolate, ReadPrevious, ReadPublished, AlphaPrevious, AlphaPublished, Release,
                      TypeOK, Readers
  <2>4. /\ at'[r] = "first" => held'[r].prev.step <= published'.step
        /\ at'[r] \in {"pair", "alpha", "blend"} => held'[r].prev.step <= held'[r].cur.step
    <3>1. CASE ReadPrevious(r)
      BY <1>1, <2>1, <2>2, <3>1 DEF ReadPrevious, TypeOK, hook
    <3>2. CASE ReadPublished(r)
      BY <1>1, <2>1, <3>2 DEF ReadPublished, TypeOK, hook, Pair, TornInv
    <3>3. CASE AlphaPrevious(r) \/ AlphaPublished(r)
      BY <1>1, <2>1, <3>3 DEF AlphaPrevious, AlphaPublished, TypeOK, TornInv
    <3>4. CASE Release(r, "blend")
      BY <1>1, <2>1, <3>4 DEF Release, TypeOK
    <3> QED BY <1>5, <3>1, <3>2, <3>3, <3>4 DEF Interpolate
  <2>5. TornInv'
    BY <1>1, <2>1, <2>3, <2>4 DEF TornInv, hook
  <2> QED BY <1>1, <1>4, <2>1, <2>5 DEF HookPairInv
<1>6. ASSUME NEW r \in Viewers, View(r) PROVE HookPairInv'
  <2>1. UNCHANGED <<ring, hook>>
    BY <1>6 DEF View, PairPublished, PairPrevious, Release
  <2>2. \A u \in Interpolators : at'[u] = at[u] /\ held'[u] = held[u]
    <3>1. \A u \in Interpolators : u # r /\ u \in Readers
      BY <1>1 DEF Readers
    <3> QED BY <1>1, <1>6, <3>1 DEF View, PairPublished, PairPrevious, Release, TypeOK
  <2> QED BY <1>1, <1>4, <2>1, <2>2 DEF HookPairInv, TornInv, hook
<1>7. CASE UNCHANGED vars
  BY <1>1, <1>4, <1>7 DEF vars, readers, hook, HookPairInv, TornInv
<1> QED BY <1>3, <1>5, <1>6, <1>7 DEF Next

\* Between two Ticks the hook offers the last two steps, pool or no pool.
THEOREM LastTwoSteps == Spec => []HookIsLastTwoSteps
<1>1. HookPairInv => HookIsLastTwoSteps
  BY DEF HookPairInv, StepsInv, HookIsLastTwoSteps
<1> QED BY <1>1, HookPairInit, HookPairStep, PTL DEF Spec

\* An interpolating reader never pairs a frame with an older one, however many
\* Ticks fall between its two reads.
THEOREM NeverBackwards == Spec => []TornPairOnlyWidens
<1>1. HookPairInv => TornPairOnlyWidens
  BY DEF HookPairInv, TornInv, TornPairOnlyWidens
<1> QED BY <1>1, HookPairInit, HookPairStep, PTL DEF Spec
=============================================================================
