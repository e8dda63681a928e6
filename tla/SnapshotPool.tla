---------------------------- MODULE SnapshotPool ----------------------------
(***************************************************************************)
(* The publishing half of Sim.Core/SimulationRunner.cs: Tick captures the  *)
(* engine's read state into one set of a ring of reusable arrays and then  *)
(* hands the frame to the host threads through two volatile references,    *)
(* `previous' and `published', without a lock.  Two kinds of reader take   *)
(* them: TryInterpolateVehicle, which reads the older one first, and       *)
(* EngineHost.SnapshotPair (Sim.Viewer.Core), which reads the newer first. *)
(*                                                                         *)
(* A frame is the step it shows and the slot of the ring whose arrays it   *)
(* aliases.  content[s] is the step the arrays of slot s hold, 0 while     *)
(* Fill is writing them or before it first did.                            *)
(***************************************************************************)
EXTENDS Integers

CONSTANTS
  Capacity,       \* EnableSnapshotPool(capacity); 0 when it was not called
  Interpolators,  \* threads in TryInterpolateVehicle
  Viewers,        \* threads in EngineHost.SnapshotPair
  MaxStep         \* bound: Ticks

Readers == Interpolators \cup Viewers
Slots   == IF Capacity = 0 THEN 1..MaxStep ELSE 0..Capacity - 1

ASSUME CapacityAssumption == Capacity \in Nat /\ Capacity # 1
ASSUME BoundAssumption    == MaxStep \in Nat
ASSUME ReadersAssumption  == Interpolators \cap Viewers = {}

VARIABLES
  step,       \* the engine's StepCount
  cursor,     \* _poolCursor
  content,    \* the step each slot's arrays hold
  phase,      \* where the ticking thread stands in Tick
  filling,    \* the frame Tick is building, its local `snap'
  previous, published,  \* _previous and _published
  at,         \* where each reader stands
  held,       \* the pair of frames each reader holds
  alphaPair   \* the pair InterpolationAlpha read for itself

ring    == <<step, cursor, content, phase, filling>>
hook    == <<previous, published>>
readers == <<at, held, alphaPair>>
vars    == <<ring, hook, readers>>

Empty == [slot |-> -1, step |-> 0]   \* SimulationSnapshot.Empty
Frame == [slot : Slots \cup {-1}, step : 0..MaxStep]
NoPair == [prev |-> Empty, cur |-> Empty]

Init ==
  /\ step = 0 /\ cursor = 0
  /\ content = [s \in Slots |-> 0]
  /\ phase = "idle" /\ filling = Empty
  /\ previous = Empty /\ published = Empty
  /\ at = [r \in Readers |-> "idle"]
  /\ held = [r \in Readers |-> NoPair]
  /\ alphaPair = [r \in Readers |-> NoPair]

-----------------------------------------------------------------------------
(* Faulty variants for the mutation runs.                                  *)

\* The cursor is not advanced over the last slot of the ring.
FillBegin_ShortRing ==
  /\ phase = "idle" /\ step < MaxStep
  /\ step' = step + 1
  /\ filling' = [slot |-> IF Capacity = 0 THEN step + 1 ELSE cursor, step |-> step + 1]
  /\ content' = [content EXCEPT ![filling'.slot] = 0]
  /\ cursor' = IF Capacity = 0 THEN cursor ELSE (cursor + 1) % (Capacity - 1)
  /\ phase' = "fill"
  /\ UNCHANGED <<hook, readers>>

\* The cursor runs off the end of the ring.
FillBegin_NoWrap ==
  /\ phase = "idle" /\ step < MaxStep
  /\ step' = step + 1
  /\ filling' = [slot |-> cursor, step |-> step + 1]
  /\ content' = [content EXCEPT ![cursor] = 0]
  /\ cursor' = cursor + 1
  /\ phase' = "fill"
  /\ UNCHANGED <<hook, readers>>

\* The frame is published before Fill has written it.
FillEnd_Late ==
  /\ phase = "fill"
  /\ phase' = "filled"
  /\ UNCHANGED <<step, cursor, content, filling, hook, readers>>

\* The older reference is overwritten with the new frame.
SetPrevious_New ==
  /\ phase = "filled"
  /\ previous' = filling
  /\ phase' = "retained"
  /\ UNCHANGED <<step, cursor, content, filling, published, readers>>

-----------------------------------------------------------------------------
(* Tick, after DrainCommands: Engine.Step, the capture, the two writes.    *)

\* Without a pool, Capture allocates arrays that no other frame aliases.
NextSlot == IF Capacity = 0 THEN step + 1 ELSE cursor

FillBegin ==
  /\ phase = "idle" /\ step < MaxStep
  /\ step' = step + 1
  /\ filling' = [slot |-> NextSlot, step |-> step + 1]
  /\ content' = [content EXCEPT ![NextSlot] = 0]
  /\ cursor' = IF Capacity = 0 THEN cursor ELSE (cursor + 1) % Capacity
  /\ phase' = "fill"
  /\ UNCHANGED <<hook, readers>>

FillEnd ==
  /\ phase = "fill"
  /\ content' = [content EXCEPT ![filling.slot] = filling.step]
  /\ phase' = "filled"
  /\ UNCHANGED <<step, cursor, filling, hook, readers>>

SetPrevious ==
  /\ phase = "filled"
  /\ previous' = published
  /\ phase' = "retained"
  /\ UNCHANGED <<step, cursor, content, filling, published, readers>>

SetPublished ==
  /\ phase = "retained"
  /\ published' = filling
  /\ phase' = "idle"
  /\ UNCHANGED <<step, cursor, content, filling, previous, readers>>

-----------------------------------------------------------------------------
(* TryInterpolateVehicle: _previous, then _published; InterpolationAlpha   *)
(* then reads both again.                                                  *)

ReadPrevious(r) ==
  /\ at[r] = "idle"
  /\ held' = [held EXCEPT ![r] = [prev |-> previous, cur |-> Empty]]
  /\ at' = [at EXCEPT ![r] = "first"]
  /\ UNCHANGED <<ring, hook, alphaPair>>

ReadPublished(r) ==
  /\ at[r] = "first"
  /\ held' = [held EXCEPT ![r].cur = published]
  /\ at' = [at EXCEPT ![r] = "pair"]
  /\ UNCHANGED <<ring, hook, alphaPair>>

AlphaPrevious(r) ==
  /\ at[r] = "pair"
  /\ alphaPair' = [alphaPair EXCEPT ![r] = [prev |-> previous, cur |-> Empty]]
  /\ at' = [at EXCEPT ![r] = "alpha"]
  /\ UNCHANGED <<ring, hook, held>>

AlphaPublished(r) ==
  /\ at[r] = "alpha"
  /\ alphaPair' = [alphaPair EXCEPT ![r].cur = published]
  /\ at' = [at EXCEPT ![r] = "blend"]
  /\ UNCHANGED <<ring, hook, held>>

\* SnapshotPair: the host's lock, which Tick does not take; the newer frame
\* first, the older second.
PairPublished(r) ==
  /\ at[r] = "idle"
  /\ held' = [held EXCEPT ![r] = [prev |-> Empty, cur |-> published]]
  /\ at' = [at EXCEPT ![r] = "first"]
  /\ UNCHANGED <<ring, hook, alphaPair>>

PairPrevious(r) ==
  /\ at[r] = "first"
  /\ held' = [held EXCEPT ![r].prev = previous]
  /\ at' = [at EXCEPT ![r] = "pair"]
  /\ UNCHANGED <<ring, hook, alphaPair>>

\* The reader lets go of its frames, at any later time.
Release(r, label) ==
  /\ at[r] = label
  /\ held' = [held EXCEPT ![r] = NoPair]
  /\ alphaPair' = [alphaPair EXCEPT ![r] = NoPair]
  /\ at' = [at EXCEPT ![r] = "idle"]
  /\ UNCHANGED <<ring, hook>>

-----------------------------------------------------------------------------
Tick == FillBegin \/ FillEnd \/ SetPrevious \/ SetPublished

Interpolate(r) ==
  \/ ReadPrevious(r) \/ ReadPublished(r)
  \/ AlphaPrevious(r) \/ AlphaPublished(r) \/ Release(r, "blend")

View(r) == PairPublished(r) \/ PairPrevious(r) \/ Release(r, "pair")

Next ==
  \/ Tick
  \/ \E r \in Interpolators : Interpolate(r)
  \/ \E r \in Viewers : View(r)

Spec == Init /\ [][Next]_vars

-----------------------------------------------------------------------------
Pair == [prev : Frame, cur : Frame]

TypeOK ==
  /\ step \in 0..MaxStep
  /\ cursor \in IF Capacity = 0 THEN {0} ELSE 0..Capacity - 1
  /\ content \in [Slots -> 0..MaxStep]
  /\ phase \in {"idle", "fill", "filled", "retained"}
  /\ filling \in Frame /\ previous \in Frame /\ published \in Frame
  /\ at \in [Readers -> {"idle", "first", "pair", "alpha", "blend"}]
  /\ held \in [Readers -> Pair] /\ alphaPair \in [Readers -> Pair]

\* The arrays a frame aliases still hold what it was published with.
Intact(f) == f.step = 0 \/ (f.slot \in Slots /\ content[f.slot] = f.step)

\* "A retained reference is valid for capacity-1 further Ticks": whoever holds
\* a frame, however it was read, sees it unchanged until the Capacity-th Tick
\* after the one that published it begins to write; for ever without a pool.
HeldFrameIntact ==
  \A r \in Readers : \A f \in {held[r].prev, held[r].cur} :
    Capacity = 0 \/ step - f.step <= Capacity - 1 => Intact(f)

\* "The runner's own Snapshot/PreviousSnapshot are always within one Tick, so
\* the interpolation hook is unaffected": the two frames a host can read right
\* now are never under Fill's pen.
HookFramesIntact == Intact(previous) /\ Intact(published)

\* Between two Ticks the hook offers the last two steps.
HookIsLastTwoSteps ==
  phase = "idle" =>
    /\ published.step = step
    /\ previous.step = IF step = 0 THEN 0 ELSE step - 1

\* "A rare torn pair only widens the blend": a Tick between the two reads of
\* TryInterpolateVehicle never makes it blend backwards.
TornPairOnlyWidens ==
  \A r \in Interpolators :
    at[r] \in {"pair", "alpha", "blend"} => held[r].prev.step <= held[r].cur.step
=============================================================================
