------------------------- MODULE VehicleSlots_proofs -------------------------
(***************************************************************************)
(* Proofs about VehicleSlots for every network of routes, every number of  *)
(* vehicles, despawns and steps, with and without recycling, teleporting,  *)
(* flows and eviction.                                                     *)
(***************************************************************************)
EXTENDS VehicleSlots, SequenceTheorems, TLAPS

(* Type correctness.                                                       *)

LEMMA RouteEnds ==
  ASSUME NEW r \in Routes
  PROVE  r \in Seq(STRING) /\ Len(r) \in Nat /\ Len(r) > 0
BY RoutesAssumption

LEMMA BuildType ==
  ASSUME TypeOK, built < MaxVehicles, NEW s \in Slots, NEW r \in Routes, NEW host \in BOOLEAN,
         Build(s, r, host)
  PROVE  /\ built' \in 0..MaxVehicles
         /\ veh' \in [1..built' -> Runtime]
         /\ occupant' \in [Slots -> 0..built']
         /\ built' = built + 1
<1>1. built' = built + 1 /\ built' \in 0..MaxVehicles /\ MaxVehicles \in Nat
  BY BoundAssumption DEF Build, TypeOK
<1>2. occupant' \in [Slots -> 0..built']
  BY <1>1 DEF Build, TypeOK
<1>3. [slot |-> s, gen |-> generation[s], def |-> r, depart |-> clock,
       inserted |-> FALSE, arrived |-> FALSE, inTransfer |-> FALSE,
       at |-> 1, known |-> host, wanted |-> r] \in Runtime
  BY BoundAssumption DEF TypeOK, Runtime
<1>4. \A n \in 1..built' : n <= built => veh[n] \in Runtime
  BY <1>1 DEF TypeOK
<1>5. veh' \in [1..built' -> Runtime]
  BY <1>1, <1>3, <1>4 DEF Build
<1> QED BY <1>1, <1>2, <1>5

LEMMA ExtendType ==
  ASSUME TypeOK, built < MaxVehicles, NEW r \in Routes, NEW host \in BOOLEAN, Extend(r, host)
  PROVE  /\ built' \in 0..MaxVehicles /\ built' = built + 1
         /\ veh' \in [1..built' -> Runtime]
         /\ occupant' \in [Slots -> 0..built']
         /\ count' \in 0..built'
         /\ UNCHANGED <<free, baseline>>
<1>1. count + 1 \in Slots /\ count + 1 \in 0..built + 1
  BY BoundAssumption DEF TypeOK, Slots
<1> QED BY <1>1, BuildType DEF Extend

LEMMA ReuseType ==
  ASSUME TypeOK, built < MaxVehicles, free # <<>>, NEW r \in Routes, Reuse(r)
  PROVE  /\ built' \in 0..MaxVehicles /\ built' = built + 1
         /\ veh' \in [1..built' -> Runtime]
         /\ occupant' \in [Slots -> 0..built']
         /\ count' \in 0..built'
         /\ free' \in Seq(Slots)
         /\ baseline' \in [Slots -> {0, Pending, Active, Arrived}]
<1>1. free \in Seq(Slots) /\ Len(free) \in Nat /\ Len(free) > 0
  BY DEF TypeOK
<1>2. free[Len(free)] \in Slots
  BY <1>1
<1>3. free' \in Seq(Slots)
  BY <1>1 DEF Reuse
<1>4. baseline' \in [Slots -> {0, Pending, Active, Arrived}]
  BY <1>2 DEF Reuse, TypeOK
<1>5. count' \in 0..built + 1
  BY DEF Reuse, TypeOK
<1> QED BY <1>2, <1>3, <1>4, <1>5, BuildType DEF Reuse

LEMMA ReplaceType ==
  ASSUME TypeOK, NEW v \in 1..built, NEW r \in Routes, Replace(v, r)
  PROVE  /\ veh' \in [1..built -> Runtime]
         /\ effective' \in [Slots -> Routes \cup {NoRoute}]
<1>1. veh[v] \in Runtime
  BY DEF TypeOK
<1>2. [veh[v] EXCEPT !.at = 1, !.wanted = r] \in Runtime
  BY <1>1 DEF Runtime
<1>3. veh' = [veh EXCEPT ![v] = [veh[v] EXCEPT !.at = 1, !.wanted = r]]
  BY DEF Replace, TypeOK
<1>4. veh' \in [1..built -> Runtime]
  BY <1>2, <1>3 DEF TypeOK
<1>5. effective' \in [Slots -> Routes \cup {NoRoute}]
  BY <1>1 DEF Replace, TypeOK
<1> QED BY <1>4, <1>5

LEMMA TypeInit == Init => TypeOK
<1> SUFFICES ASSUME Init PROVE TypeOK
  OBVIOUS
<1>1. veh \in [1..built -> Runtime]
  BY DEF Init
<1>2. DOMAIN queue \subseteq 1..built /\ \A n \in DOMAIN queue : queue[n] \in Queued
  BY DEF Init
<1>3. told \in [Vehicles -> Seq({Active, Arrived})]
  BY DEF Init
<1> QED BY <1>1, <1>2, <1>3, BoundAssumption DEF Init, TypeOK

\* Every slot in use has an occupant, and a step that has begun is to be counted.
Shape ==
  /\ \A s \in 1..count : occupant[s] \in 1..built
  /\ phase # "host" => clock < MaxSteps

LEMMA ShapeInit == Init => Shape
BY DEF Init, Shape

LEMMA ActiveType ==
  ASSUME TypeOK, Shape
  PROVE  /\ 1..count \subseteq Slots
         /\ Occupants \subseteq 1..built /\ ActiveVehicles \subseteq 1..built
         /\ Due \subseteq 1..built
<1>1. 1..count \subseteq Slots
  BY BoundAssumption DEF TypeOK, Slots
<1> QED BY <1>1 DEF Shape, Occupants, ActiveVehicles, Due

\* The updates of an object the steps are made of.
LEMMA UpdateType ==
  ASSUME NEW v \in Runtime, NEW at \in Nat
  PROVE  /\ [v EXCEPT !.inserted = TRUE] \in Runtime
         /\ [v EXCEPT !.inserted = TRUE, !.arrived = TRUE] \in Runtime
         /\ [v EXCEPT !.inTransfer = FALSE, !.at = at] \in Runtime
         /\ [v EXCEPT !.inTransfer = TRUE] \in Runtime
         /\ [v EXCEPT !.arrived = TRUE] \in Runtime
         /\ [v EXCEPT !.at = v.at + 1] \in Runtime
         /\ [v EXCEPT !.known = TRUE] \in Runtime
<1>1. [v EXCEPT !.inserted = TRUE] \in Runtime /\ [v EXCEPT !.arrived = TRUE] \in Runtime
  BY DEF Runtime
<1>2. [v EXCEPT !.inserted = TRUE, !.arrived = TRUE] \in Runtime
  BY DEF Runtime
<1>3. [v EXCEPT !.inTransfer = FALSE, !.at = at] \in Runtime
  BY DEF Runtime
<1>4. [v EXCEPT !.inTransfer = TRUE] \in Runtime /\ [v EXCEPT !.known = TRUE] \in Runtime
  BY DEF Runtime
<1>5. [v EXCEPT !.at = v.at + 1] \in Runtime
  BY DEF Runtime
<1> QED BY <1>1, <1>2, <1>3, <1>4, <1>5

\* What the steps that build a vehicle share.
LEMMA GrowType ==
  ASSUME TypeOK, Shape,
         built' \in 0..MaxVehicles, built' = built + 1, veh' \in [1..built' -> Runtime],
         occupant' \in [Slots -> 0..built'], count' \in 0..built', free' \in Seq(Slots),
         baseline' \in [Slots -> {0, Pending, Active, Arrived}],
         \A s \in 1..count' : occupant'[s] \in 1..built',
         phase' \in {"host", "insert"}, phase' # "host" => clock < MaxSteps,
         UNCHANGED <<clock, generation, despawns, effective, queue, events, frame, told>>
  PROVE  TypeOK' /\ Shape'
<1>1. 0..built \subseteq 0..built' /\ 1..built \subseteq 1..built'
  BY DEF TypeOK
<1>2. frame' \in [Slots -> 0..built']
  BY <1>1 DEF TypeOK
<1>3. DOMAIN queue' \subseteq 1..built' /\ \A n \in DOMAIN queue' : queue'[n] \in Queued
  BY <1>1 DEF TypeOK
<1>4. TypeOK'
  BY <1>2, <1>3 DEF TypeOK
<1> QED BY <1>4 DEF Shape

LEMMA ExtendGrows ==
  ASSUME TypeOK, Shape, built < MaxVehicles, NEW r \in Routes, NEW host \in BOOLEAN, Extend(r, host),
         phase' \in {"host", "insert"}, phase' # "host" => clock < MaxSteps,
         UNCHANGED <<clock, generation, despawns, effective, queue, events, frame, told>>
  PROVE  TypeOK' /\ Shape'
<1>1. \A s \in 1..count' : occupant'[s] \in 1..built'
  <2>1. count' = count + 1 /\ occupant' = [occupant EXCEPT ![count + 1] = built + 1] /\ count \in Nat
    BY DEF Extend, Build, TypeOK
  <2>2. built' = built + 1 /\ built \in Nat
    BY DEF Extend, Build, TypeOK
  <2>3. count + 1 \in Slots /\ occupant \in [Slots -> 0..built]
    BY BoundAssumption DEF TypeOK, Slots
  <2> QED BY <2>1, <2>2, <2>3 DEF Shape
<1>2. free' \in Seq(Slots) /\ baseline' \in [Slots -> {0, Pending, Active, Arrived}]
  BY DEF Extend, TypeOK
<1> QED BY <1>1, <1>2, ExtendType, GrowType

LEMMA ReuseGrows ==
  ASSUME TypeOK, Shape, built < MaxVehicles, free # <<>>, NEW r \in Routes, Reuse(r),
         phase' = "host",
         UNCHANGED <<clock, generation, despawns, effective, queue, events, frame, told>>
  PROVE  TypeOK' /\ Shape'
<1>1. \A s \in 1..count' : occupant'[s] \in 1..built'
  <2>1. count' = count /\ occupant' = [occupant EXCEPT ![free[Len(free)]] = built + 1]
    BY DEF Reuse, Build
  <2>2. built' = built + 1 /\ built \in Nat /\ count \in Nat
    BY DEF Reuse, Build, TypeOK
  <2>3. occupant \in [Slots -> 0..built] /\ 1..count \subseteq Slots
    BY ActiveType DEF TypeOK
  <2> QED BY <2>1, <2>2, <2>3 DEF Shape
<1> QED BY <1>1, ReuseType, GrowType

\* What the steps that only move vehicles along share: the objects change, but
\* none appears and the table stays.
LEMMA MoveType ==
  ASSUME TypeOK, Shape, veh' \in [1..built -> Runtime],
         UNCHANGED <<clock, built, count, occupant, generation, free, despawns, report>>,
         effective' \in [Slots -> Routes \cup {NoRoute}],
         DOMAIN queue' \subseteq 1..built, \A n \in DOMAIN queue' : queue'[n] \in Queued,
         phase' \in {"host", "flows", "insert", "transfer", "reroute", "move", "jam", "end"},
         phase' # "host" => phase # "host"
  PROVE  TypeOK' /\ Shape'
<1>1. TypeOK'
  BY DEF TypeOK, report
<1>2. Shape'
  BY DEF Shape
<1> QED BY <1>1, <1>2

LEMMA HostType ==
  ASSUME TypeOK, Shape, Host
  PROVE  TypeOK' /\ Shape'
<1>1. ASSUME NEW r \in Routes, SpawnVehicle(r) PROVE TypeOK' /\ Shape'
  <2>1. CASE Recycle /\ free # <<>>
    BY <1>1, <2>1, ReuseGrows DEF SpawnVehicle
  <2>2. CASE ~(Recycle /\ free # <<>>)
    BY <1>1, <2>2, ExtendGrows DEF SpawnVehicle
  <2> QED BY <2>1, <2>2
<1>2. ASSUME NEW n \in DOMAIN veh, Despawn(n) PROVE TypeOK' /\ Shape'
  <2>1. n \in 1..built /\ veh[n].slot \in Slots /\ veh[n].slot \in 1..count
    BY <1>2 DEF Despawn, Resolves, HandleOf, TypeOK, Runtime, Slots
  <2>2. PICK v \in 1..built : v = occupant[veh[n].slot]
    BY <2>1 DEF Shape
  <2>3. [veh[v] EXCEPT !.inserted = TRUE, !.arrived = TRUE] \in Runtime
    BY <2>2, UpdateType DEF TypeOK
  <2>4. veh' = [veh EXCEPT ![v] = [veh[v] EXCEPT !.inserted = TRUE, !.arrived = TRUE]]
    BY <1>2, <2>2 DEF Despawn, TypeOK
  <2>5. veh' \in [1..built -> Runtime]
    BY <2>3, <2>4 DEF TypeOK
  <2>6. generation' \in [Slots -> 0..Generations - 1]
    <3>1. \A g \in 0..Generations - 1 : (g + 1) % Generations \in 0..Generations - 1
      BY BoundAssumption
    <3>2. generation' = [generation EXCEPT ![veh[n].slot] = (@ + 1) % Generations]
      BY <1>2 DEF Despawn
    <3> QED BY <2>1, <3>1, <3>2 DEF TypeOK
  <2>7. free' \in Seq(Slots)
    BY <1>2, <2>1 DEF Despawn, TypeOK
  <2>8. despawns' \in 0..MaxDespawns
    BY <1>2, BoundAssumption, SMTT(30) DEF Despawn, TypeOK
  <2>9. UNCHANGED <<phase, clock, built, count, occupant, effective, queue, report>>
    BY <1>2 DEF Despawn
  <2> QED BY <2>5, <2>6, <2>7, <2>8, <2>9 DEF TypeOK, Shape, report
<1>3. ASSUME NEW n \in DOMAIN veh, NEW r \in Routes, SetDestination(n, r) PROVE TypeOK' /\ Shape'
  <2>1. n \in 1..built /\ veh[n].slot \in 1..count
    BY <1>3 DEF SetDestination, Resolves, HandleOf, TypeOK, Runtime, Slots
  <2>2. occupant[veh[n].slot] \in 1..built
    BY <2>1 DEF Shape
  <2>3. Replace(occupant[veh[n].slot], r)
    BY <1>3 DEF SetDestination
  <2>4. veh' \in [1..built -> Runtime] /\ effective' \in [Slots -> Routes \cup {NoRoute}]
    BY <2>2, <2>3, ReplaceType
  <2>5. DOMAIN queue' \subseteq 1..built /\ \A m \in DOMAIN queue' : queue'[m] \in Queued
    BY <2>3 DEF Replace, TypeOK
  <2> QED BY <1>3, <2>3, <2>4, <2>5, MoveType, ZenonT(30) DEF SetDestination, Replace, TypeOK
<1>4. CASE BeginStep
  BY <1>4 DEF BeginStep, TypeOK, Shape, table, report
<1> QED BY <1>1, <1>2, <1>3, <1>4 DEF Host

LEMMA PublishType ==
  ASSUME TypeOK, Shape, PublishReadState
  PROVE  TypeOK' /\ Shape'
<1>1. /\ UNCHANGED <<built, count, occupant, generation, free, despawns, effective, queue>>
      /\ clock' \in 0..MaxSteps /\ phase' = "host"
  BY BoundAssumption, SMTT(30) DEF PublishReadState, TypeOK, Shape
<1>2. veh' \in [1..built -> Runtime]
  <2>1. \A n \in 1..built : veh[n] \in Runtime /\ [veh[n] EXCEPT !.known = TRUE] \in Runtime
    BY UpdateType DEF TypeOK
  <2> QED BY <2>1 DEF PublishReadState, TypeOK
<1>3. frame' \in [Slots -> 0..built]
  BY DEF PublishReadState, TypeOK
<1>4. \A s : Kind(s) \in {Pending, Active, Arrived}
  BY DEF Kind, Lifecycle
<1>5. baseline' \in [Slots -> {0, Pending, Active, Arrived}]
  BY <1>4 DEF PublishReadState, TypeOK
<1>6. Changed \subseteq Slots /\ \A s \in Changed : Kind(s) \in {Active, Arrived}
  BY <1>4, ActiveType DEF Changed
<1>7. events' \subseteq [handle : Handle, kind : {Active, Arrived}]
  <2>1. \A s \in Changed : [slot |-> s, gen |-> generation[s]] \in Handle
    BY <1>6 DEF TypeOK, Handle
  <2> QED BY <1>6, <2>1 DEF PublishReadState
<1>8. told' \in [Vehicles -> Seq({Active, Arrived})]
  <2>1. \A n \in Vehicles : (\E s \in Changed : occupant[s] = n) => Lifecycle(veh[n]) \in {Active, Arrived}
    BY <1>6 DEF Kind
  <2>2. \A n \in Vehicles : told[n] \in Seq({Active, Arrived})
    BY DEF TypeOK
  <2>3. \A n \in Vehicles : (\E s \in Changed : occupant[s] = n) =>
          Append(told[n], Lifecycle(veh[n])) \in Seq({Active, Arrived})
    BY <2>1, <2>2
  <2> QED BY <2>2, <2>3 DEF PublishReadState
<1>9. TypeOK'
  BY <1>1, <1>2, <1>3, <1>5, <1>7, <1>8 DEF TypeOK
<1> QED BY <1>1, <1>9 DEF Shape

LEMMA StepType ==
  ASSUME TypeOK, Shape, Step
  PROVE  TypeOK' /\ Shape'
<1>0. /\ \A n \in 1..built : veh[n] \in Runtime
      /\ DOMAIN queue \subseteq 1..built /\ \A n \in DOMAIN queue : queue[n] \in Queued
      /\ effective \in [Slots -> Routes \cup {NoRoute}]
      /\ DOMAIN veh = 1..built
  BY DEF TypeOK
<1>1. CASE GenerateProbabilisticFlows
  <2>1. CASE UNCHANGED <<table, baseline>>
    BY <1>1, <2>1 DEF GenerateProbabilisticFlows, table, TypeOK, Shape
  <2>2. ASSUME built < MaxVehicles, NEW r \in Routes, Extend(r, FALSE), UNCHANGED <<generation, despawns>>
        PROVE  TypeOK' /\ Shape'
    BY <1>1, <2>2, ExtendGrows DEF GenerateProbabilisticFlows, Shape
  <2> QED BY <1>1, <2>1, <2>2 DEF GenerateProbabilisticFlows
<1>2. CASE InsertDepartingVehicles
  <2>1. veh' \in [1..built -> Runtime]
    <3>1. \A n \in 1..built : /\ [veh[n] EXCEPT !.inserted = TRUE] \in Runtime
                              /\ [veh[n] EXCEPT !.inserted = TRUE, !.arrived = TRUE] \in Runtime
      BY <1>0, UpdateType
    <3> QED BY <1>0, <1>2, <3>1, ZenonT(30) DEF InsertDepartingVehicles
  <2>2. /\ UNCHANGED <<clock, built, count, occupant, generation, free, despawns, effective, queue, report>>
        /\ phase = "insert" /\ phase' \in {"transfer", "reroute"}
    BY <1>2 DEF InsertDepartingVehicles
  <2> QED BY <1>0, <2>1, <2>2, MoveType
<1>3. CASE ProcessTransferQueue
  <2>0. /\ UNCHANGED <<clock, built, count, occupant, generation, free, despawns, effective, report>>
        /\ phase = "transfer" /\ phase' = "reroute"
    BY <1>3 DEF ProcessTransferQueue
  <2>3. PICK in \in SUBSET DOMAIN queue, hop \in SUBSET DOMAIN queue, gone \in SUBSET DOMAIN queue :
          Transfer(in, hop, gone)
    BY <1>3 DEF ProcessTransferQueue
  <2>1. veh' \in [1..built -> Runtime]
    <3>1. \A n \in DOMAIN queue : [veh[n] EXCEPT !.inTransfer = FALSE, !.at = queue[n].edge] \in Runtime
      BY <1>0, UpdateType DEF Queued
    <3>2. \A n \in 1..built : [veh[n] EXCEPT !.arrived = TRUE] \in Runtime
      BY <1>0, UpdateType
    <3> QED BY <1>0, <2>3, <3>1, <3>2, ZenonT(30) DEF Transfer
  <2>2. DOMAIN queue' \subseteq 1..built /\ \A n \in DOMAIN queue' : queue'[n] \in Queued
    <3>1. DOMAIN queue' \subseteq DOMAIN queue
      BY <2>3 DEF Transfer
    <3>2. \A n \in DOMAIN queue : queue[n].edge \in Nat
      BY <1>0 DEF Queued
    <3>3. \A n \in DOMAIN queue' : queue'[n] \in Queued
      <4> SUFFICES ASSUME NEW n \in DOMAIN queue' PROVE queue'[n] \in Queued
        OBVIOUS
      <4>1. queue'[n] = [edge |-> IF n \in hop THEN queue[n].edge + 1 ELSE queue[n].edge, armed |-> TRUE]
        BY <2>3 DEF Transfer
      <4>2. queue[n].edge \in Nat
        BY <3>1, <3>2
      <4> QED BY <4>1, <4>2 DEF Queued
    <3> QED BY <1>0, <3>1, <3>3
  <2> QED BY <1>0, <2>0, <2>1, <2>2, MoveType
<1>4. CASE UpdateReroutes
  <2>1. CASE UNCHANGED <<clock, table, effective, queue, report>>
    BY <1>4, <2>1 DEF UpdateReroutes, TypeOK, Shape, table, report
  <2>2. ASSUME NEW v \in ActiveVehicles, NEW r \in Routes, Replace(v, r) PROVE TypeOK' /\ Shape'
    <3>1. veh' \in [1..built -> Runtime] /\ effective' \in [Slots -> Routes \cup {NoRoute}]
      BY <2>2, ActiveType, ReplaceType
    <3>2. /\ UNCHANGED <<clock, built, count, occupant, generation, free, despawns, queue, report>>
          /\ phase = "reroute" /\ phase' = "move"
      BY <1>4, <2>2 DEF UpdateReroutes, Replace
    <3> QED BY <1>0, <3>1, <3>2, MoveType
  <2> QED BY <1>4, <2>1, <2>2 DEF UpdateReroutes
<1>5. CASE ExecuteMoves
  <2>1. veh' \in [1..built -> Runtime]
    <3>1. \A n \in 1..built : /\ [veh[n] EXCEPT !.arrived = TRUE] \in Runtime
                              /\ [veh[n] EXCEPT !.at = @ + 1] \in Runtime
      BY <1>0, UpdateType
    <3> QED BY <1>0, <1>5, <3>1, SMTT(30) DEF ExecuteMoves
  <2>2. /\ UNCHANGED <<clock, built, count, occupant, generation, free, despawns, effective, queue, report>>
        /\ phase = "move" /\ phase' \in {"jam", "end"}
    BY <1>5 DEF ExecuteMoves
  <2> QED BY <1>0, <2>1, <2>2, MoveType
<1>6. CASE CheckJamTeleports
  <2>0. /\ UNCHANGED <<clock, built, count, occupant, generation, free, despawns, effective, report>>
        /\ phase = "jam" /\ phase' = "end"
    BY <1>6 DEF CheckJamTeleports
  <2>3. PICK jammed \in SUBSET (1..built), lifted \in SUBSET (1..built) : TeleportVehicle(jammed, lifted)
    BY <1>6, ActiveType DEF CheckJamTeleports
  <2>1. veh' \in [1..built -> Runtime]
    <3>1. \A n \in 1..built : /\ [veh[n] EXCEPT !.arrived = TRUE] \in Runtime
                              /\ [veh[n] EXCEPT !.inTransfer = TRUE] \in Runtime
      BY <1>0, UpdateType
    <3> QED BY <1>0, <2>3, <3>1, SMTT(30) DEF TeleportVehicle
  <2>2. DOMAIN queue' \subseteq 1..built /\ \A n \in DOMAIN queue' : queue'[n] \in Queued
    <3>1. \A n \in 1..built : [edge |-> veh[n].at + 1, armed |-> FALSE] \in Queued
      BY <1>0 DEF Runtime, Queued
    <3> QED BY <1>0, <2>3, <3>1 DEF TeleportVehicle
  <2> QED BY <1>0, <2>0, <2>1, <2>2, MoveType
<1>7. CASE AdvanceAgain
  BY <1>7, BoundAssumption, SMTT(30) DEF AdvanceAgain, TypeOK, Shape, table, report
<1>8. CASE WarmUpEnds
  BY <1>8, BoundAssumption DEF WarmUpEnds, TypeOK, Shape, table, report
<1>9. CASE PublishReadState
  BY <1>9, PublishType
<1> QED BY <1>1, <1>2, <1>3, <1>4, <1>5, <1>6, <1>7, <1>8, <1>9 DEF Step

LEMMA TypeStep == TypeOK /\ Shape /\ [Next]_vars => TypeOK' /\ Shape'
<1> SUFFICES ASSUME TypeOK, Shape, [Next]_vars PROVE TypeOK' /\ Shape'
  OBVIOUS
<1>1. CASE Next
  BY <1>1, HostType, StepType DEF Next
<1>2. CASE UNCHANGED vars
  BY <1>2 DEF vars, table, report, TypeOK, Shape
<1> QED BY <1>1, <1>2

\* The state of the vehicle table keeps its type for any routes, any switches
\* and any number of vehicles, despawns and steps.
THEOREM TypeCorrect == Spec => []TypeOK
BY TypeInit, ShapeInit, TypeStep, PTL DEF Spec

-----------------------------------------------------------------------------
(* Handles and slots, when no generation wraps: 2^16 - 1 despawns in one   *)
(* slot would bring an old handle back to life.                            *)

FewDespawns == MaxDespawns + 1 < Generations

\* A generation counts the despawns of its slot.
Generation == \A s \in Slots : generation[s] \in 1..despawns + 1

\* No handle is younger than its slot; one of the slot's present generation
\* was given out for its present occupant, and a vehicle that is still under
\* way is that occupant.
Handles ==
  \A n \in 1..built :
    LET s == veh[n].slot IN
    /\ s <= count /\ veh[n].gen \in 1..generation[s]
    /\ veh[n].gen = generation[s] => occupant[s] = n
    /\ ~veh[n].arrived => occupant[s] = n /\ veh[n].gen = generation[s]

\* A slot on the free list is there once, and its last occupant is gone and
\* has lost its handle.
FreeList ==
  /\ \A s \in 1..count : veh[occupant[s]].slot = s
  /\ \A i \in 1..Len(free) :
       /\ free[i] \in 1..count
       /\ veh[occupant[free[i]]].arrived
       /\ veh[occupant[free[i]]].gen # generation[free[i]]
  /\ \A i, j \in 1..Len(free) : free[i] = free[j] => i = j

Table == Generation /\ Handles /\ FreeList

LEMMA TableInit == Init => Table
BY BoundAssumption DEF Init, Table, Generation, Handles, FreeList

\* Most steps leave the table alone and only move vehicles along, which never
\* come back from having arrived.
Along ==
  /\ UNCHANGED <<built, count, occupant, generation, free, despawns>>
  /\ \A n \in 1..built : /\ veh'[n].slot = veh[n].slot /\ veh'[n].gen = veh[n].gen
                         /\ veh[n].arrived => veh'[n].arrived

LEMMA AlongKeepsTable == ASSUME TypeOK, Shape, Table, Along PROVE Table'
<1>1. Generation'
  BY DEF Table, Along, Generation
<1>2. Handles'
  <2> SUFFICES ASSUME NEW n \in 1..built
               PROVE  /\ veh'[n].slot <= count' /\ veh'[n].gen \in 1..generation'[veh'[n].slot]
                      /\ veh'[n].gen = generation'[veh'[n].slot] => occupant'[veh'[n].slot] = n
                      /\ ~veh'[n].arrived => /\ occupant'[veh'[n].slot] = n
                                             /\ veh'[n].gen = generation'[veh'[n].slot]
    BY DEF Along, Handles
  <2> QED BY DEF Along, Table, Handles
<1>3. FreeList'
  <2>1. \A i \in 1..Len(free) : free[i] \in 1..count
    BY DEF Table, FreeList
  <2>2. \A i \in 1..Len(free) : occupant[free[i]] \in 1..built
    BY <2>1 DEF Shape
  <2>3. \A s \in 1..count : veh'[occupant'[s]].slot = s
    BY DEF Along, Shape, Table, FreeList
  <2>4. \A i \in 1..Len(free') : /\ free'[i] \in 1..count'
                                 /\ veh'[occupant'[free'[i]]].arrived
                                 /\ veh'[occupant'[free'[i]]].gen # generation'[free'[i]]
    BY <2>2 DEF Along, Table, FreeList
  <2>5. \A i, j \in 1..Len(free') : free'[i] = free'[j] => i = j
    BY DEF Along, Table, FreeList
  <2> QED BY <2>3, <2>4, <2>5 DEF Along, FreeList
<1> QED BY <1>1, <1>2, <1>3 DEF Table

LEMMA ReplaceIsAlong ==
  ASSUME TypeOK, NEW v \in 1..built, NEW r \in Routes, Replace(v, r)
  PROVE  Along
BY SMTT(30) DEF Replace, Along, TypeOK, Runtime

\* A step that builds a vehicle in slot s, whose last occupant has lost its
\* handle if there was one.
LEMMA BuildKeepsHandles ==
  ASSUME TypeOK, Shape, Table, built < MaxVehicles,
         NEW s \in Slots, NEW r \in Routes, NEW host \in BOOLEAN, Build(s, r, host),
         count' \in Nat, count <= count', s <= count', UNCHANGED <<generation, despawns>>,
         s > count \/ (veh[occupant[s]].arrived /\ veh[occupant[s]].gen # generation[s])
  PROVE  Generation' /\ Handles'
<1>1. built' = built + 1 /\ built \in Nat /\ occupant' = [occupant EXCEPT ![s] = built + 1]
  BY DEF Build, TypeOK
<1>b. count \in Nat /\ Slots \subseteq Nat
  BY DEF TypeOK, Slots
<1>c. \A t \in Slots : generation[t] \in Nat
  BY BoundAssumption DEF TypeOK
<1>0. count \in Nat /\ Slots \subseteq Nat /\ \A t \in Slots : generation[t] \in Nat
  BY <1>b, <1>c
<1>2. /\ veh'[built + 1].slot = s /\ veh'[built + 1].gen = generation[s]
      /\ \A n \in 1..built : veh'[n] = veh[n]
  BY <1>1 DEF Build
<1>3. ASSUME NEW n \in 1..built', NEW t, t = veh'[n].slot
      PROVE  /\ t <= count' /\ veh'[n].gen \in 1..generation'[t]
             /\ veh'[n].gen = generation'[t] => occupant'[t] = n
             /\ ~veh'[n].arrived => occupant'[t] = n /\ veh'[n].gen = generation'[t]
  <2>1. CASE n = built + 1
    <3>1. t = s /\ veh'[n].gen = generation[s]
      BY <1>2, <1>3, <2>1
    <3>2. occupant'[s] = n
      BY <1>1, <2>1 DEF TypeOK
    <3>3. generation[s] \in 1..generation[s]
      BY DEF Table, Generation, TypeOK
    <3> QED BY <3>1, <3>2, <3>3
  <2>2. CASE n \in 1..built
    <3>1. /\ t = veh[n].slot /\ veh'[n] = veh[n] /\ t \in Slots
          /\ t <= count /\ veh[n].gen \in 1..generation[t]
          /\ veh[n].gen = generation[t] => occupant[t] = n
          /\ ~veh[n].arrived => occupant[t] = n /\ veh[n].gen = generation[t]
      BY <1>2, <1>3, <2>2 DEF Table, Handles, TypeOK, Runtime
    <3>2. CASE t = s
      <4>1. veh[occupant[s]].arrived /\ veh[occupant[s]].gen # generation[s]
        BY <1>0, <3>1, <3>2
      <4>2. veh[n].gen # generation[s] /\ veh[n].arrived
        BY <3>1, <3>2, <4>1
      <4> QED BY <1>0, <3>1, <3>2, <4>2
    <3>3. CASE t # s
      <4>1. occupant'[t] = occupant[t]
        BY <1>1, <3>1, <3>3 DEF TypeOK
      <4>2. t <= count'
        <5>1. t \in Nat /\ t <= count
          BY <1>0, <3>1
        <5> QED BY <1>0, <5>1
      <4>3. generation' = generation
        OBVIOUS
      <4> QED BY <3>1, <4>1, <4>2, <4>3
    <3> QED BY <3>2, <3>3
  <2> QED BY <1>1, <2>1, <2>2
<1>4. Generation'
  BY DEF Table, Generation
<1> QED BY <1>3, <1>4 DEF Handles

LEMMA ExtendKeepsTable ==
  ASSUME TypeOK, Shape, Table, built < MaxVehicles, NEW r \in Routes, NEW host \in BOOLEAN,
         Extend(r, host), UNCHANGED <<generation, despawns>>
  PROVE  Table'
<1>1. /\ count + 1 \in Slots /\ count \in Nat /\ count' = count + 1 /\ free' = free
      /\ Build(count + 1, r, host)
  BY BoundAssumption DEF Extend, TypeOK, Slots
<1>2. Generation' /\ Handles'
  BY <1>1, BuildKeepsHandles
<1>3. FreeList'
  <2>1. /\ built \in Nat /\ veh'[built + 1].slot = count + 1
        /\ \A n \in 1..built : veh'[n] = veh[n]
        /\ occupant' = [occupant EXCEPT ![count + 1] = built + 1]
    BY <1>1 DEF Build, TypeOK
  <2>2. occupant'[count + 1] = built + 1 /\ \A s \in 1..count : occupant'[s] = occupant[s]
    BY <1>1, <2>1, ActiveType DEF TypeOK
  <2>3. \A s \in 1..count' : veh'[occupant'[s]].slot = s
    BY <1>1, <2>1, <2>2 DEF Table, FreeList, Shape
  <2>4. \A i \in 1..Len(free) : free[i] \in 1..count
    BY DEF Table, FreeList
  <2>5. \A i \in 1..Len(free) : veh'[occupant'[free[i]]] = veh[occupant[free[i]]] /\ free[i] \in 1..count'
    BY <1>1, <2>1, <2>2, <2>4 DEF Shape
  <2> QED BY <1>1, <2>3, <2>5 DEF Table, FreeList
<1> QED BY <1>2, <1>3 DEF Table

LEMMA ReuseKeepsTable ==
  ASSUME TypeOK, Shape, Table, built < MaxVehicles, free # <<>>, NEW r \in Routes,
         Reuse(r), UNCHANGED <<generation, despawns>>
  PROVE  Table'
<1> DEFINE last == Len(free)
           s == free[last]
<1>0. free \in Seq(Slots) /\ last \in 1..Len(free) /\ s \in Slots
  BY DEF TypeOK
<1>1. s \in 1..count /\ count \in Nat /\ Slots \subseteq Nat
  BY <1>0 DEF Table, FreeList, TypeOK, Slots
<1>2. count' = count /\ Build(s, r, TRUE) /\ free' = SubSeq(free, 1, last - 1)
  BY DEF Reuse
<1>3. veh[occupant[s]].arrived /\ veh[occupant[s]].gen # generation[s]
  BY <1>0 DEF Table, FreeList
<1>a. count' \in Nat /\ count <= count' /\ s <= count'
  BY <1>1, <1>2
<1>4. Generation' /\ Handles'
  BY <1>0, <1>2, <1>3, <1>a, BuildKeepsHandles
<1>5. FreeList'
  <2>1. /\ built \in Nat /\ veh'[built + 1].slot = s
        /\ \A n \in 1..built : veh'[n] = veh[n]
        /\ occupant' = [occupant EXCEPT ![s] = built + 1]
    BY <1>2 DEF Build, TypeOK
  <2>2. occupant'[s] = built + 1 /\ \A t \in 1..count : t # s => occupant'[t] = occupant[t]
    BY <1>0, <1>1, <2>1, ActiveType DEF TypeOK
  <2>3. \A t \in 1..count' : veh'[occupant'[t]].slot = t
    BY <1>2, <2>1, <2>2 DEF Table, FreeList, Shape
  <2>4. Len(free') = last - 1 /\ \A i \in 1..last - 1 : free'[i] = free[i]
    <3>1. last \in Nat /\ last > 0 /\ last - 1 \in Nat
      BY <1>0
    <3>2. \A i \in 1..last - 1 : free[i] \in Slots
      BY <1>0
    <3>3. /\ Len(SubSeq(free, 1, last - 1)) = IF 1 <= last - 1 THEN last - 1 - 1 + 1 ELSE 0
          /\ \A i \in 1..last - 1 - 1 + 1 : SubSeq(free, 1, last - 1)[i] = free[1 + i - 1]
      BY <3>1, <3>2, SubSeqProperties
    <3>4. /\ Len(SubSeq(free, 1, last - 1)) = last - 1
          /\ \A i \in 1..last - 1 : SubSeq(free, 1, last - 1)[i] = free[i]
      BY <3>1, <3>3
    <3> QED BY <1>2, <3>4
  <2>5. \A i \in 1..last - 1 : free[i] \in 1..count /\ free[i] # s
    BY <1>0 DEF Table, FreeList
  <2>6. \A i \in 1..last - 1 : veh'[occupant'[free[i]]] = veh[occupant[free[i]]]
    BY <2>1, <2>2, <2>5 DEF Shape
  <2>7. \A i \in 1..last - 1 : /\ free[i] \in 1..count
                               /\ veh[occupant[free[i]]].arrived
                               /\ veh[occupant[free[i]]].gen # generation[free[i]]
    BY <1>0 DEF Table, FreeList
  <2>8. \A i, j \in 1..last - 1 : free[i] = free[j] => i = j
    BY <1>0 DEF Table, FreeList
  <2> QED BY <1>2, <2>3, <2>4, <2>6, <2>7, <2>8 DEF FreeList
<1> QED BY <1>4, <1>5 DEF Table

LEMMA DespawnKeepsTable ==
  ASSUME TypeOK, Shape, Table, FewDespawns, NEW n \in 1..built, Despawn(n)
  PROVE  Table'
<1> DEFINE s == veh[n].slot
<1>1. s \in Slots /\ s \in 1..count /\ generation[s] = veh[n].gen /\ count \in Nat
  BY DEF Despawn, Resolves, HandleOf, TypeOK, Runtime, Slots
<1>2. occupant[s] = n
  BY <1>1 DEF Table, Handles
<1>3. /\ ~veh[n].arrived /\ despawns < MaxDespawns /\ despawns' = despawns + 1
      /\ UNCHANGED <<built, count, occupant>>
      /\ veh' = [veh EXCEPT ![n].inserted = TRUE, ![n].arrived = TRUE]
      /\ generation' = [generation EXCEPT ![s] = (@ + 1) % Generations]
      /\ free' = IF Recycle THEN Append(free, s) ELSE free
  BY <1>2 DEF Despawn
<1>4. generation[s] \in Nat /\ despawns \in Nat /\ MaxDespawns \in Nat
  BY <1>1, BoundAssumption DEF TypeOK
<1>5. generation' = [generation EXCEPT ![s] = @ + 1]
  <2>1. generation[s] + 1 \in 0..Generations - 1
    <3>1. generation[s] <= despawns + 1
      BY <1>1 DEF Table, Generation
    <3>2. Generations \in Nat /\ MaxDespawns + 1 < Generations
      BY BoundAssumption DEF FewDespawns
    <3> QED BY <1>3, <1>4, <3>1, <3>2, SMTT(30)
  <2>2. \A g \in 0..Generations - 1 : g % Generations = g
    BY BoundAssumption
  <2> QED BY <1>3, <2>1, <2>2
<1>6. Generation'
  <2>1. generation \in [Slots -> Int] /\ \A t \in Slots : generation[t] \in 1..despawns + 1
    BY BoundAssumption DEF Table, Generation, TypeOK
  <2> QED BY <1>1, <1>3, <1>4, <1>5, <2>1, SMTT(30) DEF Generation
<1>7. \A m \in 1..built : /\ veh'[m].slot = veh[m].slot /\ veh'[m].gen = veh[m].gen
                          /\ m # n => veh'[m].arrived = veh[m].arrived
                          /\ m = n => veh'[m].arrived
  BY <1>3 DEF TypeOK, Runtime
<1>8. /\ \A t \in Slots : t # s => generation'[t] = generation[t]
      /\ generation'[s] = generation[s] + 1
  BY <1>1, <1>5 DEF TypeOK
<1>9. Handles'
  <2> SUFFICES ASSUME NEW m \in 1..built, NEW t, t = veh[m].slot
               PROVE  /\ t <= count /\ veh[m].gen \in 1..generation'[t]
                      /\ veh[m].gen = generation'[t] => occupant[t] = m
                      /\ ~veh'[m].arrived => occupant[t] = m /\ veh[m].gen = generation'[t]
    <3>1. built' = built /\ count' = count /\ occupant' = occupant
      BY <1>3
    <3> QED BY <1>7, <3>1 DEF Handles
  <2>1. /\ t \in Slots /\ t <= count /\ veh[m].gen \in 1..generation[t]
        /\ veh[m].gen = generation[t] => occupant[t] = m
        /\ ~veh[m].arrived => occupant[t] = m /\ veh[m].gen = generation[t]
    BY DEF Table, Handles, TypeOK, Runtime
  <2>2. CASE t = s
    BY <1>2, <1>4, <1>7, <1>8, <2>1, <2>2
  <2>3. CASE t # s
    BY <1>2, <1>7, <1>8, <2>1, <2>3
  <2> QED BY <2>2, <2>3
<1>a. FreeList'
  <2>1. \A t \in 1..count' : veh'[occupant'[t]].slot = t
    BY <1>3, <1>7, ZenonT(30) DEF Table, FreeList, Shape
  <2>2. \A i \in 1..Len(free) : /\ free[i] \in 1..count /\ free[i] # s /\ free[i] \in Slots
                                /\ veh'[occupant[free[i]]].arrived
                                /\ veh'[occupant[free[i]]].gen # generation'[free[i]]
    <3> SUFFICES ASSUME NEW i \in 1..Len(free), NEW t, t = free[i]
                 PROVE  /\ t \in 1..count /\ t # s /\ t \in Slots
                        /\ veh'[occupant[t]].arrived /\ veh'[occupant[t]].gen # generation'[t]
      OBVIOUS
    <3>1. t \in 1..count /\ t \in Slots /\ veh[occupant[t]].arrived /\ veh[occupant[t]].gen # generation[t]
      BY ActiveType DEF Table, FreeList
    <3>2. t # s
      BY <1>2, <1>3, <3>1
    <3>3. occupant[t] \in 1..built
      BY <3>1 DEF Shape
    <3> QED BY <1>7, <1>8, <3>1, <3>2, <3>3
  <2>3. veh'[occupant[s]].arrived /\ veh'[occupant[s]].gen # generation'[s]
    BY <1>1, <1>2, <1>4, <1>7, <1>8
  <2>4. CASE free' = free
    <3>1. \A i, j \in 1..Len(free) : free[i] = free[j] => i = j
      BY DEF Table, FreeList
    <3> QED BY <1>3, <2>1, <2>2, <2>4, <3>1 DEF FreeList
  <2>5. CASE free' = Append(free, s)
    <3>1. free \in Seq(Slots) /\ Len(free) \in Nat
      BY DEF TypeOK
    <3>2. Len(free') = Len(free) + 1 /\ free'[Len(free) + 1] = s /\ \A i \in 1..Len(free) : free'[i] = free[i]
      BY <1>1, <2>5, <3>1
    <3>3. \A i \in 1..Len(free') : i \in 1..Len(free) \/ i = Len(free) + 1
      BY <3>1, <3>2
    <3>4. \A i \in 1..Len(free') : /\ free'[i] \in 1..count
                                   /\ veh'[occupant[free'[i]]].arrived
                                   /\ veh'[occupant[free'[i]]].gen # generation'[free'[i]]
      BY <1>1, <2>2, <2>3, <3>2, <3>3
    <3>5. \A i, j \in 1..Len(free) : free[i] = free[j] => i = j
      BY DEF Table, FreeList
    <3>6. \A i, j \in 1..Len(free') : free'[i] = free'[j] => i = j
      BY <2>2, <3>2, <3>3, <3>5
    <3> QED BY <1>3, <2>1, <3>4, <3>6, ZenonT(30) DEF FreeList
  <2> QED BY <1>3, <2>4, <2>5
<1> QED BY <1>6, <1>9, <1>a DEF Table

\* Every step but a spawn, a despawn and a flow's vehicle is a step Along.
LEMMA StepIsAlong ==
  ASSUME TypeOK, Shape, Next
  PROVE  \/ Along
         \/ \E r \in Routes : SpawnVehicle(r)
         \/ \E n \in 1..built : Despawn(n)
         \/ GenerateProbabilisticFlows
<1>0. DOMAIN veh = 1..built /\ \A n \in 1..built : veh[n] \in Runtime
  BY DEF TypeOK
<1>1. ASSUME NEW n \in DOMAIN veh, NEW r \in Routes, SetDestination(n, r) PROVE Along
  <2>1. n \in 1..built /\ veh[n].slot \in 1..count
    BY <1>1 DEF SetDestination, Resolves, HandleOf, TypeOK, Runtime, Slots
  <2>2. occupant[veh[n].slot] \in 1..built
    BY <2>1 DEF Shape
  <2> QED BY <1>1, <2>2, ReplaceIsAlong DEF SetDestination
<1>2. CASE BeginStep \/ AdvanceAgain \/ WarmUpEnds
  BY <1>2 DEF BeginStep, AdvanceAgain, WarmUpEnds, table, Along
<1>3. CASE InsertDepartingVehicles
  <2>1. UNCHANGED <<built, count, occupant, generation, free, despawns>>
    BY <1>3 DEF InsertDepartingVehicles
  <2>2. PICK in \in SUBSET (1..built), out \in SUBSET (1..built) :
          veh' = [n \in DOMAIN veh |->
                   IF n \in in THEN [veh[n] EXCEPT !.inserted = TRUE]
                   ELSE IF n \in out THEN [veh[n] EXCEPT !.inserted = TRUE, !.arrived = TRUE]
                   ELSE veh[n]]
    BY <1>3, ActiveType DEF InsertDepartingVehicles
  <2> QED BY <1>0, <2>1, <2>2 DEF Along, Runtime
<1>4. CASE ProcessTransferQueue
  <2>1. UNCHANGED <<built, count, occupant, generation, free, despawns>>
    BY <1>4 DEF ProcessTransferQueue
  <2>2. PICK in, hop, gone : Transfer(in, hop, gone)
    BY <1>4 DEF ProcessTransferQueue
  <2> QED BY <1>0, <2>1, <2>2 DEF Transfer, Along, Runtime
<1>5. CASE UpdateReroutes
  <2>1. CASE UNCHANGED <<clock, table, effective, queue, report>>
    BY <2>1 DEF table, Along
  <2>2. ASSUME NEW v \in ActiveVehicles, NEW r \in Routes, Replace(v, r) PROVE Along
    BY <2>2, ActiveType, ReplaceIsAlong
  <2> QED BY <1>5, <2>1, <2>2 DEF UpdateReroutes
<1>6. CASE ExecuteMoves
  BY <1>0, <1>6 DEF ExecuteMoves, Along, Runtime
<1>7. CASE CheckJamTeleports
  <2>1. UNCHANGED <<built, count, occupant, generation, free, despawns>>
    BY <1>7 DEF CheckJamTeleports
  <2>2. PICK jammed, lifted : TeleportVehicle(jammed, lifted)
    BY <1>7 DEF CheckJamTeleports
  <2> QED BY <1>0, <2>1, <2>2 DEF TeleportVehicle, Along, Runtime
<1>8. CASE PublishReadState
  <2>1. UNCHANGED <<built, count, occupant, generation, free, despawns>>
    BY <1>8 DEF PublishReadState
  <2>2. veh' = [n \in DOMAIN veh |-> IF n \in ActiveVehicles THEN [veh[n] EXCEPT !.known = TRUE] ELSE veh[n]]
    BY <1>8 DEF PublishReadState
  <2> QED BY <1>0, <2>1, <2>2 DEF Along, Runtime
<1> QED BY <1>0, <1>1, <1>2, <1>3, <1>4, <1>5, <1>6, <1>7, <1>8 DEF Next, Host, Step

LEMMA TableStep ==
  ASSUME FewDespawns
  PROVE  TypeOK /\ Shape /\ Table /\ [Next]_vars => Table'
<1> SUFFICES ASSUME TypeOK, Shape, Table, [Next]_vars PROVE Table'
  OBVIOUS
<1>1. CASE Along
  BY <1>1, AlongKeepsTable
<1>2. ASSUME NEW r \in Routes, SpawnVehicle(r) PROVE Table'
  <2>1. CASE Recycle /\ free # <<>>
    BY <1>2, <2>1, ReuseKeepsTable DEF SpawnVehicle
  <2>2. CASE ~(Recycle /\ free # <<>>)
    BY <1>2, <2>2, ExtendKeepsTable DEF SpawnVehicle
  <2> QED BY <2>1, <2>2
<1>3. ASSUME NEW n \in 1..built, Despawn(n) PROVE Table'
  BY <1>3, DespawnKeepsTable
<1>4. CASE GenerateProbabilisticFlows
  <2>1. CASE UNCHANGED <<table, baseline>>
    <3>1. Along
      BY <2>1 DEF table, Along
    <3> QED BY <3>1, <1>1
  <2>2. ASSUME built < MaxVehicles, NEW r \in Routes, Extend(r, FALSE), UNCHANGED <<generation, despawns>>
        PROVE  Table'
    BY <2>2, ExtendKeepsTable
  <2> QED BY <1>4, <2>1, <2>2 DEF GenerateProbabilisticFlows
<1>5. CASE UNCHANGED vars
  <2>1. Along
    BY <1>5 DEF vars, table, Along
  <2> QED BY <2>1, <1>1
<1>6. CASE Next
  BY <1>1, <1>2, <1>3, <1>4, <1>6, StepIsAlong
<1> QED BY <1>5, <1>6

LEMMA HandlesMean ==
  ASSUME TypeOK, Table
  PROVE  HandleNamesItsVehicle /\ LiveVehicleKeepsItsSlot
<1> SUFFICES ASSUME NEW n \in 1..built
             PROVE  /\ Resolves(HandleOf(n)) => occupant[veh[n].slot] = n
                    /\ ~veh[n].arrived => occupant[veh[n].slot] = n /\ Resolves(HandleOf(n))
  BY DEF HandleNamesItsVehicle, LiveVehicleKeepsItsSlot
<1>1. Resolves(HandleOf(n)) <=> generation[veh[n].slot] = veh[n].gen
  BY DEF Table, Handles, Resolves, HandleOf
<1> QED BY <1>1 DEF Table, Handles

\* As long as no generation has wrapped, the handle of a vehicle that was
\* despawned resolves to nothing, whoever has its slot now.
THEOREM HandlesName == ASSUME FewDespawns PROVE Spec => []HandleNamesItsVehicle
BY TypeInit, ShapeInit, TableInit, TypeStep, TableStep, HandlesMean, PTL DEF Spec

\* Recycling never takes the slot from under a vehicle that still waits,
\* drives or teleports.
THEOREM LiveKeepSlots == ASSUME FewDespawns PROVE Spec => []LiveVehicleKeepsItsSlot
BY TypeInit, ShapeInit, TableInit, TypeStep, TableStep, HandlesMean, PTL DEF Spec

-----------------------------------------------------------------------------
(* The refinement.  With the invariant Table a handle is good as long as   *)
(* its generation is that of its slot, and reaches its own vehicle.        *)

Good == {n \in 1..built : veh[n].gen = generation[veh[n].slot]}

ReachesGood == Reaches = {<<n, n>> : n \in Good}

LEMMA GoodReaches == TypeOK /\ Table => ReachesGood
<1> SUFFICES ASSUME TypeOK, Table PROVE ReachesGood
  OBVIOUS
<1>1. ASSUME NEW n \in 1..built
      PROVE  /\ Resolves(HandleOf(n)) <=> n \in Good
             /\ n \in Good => occupant[veh[n].slot] = n
  BY DEF Table, Handles, Resolves, HandleOf, Good
<1>2. {m \in 1..built : Resolves(HandleOf(m))} = Good
  BY <1>1 DEF Good
<1>3. \A n \in Good : occupant[veh[n].slot] = n
  BY <1>1 DEF Good
<1> QED BY <1>2, <1>3 DEF Reaches, ReachesGood

\* What leaves the table alone and only moves vehicles along ends trips.
LEMMA AlongEnds ==
  ASSUME ReachesGood, ReachesGood', Along
  PROVE  Promise!End
<1>1. Good' = Good
  BY DEF Good, Along
<1>2. Reaches' = Reaches
  BY <1>1 DEF ReachesGood
<1>3. built' = built /\ Gone \subseteq Gone' /\ Gone' \in SUBSET (1..built)
  BY DEF Along, Gone
<1>4. Gone' = Gone \cup Gone'
  BY <1>3
<1> QED BY <1>2, <1>3, <1>4 DEF Promise!End

\* A vehicle that is built gets a good handle, in whichever slot.
LEMMA BuildSpawns ==
  ASSUME TypeOK, ReachesGood, ReachesGood', NEW s \in Slots, NEW r, NEW host, Build(s, r, host),
         UNCHANGED generation
  PROVE  Promise!Spawn
<1>1. /\ built' = built + 1 /\ built \in Nat
      /\ veh'[built + 1].slot = s /\ veh'[built + 1].gen = generation[s] /\ ~veh'[built + 1].arrived
      /\ \A n \in 1..built : veh'[n] = veh[n]
  BY DEF Build, TypeOK
<1>2. \A n : n \in 1..built' <=> n \in 1..built \/ n = built + 1
  BY <1>1
<1>3. Good' = Good \cup {built + 1}
  BY <1>1, <1>2 DEF Good
<1>4. Gone' = Gone
  BY <1>1, <1>2 DEF Gone
<1>6. Reaches' = Reaches \cup {<<built + 1, built + 1>>}
  BY <1>3 DEF ReachesGood
<1> QED BY <1>1, <1>4, <1>6 DEF Promise!Spawn

\* A despawn takes the handle it was called with, and no other: any older one
\* of the slot was taken before.
LEMMA DespawnTakesOne ==
  ASSUME TypeOK, Table, Table', ReachesGood, ReachesGood', NEW n \in 1..built, Despawn(n)
  PROVE  Promise!Despawn
<1> DEFINE s == veh[n].slot
<1>1. s \in Slots /\ s <= count /\ generation[s] = veh[n].gen /\ n \in Good
  BY DEF Despawn, Resolves, HandleOf, TypeOK, Runtime, Good
<1>2. occupant[s] = n
  BY <1>1 DEF Table, Handles
<1>3. /\ ~veh[n].arrived /\ built' = built
      /\ veh' = [veh EXCEPT ![n].inserted = TRUE, ![n].arrived = TRUE]
      /\ \A t \in Slots : t # s => generation'[t] = generation[t]
  BY <1>2 DEF Despawn, TypeOK
<1>4. \A m \in 1..built : /\ veh'[m].slot = veh[m].slot /\ veh'[m].gen = veh[m].gen
                          /\ m # n => veh'[m] = veh[m]
                          /\ m = n => veh'[m].arrived
  BY <1>3 DEF TypeOK, Runtime
<1>5. Gone' = Gone \cup {n} /\ n \notin Gone
  BY <1>3, <1>4 DEF Gone
<1>6. n \notin Good'
  <2>3. generation'[s] = (generation[s] + 1) % Generations
    BY <1>1 DEF Despawn, TypeOK
  <2>4. generation[s] \in 0..Generations - 1 /\ Generations \in Nat \ {0, 1}
    BY <1>1, BoundAssumption DEF TypeOK
  <2>5. (generation[s] + 1) % Generations # generation[s]
    <3>1. CASE generation[s] + 1 < Generations
      BY <2>4, <3>1
    <3>2. CASE generation[s] + 1 = Generations
      BY <2>4, <3>2
    <3> QED BY <2>4, <3>1, <3>2
  <2> QED BY <1>1, <1>4, <2>3, <2>5 DEF Good
<1>7. ASSUME NEW m \in 1..built, m # n PROVE m \in Good' <=> m \in Good
  <2>1. veh[m].slot \in Slots
    BY DEF TypeOK, Runtime
  <2>2. CASE veh[m].slot # s
    <3>1. veh'[m].slot = veh[m].slot /\ veh'[m].gen = veh[m].gen /\ m \in 1..built'
      BY <1>3, <1>4
    <3>2. generation'[veh[m].slot] = generation[veh[m].slot]
      BY <1>3, <2>1, <2>2
    <3> HIDE DEF s
    <3>3. m \in Good' <=> veh'[m].gen = generation'[veh'[m].slot]
      BY <3>1 DEF Good
    <3>4. m \in Good <=> veh[m].gen = generation[veh[m].slot]
      BY DEF Good
    <3> QED BY <3>1, <3>2, <3>3, <3>4
  <2>3. CASE veh[m].slot = s
    <3>1. m \notin Good
      BY <1>2, <1>7, <2>3 DEF Good, Table, Handles
    <3>2. m \in 1..built' /\ veh'[m].slot = s /\ occupant' = occupant
      BY <1>3, <1>4, <2>3 DEF Despawn
    <3>3. veh'[m].gen = generation'[s] => occupant'[s] = m
      <4>1. veh'[m].gen = generation'[veh'[m].slot] => occupant'[veh'[m].slot] = m
        BY <3>2 DEF Table, Handles
      <4> QED BY <3>2, <4>1
    <3>4. m \notin Good'
      <4>1. veh'[m].gen # generation'[s]
        BY <1>2, <1>7, <3>2, <3>3
      <4> QED BY <3>2, <4>1 DEF Good
    <3> QED BY <3>1, <3>4
  <2> QED BY <2>2, <2>3
<1>8. Good' = Good \ {n}
  <2>1. Good \subseteq 1..built /\ Good' \subseteq 1..built
    BY <1>3 DEF Good
  <2> QED BY <1>6, <1>7, <2>1
<1>9. Reaches' = Reaches \ {<<n, n>>} /\ <<n, n>> \in Reaches
  BY <1>1, <1>8 DEF ReachesGood
<1> QED BY <1>3, <1>5, <1>9 DEF Promise!Despawn

\* Every step of the engine and its host is a step of the promise, or none.
LEMMA PromiseStep ==
  ASSUME TypeOK, Shape, Table, Table', ReachesGood, ReachesGood', [Next]_vars
  PROVE  [Promise!Next]_(Promise!vars)
<1>1. ASSUME Along PROVE Promise!Next
  BY <1>1, AlongEnds DEF Promise!Next
<1>2. ASSUME NEW s \in Slots, NEW r, NEW host, Build(s, r, host), UNCHANGED generation
      PROVE  Promise!Next
  BY <1>2, BuildSpawns DEF Promise!Next
<1>3. ASSUME NEW r, NEW host, Extend(r, host), UNCHANGED generation, built < MaxVehicles
      PROVE  Promise!Next
  <2>1. count + 1 \in Slots /\ Build(count + 1, r, host)
    BY <1>3, BoundAssumption DEF Extend, TypeOK, Slots
  <2> QED BY <1>2, <1>3, <2>1
<1>4. ASSUME NEW r \in Routes, SpawnVehicle(r) PROVE Promise!Next
  <2>1. CASE Recycle /\ free # <<>>
    <3>1. free[Len(free)] \in Slots
      BY <2>1 DEF TypeOK
    <3>2. Build(free[Len(free)], r, TRUE) /\ UNCHANGED generation
      BY <1>4, <2>1 DEF SpawnVehicle, Reuse
    <3> QED BY <1>2, <3>1, <3>2
  <2>2. CASE ~(Recycle /\ free # <<>>)
    BY <1>3, <1>4, <2>2 DEF SpawnVehicle
  <2> QED BY <2>1, <2>2
<1>5. ASSUME NEW n \in 1..built, Despawn(n) PROVE Promise!Next
  BY <1>5, DespawnTakesOne DEF Promise!Next
<1>6. CASE GenerateProbabilisticFlows
  <2>1. CASE UNCHANGED <<table, baseline>>
    BY <1>1, <2>1 DEF table, Along
  <2>2. ASSUME built < MaxVehicles, NEW r \in Routes, Extend(r, FALSE), UNCHANGED <<generation, despawns>>
        PROVE  Promise!Next
    BY <1>3, <2>2
  <2> QED BY <1>6, <2>1, <2>2 DEF GenerateProbabilisticFlows
<1>7. CASE UNCHANGED vars
  BY <1>1, <1>7 DEF vars, table, Along
<1>8. CASE Next
  BY <1>1, <1>4, <1>5, <1>6, <1>8, StepIsAlong
<1> QED BY <1>7, <1>8

\* Handles are kept as HandleTable promises, whatever is spawned, despawned,
\* recycled, evicted or arrives, as long as no generation wraps: each despawn
\* takes one handle away, and none comes back or changes whom it names.
THEOREM KeepsThePromise == ASSUME FewDespawns PROVE Spec => ImplementsHandleTable
<1>1. Init => Promise!Init
  <2> SUFFICES ASSUME Init PROVE Promise!Init
    OBVIOUS
  <2>1. built = 0 /\ 1..built = {}
    BY DEF Init
  <2> QED BY <2>1 DEF Promise!Init, Gone, Reaches
<1>2. TypeOK /\ Shape /\ Table /\ [Next]_vars => TypeOK' /\ Shape' /\ Table'
  BY TypeStep, TableStep
<1>3. TypeOK /\ Shape /\ Table /\ Table' /\ ReachesGood /\ ReachesGood' /\ [Next]_vars
        => [Promise!Next]_(Promise!vars)
  BY PromiseStep
<1> QED BY <1>1, <1>2, <1>3, GoodReaches, TypeInit, ShapeInit, TableInit, PTL
        DEF Spec, Promise!Spec, ImplementsHandleTable

-----------------------------------------------------------------------------
(* The lifecycle events, also when generations wrap.                       *)

\* What the baseline of a slot says was told of its occupant, and is so.
Told(s, n) ==
  \/ baseline[s] \in {0, Pending} /\ told[n] = <<>>
  \/ baseline[s] = Active /\ told[n] = <<Active>> /\ veh[n].inserted
  \/ baseline[s] = Arrived /\ told[n] \in {<<Arrived>>, <<Active, Arrived>>} /\ veh[n].arrived

Story ==
  /\ \A s \in 1..count : veh[occupant[s]].slot = s /\ Told(s, occupant[s])
  /\ \A s \in Slots : s > count => baseline[s] = 0
  /\ \A n \in Vehicles : n > built => told[n] = <<>>
  /\ \A i \in 1..Len(free) : free[i] \in 1..count
  /\ EventsTellTheLife
  /\ PublishedWasAnnounced

LEMMA StoryInit == Init => Story
BY BoundAssumption DEF Init, Story, Told, EventsTellTheLife, PublishedWasAnnounced, Slots, Vehicles

\* Between two publications the told story stands: flags are only raised.
Quiet ==
  /\ UNCHANGED <<built, count, occupant, baseline, told, frame>>
  /\ \A n \in 1..built : /\ veh'[n].slot = veh[n].slot
                         /\ veh[n].inserted => veh'[n].inserted
                         /\ veh[n].arrived => veh'[n].arrived
  /\ \A i \in 1..Len(free') : free'[i] \in 1..count

LEMMA QuietKeepsStory == ASSUME TypeOK, Shape, Story, Quiet PROVE Story'
<1>1. \A s \in 1..count' : veh'[occupant'[s]].slot = s /\ Told(s, occupant[s])'
  BY DEF Quiet, Story, Told, Shape
<1>2. EventsTellTheLife' /\ PublishedWasAnnounced'
  BY DEF Quiet, Story, EventsTellTheLife, PublishedWasAnnounced
<1> QED BY <1>1, <1>2 DEF Quiet, Story

\* A vehicle nobody was told of, in a slot nothing was reported of.
LEMMA BuildKeepsStory ==
  ASSUME TypeOK, Shape, Story, built < MaxVehicles,
         NEW s \in Slots, NEW r \in Routes, NEW host \in BOOLEAN, Build(s, r, host),
         s \in 1..count', count' \in {count, count + 1},
         count' = count + 1 => s = count + 1,
         baseline' = [baseline EXCEPT ![s] = 0], UNCHANGED <<told, frame>>,
         \A i \in 1..Len(free') : free'[i] \in 1..count'
  PROVE  Story'
<1>1. /\ built \in Nat /\ count \in Nat /\ built' = built + 1
      /\ occupant' = [occupant EXCEPT ![s] = built + 1]
      /\ veh'[built + 1].slot = s
      /\ \A n \in 1..built : veh'[n] = veh[n]
  BY DEF Build, TypeOK
<1>a. MaxVehicles \in Nat /\ count <= built
  BY <1>1, BoundAssumption DEF TypeOK
<1>b. Slots \subseteq Nat /\ Vehicles \subseteq Nat /\ built + 1 \in Vehicles
  BY <1>1, <1>a DEF Slots, Vehicles
<1>c. 1..count' \subseteq Slots
  BY <1>1, <1>a DEF Slots
<1>2. Slots \subseteq Nat /\ Vehicles \subseteq Nat /\ built + 1 \in Vehicles /\ 1..count' \subseteq Slots
  BY <1>b, <1>c
<1>3. told[built + 1] = <<>>
  BY <1>1, <1>2 DEF Story
<1>4. ASSUME NEW t \in 1..count' PROVE veh'[occupant'[t]].slot = t /\ Told(t, occupant[t])'
  <2>1. CASE t = s
    <3>1. occupant'[t] = built + 1 /\ baseline'[t] = 0
      BY <1>1, <2>1 DEF TypeOK
    <3> QED BY <1>1, <1>3, <2>1, <3>1 DEF Told
  <2>2. CASE t # s
    <3>1. t \in 1..count /\ t \in Slots
      BY <1>1, <1>2, <1>4, <2>2
    <3>2. occupant'[t] = occupant[t] /\ baseline'[t] = baseline[t] /\ occupant[t] \in 1..built
      BY <1>1, <2>2, <3>1 DEF TypeOK, Shape
    <3>3. veh'[occupant[t]] = veh[occupant[t]]
      BY <1>1, <3>2
    <3> QED BY <3>1, <3>2, <3>3, ZenonT(30) DEF Story, Told
  <2> QED BY <2>1, <2>2
<1>5. \A t \in Slots : t > count' => baseline'[t] = 0
  BY <1>1, <1>2 DEF Story, TypeOK
<1>6. \A n \in Vehicles : n > built' => told'[n] = <<>>
  BY <1>1, <1>2 DEF Story
<1>7. EventsTellTheLife' /\ PublishedWasAnnounced'
  BY DEF Story, EventsTellTheLife, PublishedWasAnnounced
<1> QED BY <1>4, <1>5, <1>6, <1>7 DEF Story

LEMMA ExtendKeepsStory ==
  ASSUME TypeOK, Shape, Story, built < MaxVehicles, NEW r \in Routes, NEW host \in BOOLEAN,
         Extend(r, host), UNCHANGED <<told, frame>>
  PROVE  Story'
<1>1. count \in Nat /\ count + 1 \in Slots
  BY BoundAssumption DEF TypeOK, Slots
<1>2. /\ Build(count + 1, r, host) /\ count' = count + 1 /\ UNCHANGED <<free, baseline>>
  BY DEF Extend
<1>3. baseline' = [baseline EXCEPT ![count + 1] = 0]
  BY <1>1, <1>2 DEF Story, TypeOK
<1>4. \A i \in 1..Len(free') : free'[i] \in 1..count'
  BY <1>1, <1>2 DEF Story
<1>5. count + 1 \in 1..count' /\ count' \in {count, count + 1}
  BY <1>1, <1>2
<1> QED BY <1>1, <1>2, <1>3, <1>4, <1>5, BuildKeepsStory

LEMMA ReuseKeepsStory ==
  ASSUME TypeOK, Shape, Story, built < MaxVehicles, free # <<>>, NEW r \in Routes,
         Reuse(r), UNCHANGED <<told, frame>>
  PROVE  Story'
<1> DEFINE last == Len(free)
<1>1. free \in Seq(Slots) /\ last \in 1..Len(free) /\ free[last] \in Slots /\ last \in Nat
  BY DEF TypeOK
<1>2. free[last] \in 1..count /\ count \in Nat
  BY <1>1 DEF Story, TypeOK
<1>3. /\ Build(free[last], r, TRUE) /\ count' = count
      /\ baseline' = [baseline EXCEPT ![free[last]] = 0]
      /\ free' = SubSeq(free, 1, last - 1)
  BY DEF Reuse
<1>4. \A i \in 1..Len(free') : free'[i] \in 1..count'
  <2>1. \A i \in 1..last - 1 : free[i] \in 1..count
    BY <1>1 DEF Story
  <2>2. SubSeq(free, 1, last - 1) \in Seq(1..count)
    BY <1>1, <2>1, SubSeqProperties
  <2> QED BY <1>3, <2>2
<1>5. free[last] \in 1..count' /\ count' \in {count, count + 1} /\ count' # count + 1
  BY <1>2, <1>3
<1> QED BY <1>1, <1>3, <1>4, <1>5, BuildKeepsStory

LEMMA AppendPair == ASSUME NEW x, NEW y PROVE Append(<<x>>, y) = <<x, y>>
<1> DEFINE s == Append(<<x>>, y)
           t == <<x, y>>
<1>1. <<x>> \in Seq({x, y}) /\ y \in {x, y} /\ t \in Seq({x, y})
  OBVIOUS
<1>2. s \in Seq({x, y}) /\ Len(s) = 2 /\ s[1] = x /\ s[2] = y
  BY <1>1
<1>3. Len(t) = 2 /\ t[1] = x /\ t[2] = y
  OBVIOUS
<1>4. \A i \in 1..Len(s) : s[i] = t[i]
  <2> SUFFICES ASSUME NEW i \in 1..2 PROVE s[i] = t[i]
    BY <1>2
  <2>1. i = 1 \/ i = 2
    OBVIOUS
  <2> QED BY <2>1, <1>2, <1>3
<1>5. Len(s) = Len(t)
  BY <1>2, <1>3
<1> HIDE DEF s, t
<1>6. s = t
  BY <1>1, <1>2, <1>4, <1>5, SeqEqual
<1> QED BY <1>6 DEF s, t

LEMMA Appended ==
  /\ Append(<<>>, Active) = <<Active>> /\ Append(<<>>, Arrived) = <<Arrived>>
  /\ Append(<<Active>>, Arrived) = <<Active, Arrived>>
BY AppendPair

LEMMA ToldIsNotEmpty ==
  ASSUME NEW f \in {<<Active>>, <<Arrived>>, <<Active, Arrived>>}
  PROVE  f # <<>>
<1>1. Len(<<Active>>) = 1 /\ Len(<<Arrived>>) = 1 /\ Len(<<Active, Arrived>>) = 2 /\ Len(<<>>) = 0
  OBVIOUS
<1> QED BY <1>1

LEMMA PublishKeepsStory ==
  ASSUME TypeOK, Shape, Story, PublishReadState
  PROVE  Story'
<1>0. /\ 1..count \subseteq Slots /\ Slots = Vehicles
      /\ \A s \in 1..count : occupant[s] \in 1..built /\ occupant[s] \in Vehicles
      /\ 1..built \subseteq Vehicles /\ count \in Nat /\ built \in Nat
  <2>1. 1..built \subseteq Vehicles /\ Slots = Vehicles /\ count \in Nat /\ built \in Nat
    BY BoundAssumption DEF TypeOK, Slots, Vehicles
  <2> QED BY <2>1, ActiveType DEF Shape
<1>1. /\ UNCHANGED <<built, count, occupant, free>>
      /\ frame' = [s \in Slots |-> IF occupant[s] \in ActiveVehicles THEN occupant[s] ELSE 0]
      /\ baseline' = [s \in Slots |-> IF s <= count THEN Kind(s) ELSE baseline[s]]
  BY DEF PublishReadState
<1>2. \A n \in 1..built : /\ veh'[n].slot = veh[n].slot
                          /\ veh'[n].inserted = veh[n].inserted /\ veh'[n].arrived = veh[n].arrived
  BY DEF PublishReadState, TypeOK, Runtime
\* Only the occupant of a slot is told of what became of it.
<1>3. \A s \in 1..count : told'[occupant[s]] =
        IF Kind(s) \notin {baseline[s], Pending} THEN Append(told[occupant[s]], Kind(s)) ELSE told[occupant[s]]
  <2> SUFFICES ASSUME NEW s \in 1..count
               PROVE  told'[occupant[s]] = IF Kind(s) \notin {baseline[s], Pending}
                        THEN Append(told[occupant[s]], Kind(s)) ELSE told[occupant[s]]
    OBVIOUS
  <2>1. (\E t \in Changed : occupant[t] = occupant[s]) <=> s \in Changed
    BY DEF Story, Changed
  <2>2. told'[occupant[s]] = IF \E t \in Changed : occupant[t] = occupant[s]
          THEN Append(told[occupant[s]], Lifecycle(veh[occupant[s]])) ELSE told[occupant[s]]
    BY <1>0 DEF PublishReadState
  <2> QED BY <2>1, <2>2 DEF Changed, Kind
<1>4. ASSUME NEW s \in 1..count 
      PROVE  Told(s, occupant[s])' /\ (Kind(s) # Pending => told'[occupant[s]] # <<>>)
  <2>0. /\ s \in Slots /\ occupant[s] \in 1..built /\ baseline'[s] = Kind(s)
        /\ Told(s, occupant[s])
    BY <1>0, <1>1 DEF Story
  <2>1. CASE Kind(s) = Pending
    <3>1. told'[occupant[s]] = told[occupant[s]]
      BY <1>3, <2>1
    <3>2. ~veh[occupant[s]].arrived /\ ~veh[occupant[s]].inserted
      BY <2>1 DEF Kind, Lifecycle, Pending, Active, Arrived
    <3>3. told[occupant[s]] = <<>>
      BY <2>0, <3>2 DEF Told
    <3> QED BY <1>1, <2>0, <2>1, <3>1, <3>3 DEF Told
  <2>2. CASE Kind(s) = Active
    <3>1. veh[occupant[s]].inserted /\ ~veh[occupant[s]].arrived
      BY <2>2 DEF Kind, Lifecycle, Pending, Active, Arrived
    <3>2. \/ baseline[s] = Active /\ told[occupant[s]] = <<Active>>
          \/ baseline[s] \in {0, Pending} /\ told[occupant[s]] = <<>>
      BY <2>0, <3>1 DEF Told
    <3>3. Active \notin {0, Pending}
      BY DEF Pending, Active
    <3>4. told'[occupant[s]] = <<Active>>
      BY <1>3, <2>2, <3>2, <3>3, Appended
    <3>5. veh'[occupant[s]].inserted
      BY <1>2, <2>0, <3>1
    <3>6. Told(s, occupant[s])'
      BY <1>1, <2>0, <2>2, <3>4, <3>5 DEF Told
    <3>7. told'[occupant[s]] # <<>>
      BY <3>4, ToldIsNotEmpty
    <3> QED BY <3>6, <3>7
  <2>3. CASE Kind(s) = Arrived
    <3>1. veh[occupant[s]].arrived
      BY <2>3 DEF Kind, Lifecycle, Pending, Active, Arrived
    <3>2. \/ baseline[s] = Arrived /\ told[occupant[s]] \in {<<Arrived>>, <<Active, Arrived>>}
          \/ baseline[s] = Active /\ told[occupant[s]] = <<Active>>
          \/ baseline[s] \in {0, Pending} /\ told[occupant[s]] = <<>>
      BY <2>0 DEF Told
    <3>3. Arrived \notin {0, Pending, Active}
      BY DEF Pending, Active, Arrived
    <3>4. told'[occupant[s]] \in {<<Arrived>>, <<Active, Arrived>>}
      BY <1>3, <2>3, <3>2, <3>3, Appended
    <3>5. veh'[occupant[s]].arrived
      BY <1>2, <2>0, <3>1
    <3>6. Told(s, occupant[s])'
      BY <1>1, <2>0, <2>3, <3>4, <3>5 DEF Told
    <3>7. told'[occupant[s]] # <<>>
      BY <3>4, ToldIsNotEmpty
    <3> QED BY <3>6, <3>7
  <2> QED BY <2>1, <2>2, <2>3 DEF Kind, Lifecycle
<1>5. \A n \in Vehicles : (\A s \in 1..count : occupant[s] # n) => told'[n] = told[n]
  BY DEF PublishReadState, Changed
<1>6. EventsTellTheLife'
  <2> SUFFICES ASSUME NEW n \in Vehicles
               PROVE  told'[n] \in {<<>>, <<Active>>, <<Arrived>>, <<Active, Arrived>>}
    BY DEF EventsTellTheLife
  <2>1. CASE \E s \in 1..count : occupant[s] = n
    BY <1>1, <1>4, <2>1 DEF Told
  <2>2. CASE \A s \in 1..count : occupant[s] # n
    BY <1>5, <2>2 DEF Story, EventsTellTheLife
  <2> QED BY <2>1, <2>2
<1>7. PublishedWasAnnounced'
  <2> SUFFICES ASSUME NEW s \in Slots, frame'[s] # 0 PROVE told'[frame'[s]] # <<>>
    BY DEF PublishedWasAnnounced
  <2>1. frame'[s] = occupant[s] /\ occupant[s] \in ActiveVehicles
    BY <1>1
  <2>2. PICK t \in 1..count : occupant[t] = occupant[s] /\ OnRoad(veh[occupant[t]])
    BY <2>1 DEF ActiveVehicles, Occupants
  <2>3. Kind(t) # Pending
    BY <2>2 DEF OnRoad, Kind, Lifecycle, Pending, Active, Arrived
  <2> QED BY <1>4, <2>1, <2>2, <2>3
<1>8. \A n \in Vehicles : n > built' => told'[n] = <<>>
  BY <1>0, <1>1, <1>5 DEF Story
<1>9. \A s \in Slots : s > count' => baseline'[s] = 0
  <2>1. \A s \in Slots : s > count => ~(s <= count)
    BY <1>0 DEF Slots
  <2> QED BY <1>1, <2>1 DEF Story
<1>a. \A s \in 1..count' : veh'[occupant'[s]].slot = s
  BY <1>0, <1>1, <1>2 DEF Story
<1> QED BY <1>1, <1>4, <1>6, <1>7, <1>8, <1>9, <1>a DEF Story

\* All other steps are quiet.
LEMMA StepIsQuiet ==
  ASSUME TypeOK, Shape, Story, Next
  PROVE  \/ Quiet
         \/ \E r \in Routes : SpawnVehicle(r)
         \/ GenerateProbabilisticFlows
         \/ PublishReadState
<1>0. /\ DOMAIN veh = 1..built /\ \A n \in 1..built : veh[n] \in Runtime
      /\ \A i \in 1..Len(free) : free[i] \in 1..count
  BY DEF TypeOK, Story
<1>1. ASSUME NEW v \in 1..built, NEW r \in Routes, Replace(v, r) PROVE Quiet
  <2>1. UNCHANGED <<built, count, occupant, free, baseline, told, frame>>
    BY <1>1 DEF Replace, report
  <2> QED BY <1>0, <1>1, <2>1 DEF Replace, Quiet, Runtime
<1>2. ASSUME NEW n \in DOMAIN veh, NEW r \in Routes, SetDestination(n, r) PROVE Quiet
  <2>1. n \in 1..built /\ veh[n].slot \in 1..count
    BY <1>2 DEF SetDestination, Resolves, HandleOf, TypeOK, Runtime, Slots
  <2>2. occupant[veh[n].slot] \in 1..built
    BY <2>1, SMTT(30) DEF Shape
  <2> QED BY <1>1, <1>2, <2>2 DEF SetDestination
<1>3. ASSUME NEW n \in DOMAIN veh, Despawn(n) PROVE Quiet
  <2> DEFINE s == veh[n].slot
  <2>1. s \in 1..count
    BY <1>3 DEF Despawn, Resolves, HandleOf, TypeOK, Runtime, Slots
  <2>2. UNCHANGED <<built, count, occupant, baseline, told, frame>>
    BY <1>3 DEF Despawn, report
  <2>3. \A i \in 1..Len(free') : free'[i] \in 1..count
    <3>1. free' = free \/ free' = Append(free, s)
      BY <1>3 DEF Despawn
    <3>2. CASE free' = free
      BY <1>0, <3>2
    <3>3. CASE free' = Append(free, s)
      <4>1. free \in Seq(Slots) /\ Len(free) \in Nat
        BY DEF TypeOK
      <4>2. /\ Len(free') = Len(free) + 1 /\ free'[Len(free) + 1] = s
            /\ \A i \in 1..Len(free) : free'[i] = free[i]
        BY <3>3, <4>1
      <4>3. \A i \in 1..Len(free') : i \in 1..Len(free) \/ i = Len(free) + 1
        BY <4>1, <4>2
      <4> QED BY <1>0, <2>1, <4>2, <4>3
    <3> QED BY <3>1, <3>2, <3>3
  <2>4. veh' = [veh EXCEPT ![occupant[s]].inserted = TRUE, ![occupant[s]].arrived = TRUE]
    BY <1>3 DEF Despawn
  <2> QED BY <1>0, <2>2, <2>3, <2>4 DEF Quiet, Runtime
<1>4. CASE BeginStep \/ AdvanceAgain \/ WarmUpEnds
  BY <1>0, <1>4 DEF BeginStep, AdvanceAgain, WarmUpEnds, table, report, Quiet
<1>5. CASE InsertDepartingVehicles
  <2>1. UNCHANGED <<built, count, occupant, free, baseline, told, frame>>
    BY <1>5 DEF InsertDepartingVehicles, report
  <2>2. PICK in \in SUBSET (1..built), out \in SUBSET (1..built) :
          veh' = [n \in DOMAIN veh |->
                   IF n \in in THEN [veh[n] EXCEPT !.inserted = TRUE]
                   ELSE IF n \in out THEN [veh[n] EXCEPT !.inserted = TRUE, !.arrived = TRUE]
                   ELSE veh[n]]
    BY <1>5, ActiveType DEF InsertDepartingVehicles
  <2> QED BY <1>0, <2>1, <2>2 DEF Quiet, Runtime
<1>6. CASE ProcessTransferQueue
  <2>1. UNCHANGED <<built, count, occupant, free, baseline, told, frame>>
    BY <1>6 DEF ProcessTransferQueue, report
  <2>2. PICK in, hop, gone : Transfer(in, hop, gone)
    BY <1>6 DEF ProcessTransferQueue
  <2> QED BY <1>0, <2>1, <2>2 DEF Transfer, Quiet, Runtime
<1>7. CASE UpdateReroutes
  <2>1. CASE UNCHANGED <<clock, table, effective, queue, report>>
    BY <1>0, <2>1 DEF table, report, Quiet
  <2>2. ASSUME NEW v \in ActiveVehicles, NEW r \in Routes, Replace(v, r) PROVE Quiet
    BY <1>1, <2>2, ActiveType
  <2> QED BY <1>7, <2>1, <2>2 DEF UpdateReroutes
<1>8. CASE ExecuteMoves
  <2>1. UNCHANGED <<built, count, occupant, free, baseline, told, frame>>
    BY <1>8 DEF ExecuteMoves, report
  <2> QED BY <1>0, <1>8, <2>1 DEF ExecuteMoves, Quiet, Runtime
<1>9. CASE CheckJamTeleports
  <2>1. UNCHANGED <<built, count, occupant, free, baseline, told, frame>>
    BY <1>9 DEF CheckJamTeleports, report
  <2>2. PICK jammed, lifted : TeleportVehicle(jammed, lifted)
    BY <1>9 DEF CheckJamTeleports
  <2> QED BY <1>0, <2>1, <2>2 DEF TeleportVehicle, Quiet, Runtime
<1> QED BY <1>2, <1>3, <1>4, <1>5, <1>6, <1>7, <1>8, <1>9 DEF Next, Host, Step

LEMMA StoryStep == TypeOK /\ Shape /\ Story /\ [Next]_vars => Story'
<1> SUFFICES ASSUME TypeOK, Shape, Story, [Next]_vars PROVE Story'
  OBVIOUS
<1>1. CASE Quiet
  BY <1>1, QuietKeepsStory
<1>2. ASSUME NEW r \in Routes, SpawnVehicle(r) PROVE Story'
  <2>1. CASE Recycle /\ free # <<>>
    BY <1>2, <2>1, ReuseKeepsStory DEF SpawnVehicle
  <2>2. CASE ~(Recycle /\ free # <<>>)
    BY <1>2, <2>2, ExtendKeepsStory DEF SpawnVehicle
  <2> QED BY <2>1, <2>2
<1>3. CASE GenerateProbabilisticFlows
  <2>1. UNCHANGED <<told, frame>>
    BY <1>3 DEF GenerateProbabilisticFlows
  <2>2. CASE UNCHANGED <<table, baseline>>
    <3>1. Quiet
      BY <2>1, <2>2 DEF table, Quiet, Story
    <3> QED BY <3>1, <1>1
  <2>3. ASSUME built < MaxVehicles, NEW r \in Routes, Extend(r, FALSE) PROVE Story'
    BY <2>1, <2>3, ExtendKeepsStory
  <2> QED BY <1>3, <2>2, <2>3 DEF GenerateProbabilisticFlows
<1>4. CASE PublishReadState
  BY <1>4, PublishKeepsStory
<1>5. CASE UNCHANGED vars
  <2>1. Quiet
    BY <1>5 DEF vars, table, report, Quiet, Story
  <2> QED BY <2>1, <1>1
<1>6. CASE Next
  BY <1>1, <1>2, <1>3, <1>4, <1>6, StepIsQuiet
<1> QED BY <1>5, <1>6

LEMMA StoryMeans == Story => EventsTellTheLife /\ PublishedWasAnnounced
BY DEF Story

\* No vehicle is announced twice or reported gone twice or in the wrong order,
\* whatever slots are recycled under it.
THEOREM EventsTell == Spec => []EventsTellTheLife
BY TypeInit, ShapeInit, StoryInit, TypeStep, StoryStep, StoryMeans, PTL DEF Spec

\* No vehicle appears in a published frame unannounced.
THEOREM PublishedAnnounced == Spec => []PublishedWasAnnounced
BY TypeInit, ShapeInit, StoryInit, TypeStep, StoryStep, StoryMeans, PTL DEF Spec

-----------------------------------------------------------------------------
(* Teleporting.                                                            *)

\* A step that puts no vehicle in transfer and takes none off the queue.
LEMMA NoneLifted ==
  ASSUME TypeOK, InTransferIsQueued, DOMAIN queue \subseteq DOMAIN queue', built' \in Nat,
         \A n \in 1..built' : veh'[n].inTransfer /\ ~veh'[n].arrived =>
           n \in 1..built /\ veh[n].inTransfer /\ ~veh[n].arrived
  PROVE  InTransferIsQueued'
BY DEF InTransferIsQueued

LEMMA TransferStep == TypeOK /\ Shape /\ InTransferIsQueued /\ [Next]_vars => InTransferIsQueued'
<1> SUFFICES ASSUME TypeOK, Shape, InTransferIsQueued, [Next]_vars PROVE InTransferIsQueued'
  OBVIOUS
<1>0. /\ DOMAIN veh = 1..built /\ \A n \in 1..built : veh[n] \in Runtime
      /\ built \in Nat
  BY DEF TypeOK
<1>1. ASSUME NEW r, NEW s, NEW host, Build(s, r, host), queue' = queue PROVE InTransferIsQueued'
  <2>1. built' = built + 1 /\ \A n \in 1..built' : n \in 1..built \/ n = built + 1
    BY <1>0, <1>1 DEF Build
  <2>2. ~veh'[built + 1].inTransfer /\ \A n \in 1..built : veh'[n] = veh[n]
    BY <1>0, <1>1 DEF Build
  <2> QED BY <1>0, <1>1, <2>1, <2>2, NoneLifted
<1>2. ASSUME NEW r \in Routes, SpawnVehicle(r) PROVE InTransferIsQueued'
  BY <1>1, <1>2 DEF SpawnVehicle, Reuse, Extend
<1>3. ASSUME NEW n \in DOMAIN veh, Despawn(n) PROVE InTransferIsQueued'
  <2>1. queue' = queue /\ built' = built
    BY <1>3 DEF Despawn
  <2>2. veh' = [veh EXCEPT ![occupant[veh[n].slot]].inserted = TRUE,
                           ![occupant[veh[n].slot]].arrived = TRUE]
    BY <1>3 DEF Despawn
  <2>3. \A m \in 1..built : veh'[m].inTransfer = veh[m].inTransfer /\ (veh[m].arrived => veh'[m].arrived)
    BY <1>0, <2>2 DEF Runtime
  <2> QED BY <1>0, <2>1, <2>3, NoneLifted
<1>4. ASSUME NEW v, NEW r, Replace(v, r) PROVE InTransferIsQueued'
  <2>1. queue' = queue /\ built' = built
    BY <1>4 DEF Replace
  <2>2. \A m \in 1..built : veh'[m].inTransfer = veh[m].inTransfer /\ veh'[m].arrived = veh[m].arrived
    BY <1>0, <1>4 DEF Replace, Runtime
  <2> QED BY <1>0, <2>1, <2>2, NoneLifted
<1>5. CASE UNCHANGED <<table, queue>>
  BY <1>0, <1>5, NoneLifted DEF table
<1>6. CASE GenerateProbabilisticFlows
  <2>1. queue' = queue
    BY <1>6 DEF GenerateProbabilisticFlows
  <2> QED BY <1>1, <1>5, <1>6, <2>1 DEF GenerateProbabilisticFlows, Extend
<1>7. CASE InsertDepartingVehicles
  <2>1. queue' = queue /\ built' = built
    BY <1>7 DEF InsertDepartingVehicles
  <2>2. PICK in, out :
          veh' = [n \in DOMAIN veh |->
                   IF n \in in THEN [veh[n] EXCEPT !.inserted = TRUE]
                   ELSE IF n \in out THEN [veh[n] EXCEPT !.inserted = TRUE, !.arrived = TRUE]
                   ELSE veh[n]]
    BY <1>7 DEF InsertDepartingVehicles
  <2>3. \A m \in 1..built : veh'[m].inTransfer = veh[m].inTransfer /\ (veh[m].arrived => veh'[m].arrived)
    BY <1>0, <2>2 DEF Runtime
  <2> QED BY <1>0, <2>1, <2>3, NoneLifted
\* Who leaves the queue is on the road again or has arrived.
<1>8. CASE ProcessTransferQueue
  <2>1. PICK in, hop, gone : Transfer(in, hop, gone) /\ built' = built
    BY <1>8 DEF ProcessTransferQueue
  <2>2. DOMAIN queue' = DOMAIN queue \ (in \cup gone)
    BY <2>1 DEF Transfer
  <2>3. ASSUME NEW n \in 1..built, veh'[n].inTransfer, ~veh'[n].arrived PROVE n \in DOMAIN queue'
    <3>1. n \notin in /\ n \notin gone
      BY <1>0, <2>1, <2>3 DEF Transfer, Runtime
    <3>2. veh'[n] = veh[n]
      BY <1>0, <2>1, <3>1 DEF Transfer
    <3> QED BY <2>2, <2>3, <3>1, <3>2 DEF InTransferIsQueued
  <2> QED BY <2>1, <2>3 DEF InTransferIsQueued
<1>9. CASE ExecuteMoves
  <2>1. queue' = queue /\ built' = built
    BY <1>9 DEF ExecuteMoves
  <2>2. \A m \in 1..built : veh'[m].inTransfer = veh[m].inTransfer /\ (veh[m].arrived => veh'[m].arrived)
    BY <1>0, <1>9 DEF ExecuteMoves, Runtime
  <2> QED BY <1>0, <2>1, <2>2, NoneLifted
<1>10. CASE CheckJamTeleports
  <2>1. PICK jammed, lifted : TeleportVehicle(jammed, lifted) /\ built' = built
    BY <1>10 DEF CheckJamTeleports
  <2>2. DOMAIN queue' = DOMAIN queue \cup lifted
    BY <2>1 DEF TeleportVehicle
  <2>3. ASSUME NEW n \in 1..built, veh'[n].inTransfer, ~veh'[n].arrived, n \notin lifted
        PROVE  veh[n].inTransfer /\ ~veh[n].arrived
    BY <1>0, <2>1, <2>3 DEF TeleportVehicle, Runtime
  <2> QED BY <2>1, <2>2, <2>3 DEF InTransferIsQueued
<1>11. CASE PublishReadState
  <2>1. queue' = queue /\ built' = built
    BY <1>11 DEF PublishReadState
  <2>2. veh' = [n \in DOMAIN veh |-> IF n \in ActiveVehicles THEN [veh[n] EXCEPT !.known = TRUE] ELSE veh[n]]
    BY <1>11 DEF PublishReadState
  <2>3. \A m \in 1..built : veh'[m].inTransfer = veh[m].inTransfer /\ veh'[m].arrived = veh[m].arrived
    BY <1>0, <2>2 DEF Runtime
  <2> QED BY <1>0, <2>1, <2>3, NoneLifted
<1>12. CASE BeginStep \/ AdvanceAgain \/ WarmUpEnds \/ UNCHANGED vars
  BY <1>5, <1>12 DEF BeginStep, AdvanceAgain, WarmUpEnds, vars
<1>13. ASSUME NEW n, NEW r, SetDestination(n, r) PROVE InTransferIsQueued'
  BY <1>4, <1>13 DEF SetDestination
<1>14. CASE UpdateReroutes
  BY <1>4, <1>5, <1>14 DEF UpdateReroutes
<1> QED BY <1>2, <1>3, <1>6, <1>7, <1>8, <1>9, <1>10, <1>11, <1>12, <1>13, <1>14 DEF Next, Host, Step

LEMMA TransferInit == Init => InTransferIsQueued
BY DEF Init, InTransferIsQueued

\* No vehicle is lost between the lanes, whatever is despawned or recycled.
THEOREM NoneLostInTransfer == Spec => []InTransferIsQueued
BY TypeInit, ShapeInit, TransferInit, TypeStep, TransferStep, PTL DEF Spec

-----------------------------------------------------------------------------
(* Slots that are never reused.  Vehicle n then keeps slot n, and what is  *)
(* kept by slot is its own.                                                *)

Fixed ==
  /\ count = built
  /\ \A n \in 1..built : veh[n].slot = n /\ occupant[n] = n

Routed ==
  /\ \A s \in Slots : s > built => effective[s] = NoRoute
  /\ \A n \in 1..built : EffectiveRoute(n) = veh[n].wanted

\* A queued vehicle is in transfer, so that no reroute reaches it, and has
\* hopped no further than its last edge.
Hops == \A n \in DOMAIN queue : veh[n].inTransfer /\ queue[n].edge <= Len(veh[n].wanted)

FixedInv == Fixed /\ Routed /\ Hops

LEMMA FixedInit == Init => FixedInv
BY DEF Init, FixedInv, Fixed, Routed, Hops

\* The steps that give no vehicle another slot or route.
LEMMA RoutesStay ==
  ASSUME TypeOK, FixedInv, UNCHANGED <<built, count, occupant, effective>>,
         \A n \in 1..built : /\ veh'[n].slot = veh[n].slot
                             /\ veh'[n].def = veh[n].def /\ veh'[n].wanted = veh[n].wanted
  PROVE  Fixed' /\ Routed'
<1>1. Fixed'
  BY DEF FixedInv, Fixed
<1>2. \A n \in 1..built : EffectiveRoute(n)' = EffectiveRoute(n)
  BY DEF EffectiveRoute
<1> QED BY <1>1, <1>2 DEF FixedInv, Routed

LEMMA ExtendKeepsFixed ==
  ASSUME TypeOK, FixedInv, built < MaxVehicles, NEW r \in Routes, NEW host, Extend(r, host),
         UNCHANGED <<clock, effective, queue>>
  PROVE  FixedInv'
<1>0. PICK m \in Slots : m = built + 1
  BY BoundAssumption DEF TypeOK, Slots
<1>1. /\ built \in Nat /\ clock \in Nat /\ built' = m /\ count' = m /\ m \in Slots /\ m \notin 1..built
      /\ \A n \in 1..built' : n \in 1..built \/ n = m
  BY <1>0, BoundAssumption DEF Extend, Build, TypeOK, Slots, FixedInv, Fixed
<1>2. /\ \A n \in 1..built : veh'[n] = veh[n]
      /\ veh'[m].slot = m /\ veh'[m].def = r /\ veh'[m].wanted = r
  BY <1>0, <1>1 DEF Extend, Build, FixedInv, Fixed
<1>3. occupant' = [occupant EXCEPT ![m] = m] /\ occupant \in [Slots -> 0..built] /\ 1..built \subseteq Slots
  <2>1. occupant' = [occupant EXCEPT ![m] = m]
    BY <1>0 DEF Extend, Build, FixedInv, Fixed
  <2>2. 1..built \subseteq Slots
    BY <1>1, BoundAssumption DEF Slots
  <2> QED BY <2>1, <2>2 DEF TypeOK
<1>4. Fixed'
  <2>1. \A n \in 1..built : occupant'[n] = n
    BY <1>1, <1>3 DEF FixedInv, Fixed
  <2>2. occupant'[m] = m
    BY <1>1, <1>3
  <2>3. \A n \in 1..built' : veh'[n].slot = n /\ occupant'[n] = n
    BY <1>1, <1>2, <2>1, <2>2 DEF FixedInv, Fixed
  <2> QED BY <1>1, <2>3 DEF Fixed
<1>5. Routed'
  <2>1. \A s \in Slots : s > built' => effective'[s] = NoRoute
    BY <1>0, <1>1 DEF FixedInv, Routed, Slots
  <2>2. effective'[m] = NoRoute
    BY <1>0, <1>1 DEF FixedInv, Routed
  <2>3. EffectiveRoute(m)' = veh'[m].wanted
    BY <1>2, <2>2 DEF EffectiveRoute
  <2>4. \A n \in 1..built : EffectiveRoute(n)' = veh'[n].wanted
    BY <1>2 DEF EffectiveRoute, FixedInv, Routed
  <2> QED BY <1>1, <2>1, <2>3, <2>4 DEF Routed
<1>6. Hops'
  BY <1>2 DEF FixedInv, Hops, TypeOK
<1> QED BY <1>4, <1>5, <1>6 DEF FixedInv

LEMMA ReplaceKeepsFixed ==
  ASSUME TypeOK, FixedInv, NEW v \in 1..built, NEW r \in Routes, OnRoad(veh[v]), Replace(v, r)
  PROVE  FixedInv'
<1>1. /\ UNCHANGED <<clock, built, count, occupant, queue>>
      /\ effective' = [effective EXCEPT ![v] = r]
  BY DEF Replace, FixedInv, Fixed
<1>2. /\ \A n \in 1..built : /\ veh'[n].slot = veh[n].slot
                             /\ veh'[n].def = veh[n].def /\ veh'[n].inTransfer = veh[n].inTransfer
      /\ \A n \in 1..built : n # v => veh'[n].wanted = veh[n].wanted
      /\ veh'[v].wanted = r
  BY DEF Replace, TypeOK, Runtime
<1>3. Fixed'
  BY <1>1, <1>2 DEF FixedInv, Fixed
<1>4. r # NoRoute /\ 1..built \subseteq Slots /\ effective \in [Slots -> Routes \cup {NoRoute}] /\ built \in Nat
  BY RoutesAssumption, BoundAssumption DEF NoRoute, TypeOK, Slots
<1>5. effective'[v] = r /\ \A s \in Slots : s # v => effective'[s] = effective[s]
  BY <1>1, <1>4
<1>6. \A n \in 1..built : veh'[n].slot = n /\ veh[n].slot = n
  BY <1>1, <1>3 DEF FixedInv, Fixed
<1>7. EffectiveRoute(v)' = veh'[v].wanted
  BY <1>2, <1>4, <1>5, <1>6 DEF EffectiveRoute
<1>8. \A n \in 1..built : n # v => EffectiveRoute(n)' = veh'[n].wanted
  BY <1>2, <1>4, <1>5, <1>6 DEF EffectiveRoute, FixedInv, Routed
<1>9. Routed'
  BY <1>1, <1>4, <1>5, <1>7, <1>8 DEF FixedInv, Routed
<1>10. v \notin DOMAIN queue
  BY DEF OnRoad, FixedInv, Hops
<1>11. Hops'
  BY <1>1, <1>2, <1>10 DEF FixedInv, Hops, TypeOK
<1> QED BY <1>3, <1>9, <1>11 DEF FixedInv

LEMMA HostKeepsFixed == ASSUME ~Recycle, TypeOK, Shape, FixedInv, Host PROVE FixedInv'
<1>0. /\ DOMAIN veh = 1..built /\ built \in Nat /\ clock \in Nat /\ DOMAIN queue \subseteq 1..built
      /\ \A n \in 1..built : veh[n] \in Runtime /\ occupant[veh[n].slot] = n
  BY DEF TypeOK, FixedInv, Fixed
<1>1. ASSUME NEW r \in Routes, SpawnVehicle(r) PROVE FixedInv'
  BY <1>1, ExtendKeepsFixed DEF SpawnVehicle
<1>2. ASSUME NEW n \in DOMAIN veh, Despawn(n) PROVE FixedInv'
  <2>1. UNCHANGED <<clock, built, count, occupant, effective, queue>>
    BY <1>2 DEF Despawn
  <2>2. veh' = [veh EXCEPT ![n].inserted = TRUE, ![n].arrived = TRUE]
    BY <1>0, <1>2 DEF Despawn
  <2>3. \A m \in 1..built : /\ veh'[m].slot = veh[m].slot
                            /\ veh'[m].def = veh[m].def /\ veh'[m].wanted = veh[m].wanted
                            /\ veh'[m].inTransfer = veh[m].inTransfer
    BY <1>0, <2>2 DEF Runtime
  <2>4. Hops'
    BY <1>0, <2>1, <2>3 DEF FixedInv, Hops
  <2> QED BY <1>0, <2>1, <2>3, <2>4, RoutesStay DEF FixedInv
<1>3. ASSUME NEW n \in DOMAIN veh, NEW r \in Routes, SetDestination(n, r) PROVE FixedInv'
  BY <1>0, <1>3, ReplaceKeepsFixed DEF SetDestination
<1>4. CASE BeginStep
  BY <1>4 DEF BeginStep, table, FixedInv, Fixed, Routed, Hops, EffectiveRoute
<1> QED BY <1>1, <1>2, <1>3, <1>4 DEF Host

LEMMA StepKeepsFixed == ASSUME TypeOK, Shape, FixedInv, Step PROVE FixedInv'
<1>0. /\ DOMAIN veh = 1..built /\ built \in Nat /\ clock \in Nat /\ DOMAIN queue \subseteq 1..built
      /\ \A n \in 1..built : veh[n] \in Runtime /\ EffectiveRoute(n) = veh[n].wanted
      /\ \A n \in DOMAIN queue : queue[n] \in Queued
  BY DEF TypeOK, FixedInv, Routed
<1> DEFINE Same(v, w) == /\ v.slot = w.slot /\ v.depart = w.depart
                         /\ v.def = w.def /\ v.wanted = w.wanted
<1>1. ASSUME UNCHANGED <<built, count, occupant, effective, queue>>, clock' \in {clock, clock + 1},
             \A n \in 1..built : Same(veh'[n], veh[n]) /\ veh'[n].inTransfer = veh[n].inTransfer
      PROVE  FixedInv'
  <2>1. Hops'
    BY <1>0, <1>1 DEF FixedInv, Hops
  <2> QED BY <1>0, <1>1, <2>1, RoutesStay DEF FixedInv
<1>2. CASE GenerateProbabilisticFlows
  <2>1. CASE UNCHANGED <<table, baseline>>
    BY <1>1, <1>2, <2>1 DEF GenerateProbabilisticFlows, table
  <2>2. ASSUME built < MaxVehicles, NEW r \in Routes, Extend(r, FALSE) PROVE FixedInv'
    BY <1>2, <2>2, ExtendKeepsFixed DEF GenerateProbabilisticFlows
  <2> QED BY <1>2, <2>1, <2>2 DEF GenerateProbabilisticFlows
<1>3. CASE InsertDepartingVehicles
  <2>1. UNCHANGED <<clock, built, count, occupant, effective, queue>>
    BY <1>3 DEF InsertDepartingVehicles
  <2>2. PICK in, out :
          veh' = [n \in DOMAIN veh |->
                   IF n \in in THEN [veh[n] EXCEPT !.inserted = TRUE]
                   ELSE IF n \in out THEN [veh[n] EXCEPT !.inserted = TRUE, !.arrived = TRUE]
                   ELSE veh[n]]
    BY <1>3 DEF InsertDepartingVehicles
  <2>3. \A n \in 1..built : Same(veh'[n], veh[n]) /\ veh'[n].inTransfer = veh[n].inTransfer
    BY <1>0, <2>2 DEF Runtime
  <2> QED BY <1>1, <2>1, <2>3
<1>4. CASE ProcessTransferQueue
  <2>1. UNCHANGED <<clock, built, count, occupant, effective>>
    BY <1>4 DEF ProcessTransferQueue
  <2>2. PICK in \in SUBSET DOMAIN queue, hop \in SUBSET DOMAIN queue :
          Transfer(in, hop, {n \in hop : queue[n].edge = Len(EffectiveRoute(n))})
    BY <1>4 DEF ProcessTransferQueue
  <2> DEFINE gone == {n \in hop : queue[n].edge = Len(EffectiveRoute(n))}
  <2>3. /\ \A n \in 1..built : Same(veh'[n], veh[n])
        /\ \A n \in 1..built : n \notin in => veh'[n].inTransfer = veh[n].inTransfer
    BY <1>0, <2>2 DEF Transfer, Runtime
  <2>4. Hops'
    <3> SUFFICES ASSUME NEW n \in DOMAIN queue'
                 PROVE  veh'[n].inTransfer /\ queue'[n].edge <= Len(veh'[n].wanted)
      BY DEF Hops
    <3>1. /\ n \in DOMAIN queue /\ n \notin in /\ n \notin gone
          /\ queue'[n].edge = IF n \in hop THEN queue[n].edge + 1 ELSE queue[n].edge
      BY <2>2 DEF Transfer
    <3>2. veh[n].inTransfer /\ queue[n].edge <= Len(veh[n].wanted) /\ EffectiveRoute(n) = veh[n].wanted
      BY <1>0, <3>1 DEF FixedInv, Hops
    <3>3. n \in hop => queue[n].edge # Len(veh[n].wanted)
      BY <3>1, <3>2
    <3>4. queue[n].edge \in Nat /\ Len(veh[n].wanted) \in Nat
      BY <1>0, <3>1, RouteEnds DEF Runtime, Queued
    <3> QED BY <1>0, <2>3, <3>1, <3>2, <3>3, <3>4
  <2> QED BY <1>0, <2>1, <2>3, <2>4, RoutesStay DEF FixedInv
<1>5. CASE UpdateReroutes
  <2>1. CASE UNCHANGED <<clock, table, effective, queue, report>>
    BY <1>1, <2>1 DEF table
  <2>2. ASSUME NEW v \in ActiveVehicles, NEW r \in Routes, Replace(v, r) PROVE FixedInv'
    BY <2>2, ActiveType, ReplaceKeepsFixed DEF ActiveVehicles
  <2> QED BY <1>5, <2>1, <2>2 DEF UpdateReroutes
<1>6. CASE ExecuteMoves
  <2>1. UNCHANGED <<clock, built, count, occupant, effective, queue>>
    BY <1>6 DEF ExecuteMoves
  <2>2. \A n \in 1..built : Same(veh'[n], veh[n]) /\ veh'[n].inTransfer = veh[n].inTransfer
    BY <1>0, <1>6 DEF ExecuteMoves, Runtime
  <2> QED BY <1>1, <2>1, <2>2
<1>7. CASE CheckJamTeleports
  <2>1. UNCHANGED <<clock, built, count, occupant, effective>>
    BY <1>7 DEF CheckJamTeleports
  <2>2. PICK jammed, lifted : /\ TeleportVehicle(jammed, lifted) /\ lifted \subseteq 1..built
                              /\ \A n \in lifted : veh[n].at < Len(EffectiveRoute(n))
    BY <1>7, ActiveType DEF CheckJamTeleports
  <2>3. \A n \in 1..built : Same(veh'[n], veh[n]) /\ (veh[n].inTransfer => veh'[n].inTransfer)
                            /\ (n \in lifted => veh'[n].inTransfer)
    BY <1>0, <2>2 DEF TeleportVehicle, Runtime
  <2>4. Hops'
    <3> SUFFICES ASSUME NEW n \in DOMAIN queue'
                 PROVE  veh'[n].inTransfer /\ queue'[n].edge <= Len(veh'[n].wanted)
      BY DEF Hops
    <3>1. n \in 1..built /\ (n \in lifted \/ n \in DOMAIN queue)
      BY <1>0, <2>2 DEF TeleportVehicle
    <3>2. CASE n \in lifted
      <4>1. queue'[n].edge = veh[n].at + 1
        BY <2>2, <3>2 DEF TeleportVehicle
      <4>2. veh[n].at \in Nat /\ Len(veh[n].wanted) \in Nat
        BY <1>0, <3>1, RouteEnds DEF Runtime
      <4>3. veh[n].at < Len(veh[n].wanted)
        BY <1>0, <2>2, <3>1, <3>2
      <4> QED BY <2>3, <3>1, <3>2, <4>1, <4>2, <4>3
    <3>3. CASE n \notin lifted
      <4>1. queue'[n] = queue[n] /\ n \in DOMAIN queue
        BY <2>2, <3>1, <3>3 DEF TeleportVehicle
      <4> QED BY <2>3, <3>1, <4>1 DEF FixedInv, Hops
    <3> QED BY <3>2, <3>3
  <2> QED BY <1>0, <2>1, <2>3, <2>4, RoutesStay DEF FixedInv
<1>8. CASE AdvanceAgain \/ WarmUpEnds
  BY <1>1, <1>8 DEF AdvanceAgain, WarmUpEnds, table
<1>9. CASE PublishReadState
  <2>1. UNCHANGED <<built, count, occupant, effective, queue>> /\ clock' = clock + 1
    BY <1>9 DEF PublishReadState
  <2>2. veh' = [n \in DOMAIN veh |-> IF n \in ActiveVehicles THEN [veh[n] EXCEPT !.known = TRUE] ELSE veh[n]]
    BY <1>9 DEF PublishReadState
  <2>3. \A n \in 1..built : Same(veh'[n], veh[n]) /\ veh'[n].inTransfer = veh[n].inTransfer
    BY <1>0, <2>2 DEF Runtime
  <2> QED BY <1>1, <2>1, <2>3
<1> QED BY <1>2, <1>3, <1>4, <1>5, <1>6, <1>7, <1>8, <1>9 DEF Step

LEMMA FixedStep == ASSUME ~Recycle, TypeOK, Shape, FixedInv, [Next]_vars PROVE FixedInv'
<1>1. CASE UNCHANGED vars
  BY <1>1 DEF vars, table, FixedInv, Fixed, Routed, Hops, EffectiveRoute
<1> QED BY <1>1, HostKeepsFixed, StepKeepsFixed DEF Next

\* No pass over the transfer queue reads a route beyond its end, when slots
\* are not recycled.
THEOREM HopsInRange == ASSUME ~Recycle PROVE Spec => []TransferIndexInRange
<1>1. TypeOK /\ FixedInv => TransferIndexInRange
  BY DEF TypeOK, FixedInv, Routed, Hops, TransferIndexInRange, CanReadQueue
<1> QED BY <1>1, TypeInit, ShapeInit, FixedInit, TypeStep, FixedStep, PTL DEF Spec

\* A vehicle that was announced and is gone has been reported gone when the
\* next frame is published, when slots are not recycled.
THEOREM GoneReported == ASSUME ~Recycle PROVE Spec => GoneIsReported
<1> DEFINE Reports == PublishReadState =>
                        \A n \in 1..built : veh[n].arrived /\ told[n] # <<>> =>
                          told'[n][Len(told'[n])] = Arrived
<1>1. ASSUME TypeOK, Shape, FixedInv, Story, PublishReadState, NEW n \in 1..built, veh[n].arrived
      PROVE  told'[n][Len(told'[n])] = Arrived
  <2>1. n \in 1..count /\ n \in 1..count' /\ occupant[n] = n /\ occupant'[n] = n /\ n \in Slots
    BY <1>1, ActiveType DEF FixedInv, Fixed, PublishReadState
  <2>2. Told(n, n)'
    BY <1>1, <2>1, PublishKeepsStory DEF Story
  <2>3. baseline'[n] = Arrived
    BY <1>1, <2>1 DEF PublishReadState, Kind, Lifecycle
  <2>4. told'[n] \in {<<Arrived>>, <<Active, Arrived>>}
    BY <2>2, <2>3 DEF Told, Pending, Active, Arrived
  <2>5. CASE told'[n] = <<Arrived>>
    BY <2>5
  <2>6. CASE told'[n] = <<Active, Arrived>>
    BY <2>6
  <2> QED BY <2>4, <2>5, <2>6
<1>2. TypeOK /\ Shape /\ FixedInv /\ Story /\ [Next]_vars => [Reports]_vars
  BY <1>1
<1> QED BY <1>2, TypeInit, ShapeInit, FixedInit, StoryInit, TypeStep, FixedStep, StoryStep, PTL
        DEF Spec, GoneIsReported
=============================================================================
