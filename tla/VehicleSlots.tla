---------------------------- MODULE VehicleSlots ----------------------------
(***************************************************************************)
(* The vehicle table of Sim.Core/Engine.cs: slots and their recycling,     *)
(* handles with a generation, the routes and the lifecycle events that are *)
(* kept by slot, the queue of teleporting vehicles, and the frame Step     *)
(* publishes.  The engine has one thread: a host calls it between steps    *)
(* (phase "host"), and AdvanceOneStep runs its phases in a fixed order.    *)
(*                                                                         *)
(* Vehicle n is the n-th VehicleRuntime built; slot s is EntityIndex + 1.  *)
(* Whether a gap is wide enough, a lane free or a trip over is traffic,    *)
(* and arbitrary here; who is asked, in which order, and what is written   *)
(* is the code's.                                                          *)
(***************************************************************************)
EXTENDS Integers, Sequences, FiniteSets

CONSTANTS
  Routes,         \* the edge sequences the router knows
  Generations,    \* values of a handle's generation, 2^16 in the code
  Recycle,        \* RecycleVehicleSlots
  Teleport,       \* TimeToTeleport > 0
  Flows,          \* the demand has a probabilistic flow
  MaxDepartDelay, \* steps, negative when off
  MaxVehicles,    \* bound: vehicles built
  MaxDespawns,    \* bound: successful calls of Despawn
  MaxSteps        \* bound: simulation steps

ASSUME RoutesAssumption == Routes \subseteq Seq(STRING) \ {<<>>}
ASSUME SwitchAssumption == {Recycle, Teleport, Flows} \subseteq BOOLEAN
ASSUME BoundAssumption ==
  /\ Generations \in Nat \ {0, 1} /\ MaxDepartDelay \in Int
  /\ {MaxVehicles, MaxDespawns, MaxSteps} \subseteq Nat

Vehicles == 1..MaxVehicles
Slots    == 1..MaxVehicles
Edges    == UNION {{r[i] : i \in DOMAIN r} : r \in Routes}
NoRoute  == <<>>

VARIABLES
  phase,       \* "host", or the phase of AdvanceOneStep that is next
  clock,       \* _elapsedSteps
  built,       \* VehicleRuntime objects made so far
  veh,         \* the objects
  count,       \* _vehicles.Count
  occupant,    \* _vehicles
  generation,  \* _vehicleGeneration
  free,        \* _freeEntitySlots, the top last
  despawns,    \* successful calls of Despawn
  effective,   \* _effectiveRouteIdByEntity
  queue,       \* _transferQueue, by vehicle
  baseline,    \* _prevLifecycle
  events,      \* Engine.Events; at most one a slot, in the order of the slots
  frame,       \* _readBuffer: the vehicle whose row a slot has, 0 for none
  told         \* the kinds of event reported of each vehicle so far

table  == <<built, veh, count, occupant, generation, free, despawns>>
report == <<baseline, events, frame, told>>
vars   == <<phase, clock, table, effective, queue, report>>

Pending == 1
Active  == 2
Arrived == 3

Handle == [slot : Slots, gen : 0..Generations - 1]

\* A VehicleRuntime: the handle given out for it, its Def (route, depart) and
\* its flags; `at' is where on its effective route it is, `known' whether a
\* host has its handle, `wanted' the route last asked for through it.
Runtime == [slot : Slots, gen : 0..Generations - 1, def : Routes, depart : Nat,
            inserted : BOOLEAN, arrived : BOOLEAN, inTransfer : BOOLEAN,
            at : Nat, known : BOOLEAN, wanted : Routes]

HandleOf(n) == [slot |-> veh[n].slot, gen |-> veh[n].gen]

\* The generation test every call with a handle begins with.
Resolves(h) == h.slot <= count /\ generation[h.slot] = h.gen

Lifecycle(v) == IF v.arrived THEN Arrived ELSE IF v.inserted THEN Active ELSE Pending

OnRoad(v) == v.inserted /\ ~v.arrived /\ ~v.inTransfer
Occupants == {occupant[s] : s \in 1..count}
ActiveVehicles == {n \in Occupants : OnRoad(veh[n])}

EffectiveRoute(n) ==
  IF effective[veh[n].slot] # NoRoute THEN effective[veh[n].slot] ELSE veh[n].def
Edge(n) == EffectiveRoute(n)[veh[n].at]

Init ==
  /\ phase = "host" /\ clock = 0
  /\ built = 0 /\ veh = [n \in {} |-> n]
  /\ count = 0 /\ occupant = [s \in Slots |-> 0]
  /\ generation = [s \in Slots |-> 1]
  /\ free = <<>> /\ despawns = 0
  /\ effective = [s \in Slots |-> NoRoute]
  /\ queue = [n \in {} |-> n]
  /\ baseline = [s \in Slots |-> 0]
  /\ events = {}
  /\ frame = [s \in Slots |-> 0]
  /\ told = [n \in Vehicles |-> <<>>]


-----------------------------------------------------------------------------
(* The host, between steps.                                                *)

\* BuildRuntime: a new object for slot s.  Of what is kept by slot it resets
\* the stops and the avoided edges, which are not modelled.
Build(s, r, host) ==
  /\ built' = built + 1
  /\ veh' = [n \in 1..built + 1 |->
       IF n <= built THEN veh[n]
       ELSE [slot |-> s, gen |-> generation[s], def |-> r, depart |-> clock,
             inserted |-> FALSE, arrived |-> FALSE, inTransfer |-> FALSE,
             at |-> 1, known |-> host, wanted |-> r]]
  /\ occupant' = [occupant EXCEPT ![s] = built + 1]

\* AllocateRuntime and CreateRuntime, the branch that appends.
Extend(r, host) ==
  /\ Build(count + 1, r, host)
  /\ count' = count + 1
  /\ UNCHANGED <<free, baseline>>

\* The freed slot is looked at and not taken.
Reuse_Peek(r) ==
  /\ Build(free[Len(free)], r, TRUE)
  /\ free' = free
  /\ baseline' = [baseline EXCEPT ![free[Len(free)]] = 0]
  /\ UNCHANGED count

\* The stage last reported of the slot is not reset.
Reuse_KeepsBaseline(r) ==
  /\ Build(free[Len(free)], r, TRUE)
  /\ free' = SubSeq(free, 1, Len(free) - 1)
  /\ baseline' = baseline
  /\ UNCHANGED count

\* AllocateRuntime, the branch that takes a freed slot.
Reuse(r) ==
  /\ Build(free[Len(free)], r, TRUE)
  /\ free' = SubSeq(free, 1, Len(free) - 1)
  /\ baseline' = [baseline EXCEPT ![free[Len(free)]] = 0]
  /\ UNCHANGED count

SpawnVehicle(r) ==
  /\ phase = "host" /\ built < MaxVehicles
  /\ IF Recycle /\ free # <<>> THEN Reuse(r) ELSE Extend(r, TRUE)
  /\ UNCHANGED <<phase, clock, generation, despawns, effective, queue, events, frame, told>>

\* The generation is not bumped.
Despawn_KeepsGeneration(n) ==
  LET s == veh[n].slot  v == occupant[s] IN
  /\ phase = "host" /\ despawns < MaxDespawns
  /\ veh[n].known /\ Resolves(HandleOf(n))
  /\ ~veh[v].arrived
  /\ veh' = [veh EXCEPT ![v].inserted = TRUE, ![v].arrived = TRUE]
  /\ generation' = generation
  /\ free' = IF Recycle THEN Append(free, s) ELSE free
  /\ despawns' = despawns + 1
  /\ UNCHANGED <<phase, clock, built, count, occupant, effective, queue, report>>

\* The generation is wider than a handle's.
Despawn_NoWrap(n) ==
  LET s == veh[n].slot  v == occupant[s] IN
  /\ phase = "host" /\ despawns < MaxDespawns
  /\ veh[n].known /\ Resolves(HandleOf(n))
  /\ ~veh[v].arrived
  /\ veh' = [veh EXCEPT ![v].inserted = TRUE, ![v].arrived = TRUE]
  /\ generation' = [generation EXCEPT ![s] = @ + 1]
  /\ free' = IF Recycle THEN Append(free, s) ELSE free
  /\ despawns' = despawns + 1
  /\ UNCHANGED <<phase, clock, built, count, occupant, effective, queue, report>>

\* Despawn with the handle the host got for vehicle n.
Despawn(n) ==
  LET s == veh[n].slot  v == occupant[s] IN
  /\ phase = "host" /\ despawns < MaxDespawns
  /\ veh[n].known /\ Resolves(HandleOf(n))
  /\ ~veh[v].arrived
  /\ veh' = [veh EXCEPT ![v].inserted = TRUE, ![v].arrived = TRUE]
  /\ generation' = [generation EXCEPT ![s] = (@ + 1) % Generations]
  /\ free' = IF Recycle THEN Append(free, s) ELSE free
  /\ despawns' = despawns + 1
  /\ UNCHANGED <<phase, clock, built, count, occupant, effective, queue, report>>

\* RegisterRerouted and ReplaceRoute: vehicle v goes on along r, which starts
\* on its edge.
Replace(v, r) ==
  /\ r[1] = Edge(v)
  /\ effective' = [effective EXCEPT ![veh[v].slot] = r]
  /\ veh' = [veh EXCEPT ![v].at = 1, ![v].wanted = r]
  /\ UNCHANGED <<clock, built, count, occupant, generation, free, despawns, queue, report>>

\* SetDestination and Reroute, with the handle the host got for vehicle n.
SetDestination(n, r) ==
  /\ phase = "host" /\ veh[n].known /\ Resolves(HandleOf(n))
  /\ OnRoad(veh[occupant[veh[n].slot]])
  /\ Replace(occupant[veh[n].slot], r)
  /\ UNCHANGED phase

-----------------------------------------------------------------------------
(* AdvanceOneStep.                                                         *)

BeginStep ==
  /\ phase = "host" /\ clock < MaxSteps
  /\ phase' = "flows"
  /\ UNCHANGED <<clock, table, effective, queue, report>>

\* One draw per step of the flow: it may materialise a vehicle, which is
\* always appended.
GenerateProbabilisticFlows ==
  /\ phase = "flows" /\ phase' = "insert"
  /\ \/ UNCHANGED <<table, baseline>>
     \/ /\ Flows /\ built < MaxVehicles
        /\ \E r \in Routes : Extend(r, FALSE)
        /\ UNCHANGED <<generation, despawns>>
  /\ UNCHANGED <<clock, effective, queue, events, frame, told>>

\* The depart queue: by depart time, ties by EntityIndex.
Due == {n \in Occupants : Lifecycle(veh[n]) = Pending /\ veh[n].depart <= clock}
Earlier(a, b) ==
  \/ veh[a].depart < veh[b].depart
  \/ veh[a].depart = veh[b].depart /\ veh[a].slot < veh[b].slot
DepartEdge(n) == EffectiveRoute(n)[1]

\* After the first refusal on a lane the later candidates of that lane are
\* not tried; those on an edge the camera sees are held back.  A candidate
\* that was refused and is overdue is evicted.
InsertDepartingVehicles ==
  /\ phase = "insert" /\ phase' = IF Teleport THEN "transfer" ELSE "reroute"
  /\ \E visible \in SUBSET Edges :
     LET tried == {n \in Due : DepartEdge(n) \notin visible} IN
     \E in \in SUBSET tried :
       /\ \A a \in tried, b \in in :
            DepartEdge(a) = DepartEdge(b) /\ Earlier(a, b) => a \in in
       /\ LET out == {n \in tried \ in : /\ MaxDepartDelay >= 0
                                         /\ clock - veh[n].depart > MaxDepartDelay} IN
          veh' = [n \in DOMAIN veh |->
                    IF n \in in THEN [veh[n] EXCEPT !.inserted = TRUE]
                    ELSE IF n \in out THEN [veh[n] EXCEPT !.inserted = TRUE, !.arrived = TRUE]
                    ELSE veh[n]]
  /\ UNCHANGED <<clock, built, count, occupant, generation, free, despawns, effective, queue, report>>

\* ProcessTransferQueue: each queued vehicle, whatever has become of it, is
\* put back on the edge it has jumped to, or waits, or - once its proceed
\* clock has been set and has run out - hops to the next edge, which past the
\* last one ends its trip.
CanReadQueue == \A n \in DOMAIN queue : queue[n].edge <= Len(EffectiveRoute(n))

\* The vehicles of `gone' are not removed, only their entries.
Transfer_Drops(in, hop, gone) ==
  /\ veh' = [n \in DOMAIN veh |->
       IF n \in in THEN [veh[n] EXCEPT !.inTransfer = FALSE, !.at = queue[n].edge] ELSE veh[n]]
  /\ queue' = [n \in DOMAIN queue \ (in \cup gone) |->
       [edge |-> IF n \in hop THEN queue[n].edge + 1 ELSE queue[n].edge, armed |-> TRUE]]

\* One pass: `in' are inserted, `hop' are one edge further, `gone' are past
\* their last edge.
Transfer(in, hop, gone) ==
  /\ veh' = [n \in DOMAIN veh |->
       IF n \in in THEN [veh[n] EXCEPT !.inTransfer = FALSE, !.at = queue[n].edge]
       ELSE IF n \in gone THEN [veh[n] EXCEPT !.arrived = TRUE] ELSE veh[n]]
  /\ queue' = [n \in DOMAIN queue \ (in \cup gone) |->
       [edge |-> IF n \in hop THEN queue[n].edge + 1 ELSE queue[n].edge, armed |-> TRUE]]

\* The hop does not look for the end of the route.
ProcessTransferQueue_HopsOff ==
  /\ phase = "transfer" /\ phase' = "reroute"
  /\ CanReadQueue
  /\ \E in \in SUBSET DOMAIN queue :
     \E hop \in SUBSET {n \in DOMAIN queue \ in : queue[n].armed} : Transfer(in, hop, {})
  /\ UNCHANGED <<clock, built, count, occupant, generation, free, despawns, effective, report>>

ProcessTransferQueue ==
  /\ phase = "transfer" /\ phase' = "reroute"
  /\ CanReadQueue
  /\ \E in \in SUBSET DOMAIN queue :
     \E hop \in SUBSET {n \in DOMAIN queue \ in : queue[n].armed} :
       Transfer(in, hop, {n \in hop : queue[n].edge = Len(EffectiveRoute(n))})
  /\ UNCHANGED <<clock, built, count, occupant, generation, free, despawns, effective, report>>

\* UpdateReroutes: a vehicle behind a blockage gets a detour of its own (bound:
\* one vehicle a step).
UpdateReroutes ==
  /\ phase = "reroute" /\ phase' = "move"
  /\ \/ UNCHANGED <<clock, table, effective, queue, report>>
     \/ \E v \in ActiveVehicles, r \in Routes :
          /\ r # SubSeq(EffectiveRoute(v), veh[v].at, Len(EffectiveRoute(v)))
          /\ Replace(v, r)

\* ExecuteMoves: vehicles enter the next edge of their route; past the last
\* one they have arrived.
ExecuteMoves ==
  /\ phase = "move" /\ phase' = IF Teleport THEN "jam" ELSE "end"
  /\ \E moving \in SUBSET ActiveVehicles :
       veh' = [n \in DOMAIN veh |->
         IF n \notin moving THEN veh[n]
         ELSE IF veh[n].at = Len(EffectiveRoute(n)) THEN [veh[n] EXCEPT !.arrived = TRUE]
         ELSE [veh[n] EXCEPT !.at = @ + 1]]
  /\ UNCHANGED <<clock, built, count, occupant, generation, free, despawns, effective, queue, report>>

\* TeleportVehicle, of all that are jammed: `lifted' go into the queue, the
\* others end their trips.
TeleportVehicle(jammed, lifted) ==
  /\ veh' = [n \in DOMAIN veh |->
       IF n \in lifted THEN [veh[n] EXCEPT !.inTransfer = TRUE]
       ELSE IF n \in jammed THEN [veh[n] EXCEPT !.arrived = TRUE] ELSE veh[n]]
  /\ queue' = [n \in DOMAIN queue \cup lifted |->
       IF n \in lifted THEN [edge |-> veh[n].at + 1, armed |-> FALSE] ELSE queue[n]]

\* CheckJamTeleports: a jammed vehicle with an edge ahead is lifted; the others
\* are removed, as all are under time-to-teleport.remove.
CheckJamTeleports ==
  /\ phase = "jam" /\ phase' = "end"
  /\ \E jammed \in SUBSET ActiveVehicles, remove \in BOOLEAN :
       TeleportVehicle(jammed, {n \in jammed : ~remove /\ veh[n].at < Len(EffectiveRoute(n))})
  /\ UNCHANGED <<clock, built, count, occupant, generation, free, despawns, effective, report>>

\* Advance goes round again, for Step(n) and WarmUp(n).
AdvanceAgain ==
  /\ phase = "end" /\ clock + 1 < MaxSteps
  /\ clock' = clock + 1 /\ phase' = "flows"
  /\ UNCHANGED <<table, effective, queue, report>>

\* The last step of WarmUp, which publishes nothing.
WarmUpEnds ==
  /\ phase = "end"
  /\ clock' = clock + 1 /\ phase' = "host"
  /\ UNCHANGED <<table, effective, queue, report>>

\* PublishReadState: the active vehicles become the frame, the slots whose
\* occupant is not at the stage it was at the last time become the events.
Kind(s) == Lifecycle(veh[occupant[s]])

\* Only the active vehicles are compared with their last stage.
Changed_ActiveOnly ==
  {s \in 1..count : Kind(s) \notin {baseline[s], Pending, Arrived}}

Changed == {s \in 1..count : Kind(s) \notin {baseline[s], Pending}}

\* The stage reported is not remembered.
PublishReadState_KeepsBaseline ==
  /\ phase = "end"
  /\ clock' = clock + 1 /\ phase' = "host"
  /\ frame' = [s \in Slots |-> IF occupant[s] \in ActiveVehicles THEN occupant[s] ELSE 0]
  /\ events' = {[handle |-> [slot |-> s, gen |-> generation[s]], kind |-> Kind(s)] : s \in Changed}
  /\ UNCHANGED baseline
  /\ told' = [n \in Vehicles |->
       IF \E s \in Changed : occupant[s] = n
       THEN Append(told[n], Lifecycle(veh[n])) ELSE told[n]]
  /\ veh' = [n \in DOMAIN veh |-> IF n \in ActiveVehicles THEN [veh[n] EXCEPT !.known = TRUE] ELSE veh[n]]
  /\ UNCHANGED <<built, count, occupant, generation, free, despawns, effective, queue>>

PublishReadState ==
  /\ phase = "end"
  /\ clock' = clock + 1 /\ phase' = "host"
  /\ frame' = [s \in Slots |-> IF occupant[s] \in ActiveVehicles THEN occupant[s] ELSE 0]
  /\ events' = {[handle |-> [slot |-> s, gen |-> generation[s]], kind |-> Kind(s)] : s \in Changed}
  /\ baseline' = [s \in Slots |-> IF s <= count THEN Kind(s) ELSE baseline[s]]
  /\ told' = [n \in Vehicles |->
       IF \E s \in Changed : occupant[s] = n
       THEN Append(told[n], Lifecycle(veh[n])) ELSE told[n]]
  /\ veh' = [n \in DOMAIN veh |-> IF n \in ActiveVehicles THEN [veh[n] EXCEPT !.known = TRUE] ELSE veh[n]]
  /\ UNCHANGED <<built, count, occupant, generation, free, despawns, effective, queue>>

-----------------------------------------------------------------------------
Host ==
  \/ \E r \in Routes : SpawnVehicle(r)
  \/ \E n \in DOMAIN veh : Despawn(n)
  \/ \E n \in DOMAIN veh, r \in Routes : SetDestination(n, r)
  \/ BeginStep

Step ==
  \/ GenerateProbabilisticFlows \/ InsertDepartingVehicles
  \/ ProcessTransferQueue \/ UpdateReroutes \/ ExecuteMoves
  \/ CheckJamTeleports \/ AdvanceAgain \/ WarmUpEnds \/ PublishReadState

Next == Host \/ Step

Spec == Init /\ [][Next]_vars

-----------------------------------------------------------------------------
Queued == [edge : Nat, armed : BOOLEAN]

TypeOK ==
  /\ phase \in {"host", "flows", "insert", "transfer", "reroute", "move", "jam", "end"}
  /\ clock \in 0..MaxSteps /\ built \in 0..MaxVehicles /\ despawns \in 0..MaxDespawns
  /\ veh \in [1..built -> Runtime]
  /\ count \in 0..built
  /\ occupant \in [Slots -> 0..built]
  /\ generation \in [Slots -> 0..Generations - 1]
  /\ free \in Seq(Slots)
  /\ effective \in [Slots -> Routes \cup {NoRoute}]
  /\ DOMAIN queue \subseteq 1..built /\ \A n \in DOMAIN queue : queue[n] \in Queued
  /\ baseline \in [Slots -> {0, Pending, Active, Arrived}]
  /\ events \subseteq [handle : Handle, kind : {Active, Arrived}]
  /\ frame \in [Slots -> 0..built]
  /\ told \in [Vehicles -> Seq({Active, Arrived})]

\* A handle names the vehicle it was given out for or nothing at all: the
\* generation test rejects it once the vehicle was despawned, however often
\* its slot is reused (short of a wrap of the generation).
HandleNamesItsVehicle ==
  \A n \in 1..built : Resolves(HandleOf(n)) => occupant[veh[n].slot] = n

\* No slot is reused under a vehicle that still waits, drives or teleports,
\* and its handle stays good.
LiveVehicleKeepsItsSlot ==
  \A n \in 1..built : ~veh[n].arrived =>
    occupant[veh[n].slot] = n /\ Resolves(HandleOf(n))

\* A vehicle that is off the road because it teleports is queued to come back:
\* none is lost between the lanes.
InTransferIsQueued ==
  \A n \in 1..built : veh[n].inTransfer /\ ~veh[n].arrived => n \in DOMAIN queue

\* The events of a vehicle tell its life in order and without repetition.
\* (Arrived alone is a vehicle that was evicted or despawned while it waited,
\* or that lived between two publications.)
EventsTellTheLife ==
  \A n \in Vehicles : told[n] \in {<<>>, <<Active>>, <<Arrived>>, <<Active, Arrived>>}

\* A vehicle in the published frame has been announced by a Departed event,
\* also when its slot was somebody else's in the frame before.
PublishedWasAnnounced == \A s \in Slots : frame[s] # 0 => told[frame[s]] # <<>>

\* "Departed (Pending -> Active) and Arrived (route completion, and despawn)":
\* a vehicle that was announced and is gone when Step publishes has had its
\* Arrived event.
GoneIsReported ==
  [][ PublishReadState =>
        \A n \in 1..built : veh[n].arrived /\ told[n] # <<>> =>
          told'[n][Len(told'[n])] = Arrived ]_vars

\* "The recycled slot carries none of the previous occupant's state": a vehicle
\* follows the route it was last given, by its own spawn or its own reroute.
OwnRoute ==
  \A n \in Occupants : ~veh[n].arrived => EffectiveRoute(n) = veh[n].wanted

\* "`_vehicles` is in definition order", so insertion is in "depart-time order
\* with definition-order ties" and "per-lane FIFO is preserved": of two vehicles
\* that wait for one lane the one built first is inserted first.  It fails when
\* slots are recycled, as they are by default: ties are broken by slot.
InsertionIsFifo ==
  [][ \A a, b \in 1..built :
        /\ a < b /\ a \in Due /\ b \in Due /\ DepartEdge(a) = DepartEdge(b)
        /\ OnRoad(veh'[b])
        => Lifecycle(veh'[a]) # Pending ]_vars

\* "EdgeIndex is the index INTO its route's Edges list": wherever a queued
\* vehicle has hopped to, the next pass over the queue reads no route beyond
\* its end.
TransferIndexInRange == CanReadQueue

-----------------------------------------------------------------------------
(* The table implements HandleTable: who is reached is whoever occupies the *)
(* slot of a handle that passes the generation test.                        *)

Gone    == {n \in 1..built : veh[n].arrived}
Reaches == {<<n, occupant[veh[n].slot]>> : n \in {m \in 1..built : Resolves(HandleOf(m))}}

Promise == INSTANCE HandleTable WITH gone <- Gone, reaches <- Reaches

\* Through every spawn, reuse, despawn, eviction and arrival: one Despawn takes
\* one handle away, and none ever comes back or changes whom it names (short of
\* a wrap of the generation).
ImplementsHandleTable == Promise!Spec
=============================================================================
