# SumoSharp in TLA+

SumoSharp (`src/`) reimplements the SUMO traffic simulation in C#/.NET: a
single-threaded engine, a runner that lets several host threads talk to it,
publishers and transports that carry its state to remote viewers, and
pedestrians, parking and evacuation built around it. This directory holds TLA+
models of the parts of that program whose difficulty is in ordering, sharing and
life cycles, the TLC configurations that check them on small instances, and
theorems, proved with TLAPS, that hold for every value of the constants.

    tlc -config <run>.cfg <module>     model-check a run
    tlapm <module>_proofs.tla          check the proofs of a module

`PROJECT.json` lists the components, the runs, the source lines every definition
stands for, the hazards of the code with the properties that guard against them,
a faulty variant of the code for every property, and the theorems. Paths below
are relative to `src/src/`.

## 1. The system

| component | state it keeps | operations | what makes it correct |
|---|---|---|---|
| **SimulationRunner** (`Sim.Core`) | `_running`, `_paused`, `_thread`, `LastError`; the lists `_incoming`, `_draining`; a ring of snapshot arrays, `_published`, `_previous` | Post, Invoke, Tick, Start, Pause, Resume, Stop; Snapshot, TryInterpolateVehicle | one thread in the engine; commands once each, in order, at step boundaries; blocked calls return; a frame is not overwritten while it may be held |
| **Engine, vehicle table** (`Sim.Core/Engine.cs`) | `_vehicles`, generations, free slots, per-slot side tables, transfer queue, lifecycle baseline, read buffer, events | SpawnVehicle, Despawn, SetDestination, Reroute, Step, WarmUp and the phases of AdvanceOneStep | a handle names its vehicle or nothing; slots are not reused under a live vehicle; nothing of the previous occupant shows; each vehicle's events tell its life |
| Engine, plan and execute | command buffer, regions | record commands in parallel, apply in order | the result does not depend on the number of regions |
| Car following, lane changing, kinematics | none beyond the vehicle | formulas | equality with SUMO's trajectories |
| **Traffic lights** (`Sim.Core/ActuatedTrafficLightLogic.cs`, a port of SUMO's) | phase, last and next switch, loop sets and leave times | Advance, TrySwitch, NotifyMove | a phase lasts between its bounds; a loop's set is what stands on it; every phase has its turn; the same as SUMO's |
| Obstacles, ORCA crowd, mixed crowd | dense list, free list, generations | Add, Remove, Update | as for the vehicle table |
| Engine snapshots | copies of columns | Save, Load | a round trip is the identity |
| **Replication** (`Sim.Host`, `Sim.Replication`, `Sim.Replication.Dds`) | `_knownVehicles`, `_lastSent`; queue or topics; dimensions, names, histories | PublishStep; Enqueue or Write; Pump | the viewer's fleet is the engine's fleet, also for a late joiner; histories are ordered; publisher and viewer extrapolate from the same sample |
| **SimHost**, its page and sockets (`Sim.LiveHost`) | current runner, obstacle markers, frame cache; per page the last step and what it shows | restart, obstacle, clear; BuildFrameJson; ingestFrame | frames are of the current run; all pages follow a restart; every click is carried out; markers are obstacles |
| EngineHost (`Sim.Viewer.Core`) | current runner, obstacle markers, generation | rebuild, commands, SnapshotPair | nothing is sent to, or shown of, a discarded simulation |
| **LiveCitySource** (`src/demos/City3D/CityLib`) over the live city | producer thread, request slots, published slot | StartThreadedTick, Tick, setters, Published, Dispose | two threads are never in the simulation together; frames move on; a request takes effect |
| Live city, coupled step | cars, pedestrians, crossings | Step | one fixed order of phases |
| Remote commands and status | DDS topics | restart seen from afar | no frame of the old timeline survives a restart |
| Pedestrian level of detail and its replication | regime per pedestrian, crowd slots, schedulers | promote, demote, publish, receive | one regime at a time; no slot leaks |
| Pedestrian demand, navigation, crossings | blocker epochs, cached paths, occupancy | reroute, gate | no stale path; a car and a pedestrian never both have the crossing |
| Parking, rides, evacuation | who is parked, in which car, where | enter, leave, abandon | a person and a car exist once |
| Bridge and unified world, collision solvers | discs, half planes | coupled step | geometry |
| Parsing, routing, codecs, recording, dead reckoning, rendering, benches, image generator bridge | | | round trips and formulas, covered by the repository's tests |

**How they interact.** A host (EngineHost, SimHost, a demo) calls the runner from
its UI threads. The runner's loop thread drains the posted commands, steps the
engine, captures a snapshot and publishes two references; the hosts interpolate
between them, and ReplicationPublisher turns each snapshot into lifecycle records
and movement frames. A bus (a queue in the process, or DDS) takes them to a
source that keeps dimensions and sample histories, from which a viewer
reconstructs the fleet. Browsers are served by SimHost instead, frame by frame
over a socket. The city viewer has no runner: its producer thread steps the live
city, and the render thread parks what it wants changed. Inside the engine one thread runs the phases of a step
in a fixed order; between steps hosts call it with vehicle handles.

**What is hard about it.**

- *Unlocked sharing.* The runner's flags and published references are volatile
  fields; each check and the act that relies on it are separate steps. Readers
  may get a torn pair, and the arrays behind a frame are reused.
- *Failure in the middle.* A command or a step may throw out of Tick; the loop
  thread may die; Stop waits for a bounded time only.
- *Recycling.* Slots of vehicles, crowds and obstacles are reused, and several
  tables are kept by slot. A host may hold a handle for ever.
- *Order between channels.* Over DDS the lifecycle and the frames are separate
  topics with different guarantees, and viewers join late.
- *Restarts.* A rebuilt simulation starts at time zero with the same indices,
  while clicks and frames of the old one are still on their way.
- *A second implementation.* The actuated traffic light must do what SUMO's does
  to the millisecond, at every boundary of positions and times.

The hazards in `PROJECT.json` name the lines where these bite.

## 2. The modules and the code

### SimulationRunner, CommandStream

`SimulationRunner` is the control side of `Sim.Core/SimulationRunner.cs`, for any
sets of host threads. The hosts in `Controllers` start, stop, pause and tick,
those in `Invokers` call Invoke, and all of them post.

| code | model |
|---|---|
| `_running`, `_paused`, `_thread`, `LastError` | `running`, `paused`, `thread` (the number of the loop), `lastError` |
| `_incoming`, `_draining`, the drain's `i` | `incoming`, `draining`, `index` |
| Post, Enqueue | `Post` |
| Invoke: test, inline call, or post and `done.Wait()` | `InvokeCheck`, `InvokeInline`, `InvokePost`, `InvokeReturn` |
| Start: test, flags, new thread | `StartCheck`, `StartFlags`, `StartSpawn` |
| Pause, Resume; Stop and its `Join(2000)` | `SetPaused`; `Stop`, `StopJoined` |
| Tick by hand | `ManualTick` |
| RunLoop and its catch | `LoopTick`, `LoopExit`, `LoopCatch` |
| Tick: swap under the lock, drain, step | `Swap`, `Exec`, `ExecThrows`, `DrainEnd`, `Step`, `StepThrows` |

A call is split wherever the code reads a shared field and relies on it later.
`posted` and `applied` are histories; `pc` and `ticket` stand for the threads'
stacks. A paused loop sleeps and looks again, which is a stutter. Two usage
rules are guards: Invoke is not called while the runner is paused (a paused
loop drains nothing), and a host ticks by hand only while there is no loop.

`CommandStream` is the promise, in five actions: commands are applied exactly
once, in the order of their posts, between steps, and a Tick applies all that
were posted before it began. `SimulationRunner` implements it under the mapping
in `Stream`: a Tick is draining or stepping according to the thread that is in
it, and `due` counts what is left of its list.

### SnapshotPool

The publishing side of the same file. Tick is split into taking a slot of the
ring and starting to write it (`FillBegin`), finishing (`FillEnd`), and the two
writes `_previous = _published` (`SetPrevious`) and `_published = snap`
(`SetPublished`). `content[s]` is the step whose data slot `s` holds, 0 while it
is being written. `Interpolate` is TryInterpolateVehicle, which reads the older
reference first and then reads both again for alpha; `View` is
`EngineHost.SnapshotPair`, which reads the newer first under a lock Tick does not
take. Readers hold on to what they read for as long as they like. `Capacity = 0`
means the pool was not enabled.

### VehicleSlots, HandleTable (instances in MCVehicleSlots)

The vehicle table of `Sim.Core/Engine.cs`. Vehicle `n` is the n-th VehicleRuntime
built, slot `s` is EntityIndex + 1. `phase` is `"host"` between steps, or the
phase of AdvanceOneStep that comes next; there is one action per phase and per
host call:

| code | model |
|---|---|
| SpawnVehicle: AllocateRuntime, CreateRuntime, BuildRuntime | `SpawnVehicle` (`Reuse`, `Extend`, `Build`) |
| Despawn | `Despawn` |
| SetDestination, Reroute: RegisterRerouted, ReplaceRoute | `SetDestination`, `Replace` |
| GenerateProbabilisticFlows | same name |
| InsertDepartingVehicles, blocked lanes, eviction, camera hold-back | `InsertDepartingVehicles` |
| ProcessTransferQueue | same name, with `Transfer` |
| the reroutes of vehicles behind a blockage | `UpdateReroutes` (bound: one a step) |
| ExecuteMoves, arrival | `ExecuteMoves` |
| CheckJamTeleports, TeleportVehicle | same names |
| the loop of Advance; the end of WarmUp; PublishReadState | `AdvanceAgain`; `WarmUpEnds`; `PublishReadState` |

Which vehicle finds a gap, moves on, is jammed or reaches its end is traffic, and
arbitrary; who is asked, in which order, and what is written is the code's. A
route is a sequence of edges, a lane its edge. `told` is the history of the
events reported of each vehicle. `MCVehicleSlots` has two networks: `Street`, three
edges that can also be left after two, and `Fork`, two ways over one first edge.

`HandleTable` is the promise to those who hold handles, in three actions and
without slots or generations: a spawn makes a handle that reaches the new vehicle,
a despawn ends a trip and takes away that vehicle's handle, trips also end in
traffic, and nothing else touches a handle. `VehicleSlots` implements it under the
mapping in `Promise`: a handle that passes the generation test reaches the
occupant of its slot.

### Replication (deployments in MCReplication)

From snapshots to a viewer's fleet. `PublishStep` is the whole of
ReplicationPublisher.PublishStep for vehicles: the spawns, then the tombstones
(`Lifecycle`), the vehicles to send (`ShouldPublish`: first sighting, drift,
heartbeat), the new references and the forgetting of EndStep (`Rebase`), and the
write to the transport. `Enqueue` is the in-memory bus, one queue; `Write` is
DDS: `life` keeps the last record of an index, whatever its generation, and
`frames` the last frame of a chunk. `PumpCore` drains the queue; over DDS
`PumpLifecycle` takes some of what waits and then `PumpVehicles` takes frames
chunk by chunk. `LoseFrame` and `Join` are the best-effort topic and the viewer
that starts late or again. A sample is the step it was taken at; whether a
prediction has drifted is arbitrary. DDS itself is not in the repository: the
two topics are modelled by the QoS in `DdsQos.cs` and the keys in `DdsTopics.cs`.
`MCReplication` has the deployments: `Deployments` (the queue with recycled
slots, DDS without), `Dds`, and `DdsRecycled`.

### Approach, MSActuatedTrafficLightLogic, ActuatedTrafficLightLogic (instance in MCActuatedTrafficLightLogic)

`Approach` is what both lights work on: the program, and lanes with vehicles
that come onto a lane (`Entries`), move some way each second (`Ways`) and go out of
sight past stop line and loop. A vehicle stays behind where the one ahead has got
to in the same second (`Headway`, `RoomFor`), so several may leave a loop in one
second; vehicles abreast on one lane (the sublane model) are left out. `Drive` is
what the engine does with positions; `OtherLeaves` lets vehicles vanish from a
lane.
`ActuatedTrafficLightLogic` is the C# light. A step is two actions, in the order of
the engine: `Lights` (Advance: `Wait`, or a TrySwitch that is `Extend` or
`Switch`), then `Moves` (NotifyMove for every vehicle). Times are relative to
now: `spent` is `now - _lastSwitch`, `next` is `_nextSwitchTime - now`, `since` is
`now - _lastLeaveTime`. Times are real numbers in the code; all that is done with
them is to compare them, to add whole seconds, and to turn them into milliseconds,
where the half decides. A time is therefore known by its place among the half
milliseconds, in quarters (`Milli` is 4): an even number is a multiple of half a
millisecond, an odd one lies between two (`Fraction`). `Gaps`, `Duration` and
`PassingTime` are GapControl, Duration and PassingTime (the Euler arm, which is the
port's only one); `Floored` is the port's conversion to milliseconds and
`TIME2STEPS` SUMO's, to the nearest. `Last` is whose leave time is kept when
several vehicles leave: in the port the last in the table, in SUMO the rear-most.
`MSActuatedTrafficLightLogic` is SUMO's own logic, from the C++ sources in
`src/sumo`: the event control that makes it switch, its loops with
`notifyEnter`, `notifyMove` and `notifyLeave`, which see a lane change or teleport
that the port's loops do not. It has the same variables. The port does not
implement it (`ImplementsSUMO` is false, section 5); `KeepsToSUMO` says what it does
instead: every step is one of SUMO's light, or one of two named departures.
`RoundsDown` looks for the next switch a second before SUMO does, only where the
rest of the gap is past a whole second by half a millisecond or more, but less than
one, so that SUMO's rounding carries it into the next second. `KeepsAnyLeaver` keeps
the leave time of any of the vehicles that left a loop in this second.

### SimHost

The web host of `Sim.LiveHost` with its pages.

| code | model |
|---|---|
| `_engine`, `_runner`; the runner's StepCount, posted commands and the engine's obstacles | `run`, `step`, `incoming`, `engine` |
| `_obstacles`; `_lastFrameStep`, `_lastFrameJson` | `obstacles`; `cached` |
| ReceiveLoopAsync, HandleClientMessage: what it is in the middle of | `loop` |
| InjectObstacleAtWorld, ClearObstacles: the runner under the lock, Invoke, the marker | `ReadRunner`, `InvokePost` or `InvokeInline`, `Mark` |
| BuildSim: under the lock, and after it | `BuildSim`, `Wipe` |
| SendLoopAsync, BuildFrameJson | `SendCached`, `SendNew` |
| ingestFrame; the buttons of the page | `Ingest`; `Click` |
| the runner's Tick | `Tick` |

A frame is the run and the step it was taken of; the page looks at the step
only. `SendCached` and `SendNew` stand for the frame being built under the lock: it
is on its way from then on, and the send that follows after the lock
(`Program.cs:60`) is part of that way. `After` is what a list of obstacle and clear commands leaves.

### LiveCitySource

`src/demos/City3D/CityLib/LiveCitySource.cs` with the request slots and the
vehicle bus of `Sim.LiveCity/LiveCitySim.cs`. The producer goes through `TestStop`,
`TakeRequests` and `ApplyRequests` (ApplyPendingRequests: under the lock, and
after it), `StepAndCount`, `PublishSlot`. The host is `out` of any call, in the
simulation (`sim`), in the vehicle bus (`bus`) or in Dispose's `join`: `Tick`,
`Sample`, `Published`, `Ask` (the four setters), `Reconstruct`, `StartThreadedTick`,
`DisposeBegins`, `Joined`, `Return`. A method that tests `_producer` does in the
model what the code does on either side of the test; one that throws is not
enabled. The getters that hand out a field of the simulation without a test and
without a lock (`LiveCitySource.cs:98-100`, `132`, `516`, `541-547`) are outside the
model and outside `OneThreadAtATime`: a render thread that reads them sees the
middle of a step. The simulation is the number of its steps and its settings. Once
Dispose was called the host only calls Dispose.

The operators with an underscore (`Swap_FromZero`, `Reuse_Peek`, ...) are faulty
variants of the definitions whose name they begin with. Nothing uses them: each
stands for a plausible bug that the property it is listed with detects.

## 3. The runs

Runs that hold:

| run | instance | what it shows |
|---|---|---|
| `runner_owner` | an owner that does everything and a guest that posts; 2 loops, 3 posts, no faults; fair threads; 41 000 states | One thread in the engine (`EngineSingleThreaded`), commands in order (`AppliedInPostOrder`), refinement of CommandStream (`ImplementsCommandStream`), a blocked Invoke returns (`InvokeReturns`), a post is applied unless the runner is stopped or paused (`PostedIsApplied`), and an Invoke returns after all that was posted before it (`InvokeIsABarrier`). No deadlock: no call of the owner hangs |
| `runner_faults` | the same hosts; commands and steps may throw; up to 4 applications | What was accepted is applied or still in a list (`NoCommandLost`); a loop that is gone without Stop has left LastError (`CrashIsObservable`) |
| `pool_ring` | the default ring of 3, an interpolating reader and a viewer, 6 Ticks: the cursor wraps twice | A frame is intact for its documented window (`HeldFrameIntact`), the two frames on offer are never being written (`HookFramesIntact`) and are the last two steps (`HookIsLastTwoSteps`); an interpolating reader never blends backwards (`TornPairOnlyWidens`) |
| `slots_recycled` | `Fork`, recycling, eviction, 3 generations, 3 vehicles, 2 despawns, 2 steps | `HandleNamesItsVehicle`; the table implements HandleTable (`ImplementsHandleTable`): a despawn takes away one handle, its own, and none comes back; `EventsTellTheLife` and `PublishedWasAnnounced` also where two vehicles use one slot between two publications |
| `slots_fixed` | `Street`, no recycling, teleports, a flow, 2 vehicles, 1 despawn, 3 steps; 1.6 million states | A vehicle off its lane is queued (`InTransferIsQueued`); however often an entry hops it stays on its route (`TransferIndexInRange`), also when its vehicle was despawned; an announced vehicle's end is reported (`GoneIsReported`) |
| `actuated` | two approaches, a program of four phases, one green for both and one of fixed length; two vehicles that stop, follow and leave a loop together, at times off the millisecond; 207 500 states; a fair host | The loops hold what stands over them (`LoopSeesTheRoad`), phases keep their bounds (`PhasesKeepTheirBounds`), the C# light does what SUMO's does but for two named departures (`KeepsToSUMO`), no queue starves a phase (`EveryPhaseIsServed`) |
| `webhost` | two pages, a restart, two clicks, one frame in each socket; fair loops; 170 000 states | A frame is built of the current run and step (`FramesAreOfNow`); every page ends up on the current run (`PagesFollowTheRun`); every click is carried out or waits on a disposed runner (`EveryClickIsServed`) |
| `livecity` | two knobs with two values, 3 requests, 3 counted steps; fair producer; 57 000 states | `OneThreadAtATime`; what the host reads is of one step and never goes back (`FramesMoveOn`); the last request is in force or on its way, behind nothing that would undo it (`NothingForgotten`), and is in a published frame in the end (`RequestsTakeEffect`) |
| `replication` | two indices; the queue with recycled slots and DDS without; heartbeat 3, history 2, 5 steps | `DimsFollowTheFleet` for late joiners too, `HistoryNewestLast`, `HistoryFollowsTheFleet`, and publisher and viewer share the reference (`ReferenceIsShared`) |

Runs in which the code departs from what the repository says of it:

| run | property | what happens | what is said |
|---|---|---|---|
| `slots_route_inherited` | `OwnRoute` | BuildRuntime does not clear `_effectiveRouteIdByEntity`: a vehicle in a recycled slot is inserted on its predecessor's reroute (`Engine.cs:1853`) | `docs/SUMOSHARP-API.md:480`: "the recycled slot carries none of the previous occupant's state" |
| `replication_ghost` | `NoGhost` | Pump takes the lifecycle before the frames: a frame older than the tombstone re-creates the history of a vehicle that is gone (`DdsSubscriber.cs:176`) | `InMemoryReplication.cs:11`: "cannot tell which binding it holds" |
| `webhost_ghost_marker` | `MarkersAreObstacles` | A click reads the runner, another page restarts, Invoke runs inline on the discarded engine without throwing, and the marker is added to the list the restart has cleared (`SimHost.cs:241`) | `SimHost.cs:245`: "runner disposed mid-restart -> drop this click" |

**Bounds, and why they are enough.**

- *Runner.* Two loops are needed for one to outlive the other; three posts fill
  the two lists and leave one to be posted during a drain. Posts and starts are
  the only unbounded counters (`MaxPosts`, `MaxStarts`); `MaxApplied` bounds
  manual Ticks only where a throwing command is applied again and again.
- *Pool.* With three slots, six Ticks show every slot reused under readers that
  took their frames in every earlier Tick.
- *Slots.* Recycling needs a despawn and a second vehicle; three vehicles with
  two despawns reuse one slot twice or two slots once. Two publications see
  every order of spawn, despawn and publication; three steps let a vehicle be
  lifted, hop and come back.
- *Replication.* Two indices make the order of records of different vehicles
  and the order of spawn and tombstone of one index visible; a vehicle can leave
  and return; histories overflow; the heartbeat expires. One frame fits one
  chunk (`MaxPerChunk` 2): with chunks of one record `HistoryNewestLast` is
  false, because the chunks of several frames are taken in no fixed order.
- *Traffic light.* Two lanes that share a phase show which loop extends it.
  Lengths are centimetres: vehicles of 7.01 m and 7.00 m, ways of 0, 7.00 and
  13.90 m a second (`Ways`, `Entries`), a loop 7.01 m before the stop line. Fronts
  come to stand exactly on the loop; backs come to stand exactly on it and one
  centimetre before it, which is 0.7 ms at 13.90 m/s, so a leave time falls between
  two milliseconds on the side where floor and nearest differ by one that crosses a
  whole second. Two vehicles bumper to bumper leave the loop in one second in
  either order of the table. The state space is finite by itself.
- *Web host.* One restart gives two runs with the same steps; each run has a
  last step, and the earlier run one more than the later, so a page may be ahead
  of the run it has to follow. A page that was left at the very step the last run
  ends at is excused, which real runs, that go on, never are. Two clicks are
  enough for a click and the restart it races.
- *Live city.* Two knobs tell a request that was lost from one that was
  overwritten, three requests one that comes while another is being applied. The
  step count stops at `MaxSteps`; the producer goes on.
- Deadlock is left unchecked only where the bounds bring the system to an end.

**Fairness.** `FairSpec` assumes weak fairness of each loop thread and of each
host's continuation of a call it began: the operating system schedules every
thread that can run. No host is obliged to begin a call, so nothing says that
somebody will start, resume or tick. The liveness properties are worded
accordingly. In `ActuatedTrafficLightLogic` the host goes on calling Step; in
`SimHost` the runner paces on, each socket's loops go on and a browser keeps
reading (`WF` of Tick, Serve, the two sends and Ingest, per page), and nobody has
to click; in `LiveCitySource` the producer runs and the host gets on with the call
it is in.

## 4. What is proved

The proofs are for all constants that satisfy the named assumptions of each
module: any number of hosts, loops, readers, vehicles, steps, any ring capacity,
any routes.

**SimulationRunner_proofs**

- `TypeCorrect`.
- `SingleThreaded`, assuming `OneOwner`: one host makes the calls that are not
  Post, and a Tick does not outlast Stop's join. `EngineSingleThreaded` is not
  inductive: it says nothing of a thread about to enter the engine. `OwnerInv`
  adds that the only live loop is the one `_thread` names, and that a host that
  is starting a loop, ticking or running an Invoke inline has no live loop
  beside it. Both assumptions are needed: TLC finds two threads in the engine
  with two controllers (one passes Start's test while the other ticks by hand)
  and with `JoinTimeout = TRUE`.
- `Fifo`, assuming also `NoPoison`. `FifoInv` numbers the lists: `incoming` holds
  the last posts, what is left of `draining` the ones before, and `applied` the
  rest.
- `InvokeComesLast`, under the same two: when Invoke returns, everything posted
  before it has been applied, by whichever host. A throwing command breaks it as it
  breaks the order.
- `Implements`, from the same invariant: every step of the dispatcher is a step
  of CommandStream or a stutter.
- `NothingLost`, assuming `OneOwner`, also when commands and steps throw. The
  order of the lists is then lost, and with it `FifoInv`; `KeptInv` keeps only
  that what a Tick has behind it of its list has been applied, so that clearing
  the list loses nothing.
- `InvokeIsKept`, from the same invariant: a host that is blocked in Invoke waits
  for a command of its own that has been applied or is in a list. What
  `InvokeReturns` adds to it is that the loop goes on.
- `CrashSeen`, assuming `OneOwner`. `ByControllers` says who can stand between
  two steps of Start or Stop; a live loop whose runner does not run is then being
  joined, so a loop that just ends was asked to.

**SnapshotPool_proofs**

- `TypeCorrect`; `RetainedFrames` for every ring; `HookFrames` for
  `Capacity > 2`. The invariant gives each slot its distance from the cursor:
  the slot holds the step filled that many Ticks ago, and a frame of the last
  `Capacity` steps aliases the slot at its own distance. `HookFrames` is false
  for two slots, which `SimulationRunner.cs:72` allows ("`capacity` must be
  >= 2"): Fill then writes into the frame that is still on offer as the previous
  one.
- `LastTwoSteps`, `NeverBackwards`, with a pool of any capacity or none. Where the
  two references stand within a Tick bounds what a reader can pair: what it took
  from `_previous` is never newer than `_published`, then or later.

**VehicleSlots_proofs**

- `TypeCorrect`.
- `HandlesName`, `LiveKeepSlots`, assuming `FewDespawns`: no generation wraps.
  The invariant `Table`: no handle is younger than its slot, a handle of the
  present generation was given out for the present occupant, and a slot on the
  free list is there once, its last occupant gone and without a valid handle.
- `KeepsThePromise`, assuming `FewDespawns`: the table refines HandleTable. From
  `Table`, the handles that resolve are exactly the good ones, each reaching its own
  vehicle (`ReachesGood`); then step by step: a built vehicle gets a good handle in
  whichever slot, a despawn makes one handle bad since the older ones of its slot
  were bad before, and every other phase leaves slots and generations alone.
- `EventsTell`, `PublishedAnnounced`, also when generations wrap. The invariant
  `Story` says what the baseline of a slot means for its present occupant.
- `NoneLostInTransfer`: a vehicle lifted off its lane is in the queue until it is
  back or gone, also with recycling.
- `HopsInRange`, `GoneReported`, assuming `~Recycle` (both are false with it: see
  section 5). `FixedInv`: vehicle n keeps slot n, what is
  kept by slot is its own, and a queued vehicle is in transfer, where no reroute
  reaches it.

**Replication_proofs**

- `FollowsTheFleet`, `SharedReference`, over the in-memory queue, assuming that
  the handles are finitely many. Both speak of an empty queue; `QueueInv` says of
  any queue where it leads (`Leads`): of the entries that touch a vehicle the last
  one leaves the source with the publisher's reference, once for the samples
  (`Sampling`) and once for dimensions and name (`Naming`). PublishStep appends
  entries that settle each vehicle anew or do not touch it; PumpCore carries the
  first entry from the queue into the picture.

**ReplicationBindings_proofs**, over the queue and DDS alike, with any loss, delay
and joining, and finitely many handles

- `TypeCorrect`. `Shape` says what is in the queue, the topics and a pass of Pump
  that has begun; that a batch of lifecycle records taken from the topic can be
  ordered at all is an induction on its size.
- `LateJoiners`, assuming `OneGeneration`: over DDS no index is given out twice.
  Without it the property is false (section 5). `Topic`: the topic holds the last
  word on every index, and who has taken it has the dimensions of just that.
- `SamplesInOrder`, assuming `OneChunk`: over DDS a frame fits one chunk. Without
  it the property is false, because the chunks of several frames are taken in no
  fixed order. `Newest`: what is still to be read is newer than all that has been
  read, and the queue is in order.

**ActuatedTrafficLightLogic_proofs**

- `TypeCorrect`, `BoundsKept`, for every program of whole seconds and any
  traffic. The invariant `PhaseFits` bounds the time of the next switch by what is
  left of the phase.
- `LoopsAreExact` and `KeepsToIt`, assuming `PortApplies`: at least two phases,
  yellow ones of fixed length, vehicles that come onto a lane before the loop and
  are no longer than the way from loop to stop line, none that vanishes. `KeepsToIt`
  states `KeepsToSUMO` for any ways, lengths and programs, argued step by step: with
  the loops exact, both lights find the same vehicles entering, passing and leaving
  (`MovesKept`); the port keeps the leave time of one of the leavers; from equal
  gaps, Duration is SUMO's or, where the rounding differs across a whole second,
  SUMO's less one second (`NearDuration`). Each assumption is needed; section 5 says
  what happens without.

**SimHost_proofs**

- `TypeCorrect`, and `FreshFrames`, for any number of pages, clicks and restarts:
  a saved frame with a valid step is of the current run.
- `OnePageMarkers`: with one page the markers are the obstacles. The invariant
  follows a click from ReadRunner to Mark: no restart can come between, because
  the one page's receive loop is the only one that restarts.
- `FramesArriveInOrder`, for any number of pages: whatever is on the wires when a
  page restarts the simulation, no page sees a frame of the old run after one of
  the new. The order is of runs first and steps second, since a new run counts
  again from zero.
- `CallsAreKept`: a click that waits has its command in the list of the present
  runner, or a restart has disposed the runner it waits on. What
  `EveryClickIsServed` adds is that the runner ticks.

**LiveCitySource_proofs**

- `Apart`, assuming that no step outlasts the wait of Dispose. `Threads` says
  where each thread can be: the bus is the host's as soon as there is a producer,
  and a host in the simulation has no working producer beside it.
- `Forward`: `Frames` keeps what the host read at or below the slot while there is
  a producer, and at or below the simulation's own count always. It needs no
  assumption about Dispose.
- `RequestsAreKept`, without assumptions: what the host asked for last of each knob is
  in force, with the producer or parked, and nothing behind it would undo it; and the
  published frame shows it as soon as nothing waits to be taken. The invariant
  `Requests` follows a setting through the three places (`InTheEnd`), and says that a
  host without a producer has nothing parked. What `RequestsTakeEffect` adds is that
  the producer goes on.

**Only model-checked.** The six liveness properties: `InvokeReturns`,
`PostedIsApplied`, `EveryPhaseIsServed`, `PagesFollowTheRun`, `EveryClickIsServed` and
`RequestsTakeEffect`. Liveness and ENABLED are beyond the prover; of four of them
the safety half is proved (`InvokeIsKept` and `NothingLost`, `CallsAreKept`,
`RequestsAreKept`): what is awaited is still there to be done. Every invariant and
action property of the runs that hold is stated by a theorem.
`LiveVehicleKeepsItsSlot` is proved and in no run: HandleTable, which a run checks,
asks for more.

## 5. Met on the way, without a run

Properties that fail under other constants than those of the runs:

- *A command that throws* (`SimulationRunner.cs:245`). It leaves `_draining` in
  place; the next swap makes it `_incoming` again: later posts run first, then
  those already applied a second time, although line 8 says "drained at the START
  of each Tick, FIFO". `AppliedInPostOrder` fails in `runner_owner` with
  `Faults = {"command"}`, `Invokers = {}` and three applications.
- *Invoke against Stop* (`SimulationRunner.cs:138`). An Invoke finds `_running`
  set, another thread stops the loop before the next drain, and nothing ever
  releases the wait, although line 117 says "blocks until the engine thread
  applies it at the next boundary". `InvokeReturns` fails with
  `Invokers = {guest}`.
- *Overtaking* (`Engine.cs:3786`). Candidates of one departure time are taken by
  EntityIndex, and with recycling, which is the default (`:274`), a later vehicle
  gets the lower slot of one that was despawned: it is inserted before an older one
  that waits for the same lane, although line 3751 says "`_vehicles` is in
  definition order [...] Per-lane FIFO is preserved". `InsertionIsFifo` fails with
  `Routes <- Fork`, three vehicles, one despawn and one step.
- *The queue entry of a despawned vehicle* (`Engine.cs:17021`). Despawn leaves a
  teleporting vehicle's entry in `_transferQueue`; when the slot's next vehicle is
  rerouted to a shorter route, the entry's index is past its end, although line 249
  calls EdgeIndex "the index INTO its route's Edges list". `TransferIndexInRange`
  fails in `slots_fixed` with `Recycle = TRUE`, `Flows = FALSE`.
- *Late joiners after recycling* (`DdsTopics.cs:78`). The lifecycle topic is keyed
  without the generation, and the tombstone of the old vehicle is written after
  the spawn of the new one, although line 65 says "late joiners get the current
  fleet". `DimsFollowTheFleet` fails with `Setups <- DdsRecycled`.
- *The rest of a gap* (`ActuatedTrafficLightLogic.cs:187`). Duration floors it where
  SUMO's `TIME2STEPS` rounds to the nearest millisecond (`SUMOTime.h:57`, used at
  `MSActuatedTrafficLightLogic.cpp:821`). After a gap of 0.9993 s the rest is 1000 ms
  here and 1001 ms there, so SUMO looks again a second later, although line 174 says
  "All arithmetic is done in integer milliseconds (SUMOTime) to reproduce the `% 1000`
  rounding and integer division EXACTLY". `ImplementsSUMO` fails in `actuated`, with
  one vehicle too; the `RoundsDown` of `KeepsToSUMO` is this difference and
  `KeepsToSUMO` fails without it.
- *A vehicle that leaves a loop without moving over it*
  (`ActuatedTrafficLightLogic.cs:380`): by a lane change, a teleport or a despawn.
  The loop keeps it for ever, and its phase runs to the maximum each time; SUMO's
  `notifyLeave` forgets it. `LoopSeesTheRoad` and `KeepsToSUMO` fail with
  `OtherLeaves = TRUE`; the file's own remarks do not mention it.
- *Vehicles longer than the way from the loop to the stop line.* NotifyMove is
  called with the lane the vehicle started the step on, so the loop is not told of
  the rest of its passage: `LoopSeesTheRoad` fails. So does a loop at the
  beginning of a short lane (`:300` clamps its position to 0): it detects nobody
  who comes onto the lane past it.
- *Yellow phases.* `IsGreenPhase` (`:213`) takes a phase with green and yellow
  links for green, SUMO's does not (`MSPhaseDefinition.h:186`): they differ when
  such a phase is actuated.
- *A step that outlasts Dispose* (`LiveCitySource.cs:561`). The producer is still
  in the simulation while it is disposed of: `OneThreadAtATime` fails with
  `JoinTimeout = TRUE`.
- *A call on a disposed runner.* In SimHost a click that posted to the old runner
  waits for ever, and with it every later click of its page: the disjunct
  `Stranded` of `EveryClickIsServed`.

Other observations:

- The two references are re-read for alpha (`SimulationRunner.cs:204`) although
  line 191 says "Reads the two volatile frames once": the blend factor of one
  rendered frame may belong to another pair.
- `EngineHost.SnapshotPair` (`EngineHost.cs:110`) calls its pair atomic, but Tick
  does not take the host's lock: `TornPairOnlyWidens` is stated for the runner's
  own reader only.
- Stop joins for two seconds and then lets go of a thread that may be in a step
  (`SimulationRunner.cs:317`): see `JoinTimeout`.
- With recycling, `GoneIsReported` fails: a despawned vehicle whose slot is taken
  before the next publication has no Arrived event.
- Of several vehicles that leave a loop in one second the port keeps the leave time
  of the last in the table, SUMO that of the rear-most. The remark at
  `ActuatedTrafficLightLogic.cs:389-394` names the difference; `KeepsToSUMO` allows
  it, and the run contains it.
- A generation wraps to 0 (`Engine.cs:2980`), which line 2830 takes for the
  generation no vehicle ever has.
- `RecycleVehicleSlots` is on by default (`Engine.cs:274`), so the hazards of
  recycling are those of the default configuration.
- `ReplicationPublisher.Reset` keeps `_lastTlTime` (`ReplicationPublisher.cs:221`).
- The web page clears its vehicles on restart (`HtmlPage.cs:412`), but frames of the
  old run that are still in flight fill them again; pages that did not restart
  keep their clock. They recover with the next frame of another step.
- The publish policy of the web host runs once for all pages (`SimHost.cs:169`): a
  page that skips a step misses its packets until the next drift or heartbeat.
- A car density request without a per-step budget overwrites a parked one that
  had one (`LiveCitySim.cs:1160`).

## 6. Not modelled

- *Numbers.* Car following, lane changing, kinematics, dead reckoning, collision
  avoidance: formulas over floating point, compared with SUMO's trajectories by
  the parity tests. Their outcomes are arbitrary choices in the models.
- *Data formats.* Parsers, codecs, recordings: round-trip tests cover them.
- *Pacing.* SpeedMultiplier and the stopwatch decide when a Tick happens, not
  what it does.
- *Parts of modelled components.* VehicleSlots starts with an empty table after
  the scenario is loaded, and has no parking areas, stops or periodic rerouting,
  and no contents of the read buffer. Replication has vehicles only: no traffic
  lights, geometry, Reset on restart, or pool of mover buffers.
- *Parts of the new ones.* The traffic light without linked detectors, switching
  rules, coordination or a detector's jam threshold, which the port does not have
  either. SimHost without random traffic, packets and closing sockets.
  LiveCitySource without pacing and the measured rate; the coupled step is one
  action.
- The components planned below.

## 7. Plan

In the order of what matters most; the first six are done as described above.

1. SimulationRunner, CommandStream, SnapshotPool: checked and proved.
2. VehicleSlots, HandleTable: checked and proved. Left: the contents of the read buffer;
   loading a second scenario; parking lots.
3. Replication: checked; proved over the queue, and over DDS what is true of it.
   Left: Reset and restart, traffic lights, the liveness of a late joiner, an
   abstract fleet mirror that both bindings should implement.
4. The actuated traffic light against SUMO's: checked and proved. Left: several
   loops on a lane, loops that share vehicles, the detectors' file output.
5. SimHost: checked; safety proved. Left: random traffic, the packets of a frame
   and the pages' histories, sockets that close in the middle of a call.
6. LiveCitySource: checked; safety proved. Left: the render clock.
7. EngineHost over SimulationRunner: rebuild, generation, the hook set after
   Start; the remote restart.
8. PedLod, then pedestrian replication.
9. Parking over VehicleSlots: a car leaves the engine and comes back; rides.
10. HandleStore: one module for the three handle tables, proved like VehicleSlots.
11. CommandBuffer: several records of one vehicle in one flush.
12. CrossingGate; evacuation; the lane-change manoeuvre; the rail crossing.
13. Blockers, playback.

Runs of these take the bounds of those above: two or three of each actor, two
generations of each slot, and a number of steps that lets a thing be made, lost
and made again.
