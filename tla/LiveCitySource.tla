---------------------------- MODULE LiveCitySource ----------------------------
(***************************************************************************)
(* The threaded tick of the city viewer: LiveCitySource.cs with the        *)
(* request slots and the vehicle bus of LiveCitySim.cs.  One host thread   *)
(* makes the calls; once StartThreadedTick ran, a producer thread steps    *)
(* the simulation, and the host's setters park what they ask for.          *)
(*                                                                         *)
(* Of the simulation there is the number of its steps, which stands for    *)
(* its time, counts and signals, and the settings.  A knob is one of the   *)
(* slots: zone, cars, pedestrians, tick length.  Getters that hand out a   *)
(* field of the simulation without a lock (lines 98-100, 132, 516 and      *)
(* 541-547) are not modelled.                                              *)
(***************************************************************************)
EXTENDS Integers

CONSTANTS
  Knobs, Values, Default,  \* settings, what they are set to, what they start as
  Unset,                   \* an empty slot
  JoinTimeout,             \* may a step outlast the five seconds of Dispose?
  MaxSteps,                \* bound: the simulation stops counting here
  MaxRequests              \* bound: calls of a setter

ASSUME LiveCityAssumption ==
  /\ Default \in Values /\ Unset \notin Values
  /\ JoinTimeout \in BOOLEAN
  /\ {MaxSteps, MaxRequests} \subseteq Nat

VARIABLES
  threaded,  \* _producer is not null
  stop,      \* _stopRequested
  selfPump,  \* SelfPumpVehicleBus
  producer,  \* what the producer thread is at
  host,      \* the call the host is in
  time,      \* the simulation's steps
  stepIndex, \* _stepIndex
  settings,  \* the simulation's settings
  parked,    \* the request slots
  hand,      \* the producer's copy of them
  slot,      \* _publishedSlot
  seen,      \* what Published returned last
  wanted,    \* history: the settings the host last asked for
  requests   \* calls of a setter, for the bound

vars == <<threaded, stop, selfPump, producer, host, time, stepIndex, settings, parked, hand,
          slot, seen, wanted, requests>>

NoRequest == [k \in Knobs |-> Unset]

\* Settings with what was asked for in place of what was.
Set(old, asked) == [k \in Knobs |-> IF asked[k] = Unset THEN old[k] ELSE asked[k]]

\* A frame of the live simulation, with the signals sampled for it.
Frame == [time |-> time, step |-> stepIndex, signals |-> time, settings |-> settings]

Init ==
  /\ threaded = FALSE /\ stop = FALSE /\ selfPump = TRUE
  /\ producer = "none" /\ host = "out"
  /\ time = 0 /\ stepIndex = 0
  /\ settings = [k \in Knobs |-> Default] /\ wanted = settings
  /\ parked = NoRequest /\ hand = NoRequest
  /\ slot = Frame /\ seen = Frame
  /\ requests = 0

-----------------------------------------------------------------------------
(* The producer: ProducerLoop.                                             *)

\* LiveCitySim.Step advances the simulation, and the host counts.
Advance(n) == IF n < MaxSteps THEN n + 1 ELSE n

Goes(to) == producer' = to

TestStop ==
  /\ producer = "test"
  /\ Goes(IF stop THEN "ended" ELSE "take")
  /\ UNCHANGED <<threaded, stop, selfPump, host, time, stepIndex, settings, parked, hand,
                 slot, seen, wanted, requests>>

\* ApplyPendingRequests, under the lock.
TakeRequests ==
  /\ producer = "take" /\ Goes("apply")
  /\ hand' = parked /\ parked' = NoRequest
  /\ UNCHANGED <<threaded, stop, selfPump, host, time, stepIndex, settings, slot, seen, wanted, requests>>

\* The flags are cleared when their values have been applied.
ApplyRequests_Clears ==
  /\ producer = "apply" /\ Goes("step")
  /\ settings' = Set(settings, hand)
  /\ parked' = NoRequest
  /\ UNCHANGED <<threaded, stop, selfPump, host, time, stepIndex, hand, slot, seen, wanted, requests>>

\* ...and after it.
ApplyRequests ==
  /\ producer = "apply" /\ Goes("step")
  /\ settings' = Set(settings, hand)
  /\ UNCHANGED <<threaded, stop, selfPump, host, time, stepIndex, parked, hand, slot, seen, wanted, requests>>

\* The step is published, then counted.
StepAndCount_Late ==
  /\ producer = "step" /\ Goes("publish")
  /\ time' = Advance(time)
  /\ stepIndex' = time
  /\ UNCHANGED <<threaded, stop, selfPump, host, settings, parked, hand, slot, seen, wanted, requests>>

\* The rest of Step, which ends in a pump of the vehicle bus unless the host
\* pumps it, and the count of it.
StepAndCount ==
  /\ producer = "step" /\ Goes("publish")
  /\ time' = Advance(time)
  /\ stepIndex' = Advance(stepIndex)
  /\ UNCHANGED <<threaded, stop, selfPump, host, settings, parked, hand, slot, seen, wanted, requests>>

\* PublishSlot: the signals are sampled before the lock, the rest is read
\* under it, all by the thread that steps.
PublishSlot ==
  /\ producer = "publish" /\ Goes("test")
  /\ slot' = Frame
  /\ UNCHANGED <<threaded, stop, selfPump, host, time, stepIndex, settings, parked, hand,
                 seen, wanted, requests>>

Produce ==
  TestStop \/ TakeRequests \/ ApplyRequests \/ StepAndCount \/ PublishSlot

-----------------------------------------------------------------------------
(* The host.  Tick, Sample, the unthreaded setters and Dispose are calls   *)
(* into the simulation, Reconstruct is one into the vehicle bus.           *)

\* The simulation goes on pumping its bus.
StartThreadedTick_SelfPumps ==
  /\ host = "out" /\ ~threaded /\ ~stop
  /\ threaded' = TRUE
  /\ producer' = "test"
  /\ slot' = Frame
  /\ UNCHANGED <<stop, selfPump, host, time, stepIndex, settings, parked, hand, seen, wanted, requests>>

StartThreadedTick ==
  /\ host = "out" /\ ~threaded /\ ~stop
  /\ threaded' = TRUE /\ selfPump' = FALSE
  /\ producer' = "test"
  /\ slot' = Frame
  /\ UNCHANGED <<stop, host, time, stepIndex, settings, parked, hand, seen, wanted, requests>>

Tick ==
  /\ host = "out" /\ ~threaded /\ ~stop
  /\ host' = "sim"
  /\ time' = Advance(time) /\ stepIndex' = Advance(stepIndex)
  /\ UNCHANGED <<threaded, stop, selfPump, producer, settings, parked, hand, slot, seen, wanted, requests>>

\* Sample, SampleCars, SampleCrossingSignals.
Sample ==
  /\ host = "out" /\ ~threaded /\ ~stop
  /\ host' = "sim"
  /\ UNCHANGED <<threaded, stop, selfPump, producer, time, stepIndex, settings, parked, hand,
                 slot, seen, wanted, requests>>

\* Published: the live simulation, or a copy of the slot under its lock.
Published ==
  /\ host = "out" /\ ~stop
  /\ seen' = IF threaded THEN slot ELSE Frame
  /\ host' = IF threaded THEN host ELSE "sim"
  /\ UNCHANGED <<threaded, stop, selfPump, producer, time, stepIndex, settings, parked, hand,
                 slot, wanted, requests>>

\* The viewer's pump of the vehicle bus, once a frame.
Reconstruct ==
  /\ host = "out" /\ ~stop
  /\ host' = "bus"
  /\ UNCHANGED <<threaded, stop, selfPump, producer, time, stepIndex, settings, parked, hand,
                 slot, seen, wanted, requests>>

\* SetLcRealismZone, SetCarTarget, SetPedDensity, Dt: parked, the last writer
\* winning, or done at once.
Ask(k, v) ==
  /\ host = "out" /\ ~stop /\ requests < MaxRequests
  /\ wanted' = [wanted EXCEPT ![k] = v]
  /\ requests' = requests + 1
  /\ \/ /\ threaded
        /\ parked' = [parked EXCEPT ![k] = v]
        /\ UNCHANGED <<host, settings>>
     \/ /\ ~threaded
        /\ settings' = [settings EXCEPT ![k] = v]
        /\ host' = "sim"
        /\ UNCHANGED parked
  /\ UNCHANGED <<threaded, stop, selfPump, producer, time, stepIndex, hand, slot, seen>>

\* Dispose asks the producer to stop, waits for it, and enters the simulation
\* to dispose of it; and it may be called again.
DisposeBegins ==
  /\ host = "out"
  /\ stop' = TRUE /\ threaded' = FALSE
  /\ host' = IF threaded THEN "join" ELSE "sim"
  /\ UNCHANGED <<selfPump, producer, time, stepIndex, settings, parked, hand,
                 slot, seen, wanted, requests>>

Joined ==
  /\ host = "join" /\ (producer = "ended" \/ JoinTimeout)
  /\ host' = "sim"
  /\ UNCHANGED <<threaded, stop, selfPump, producer, time, stepIndex, settings, parked, hand,
                 slot, seen, wanted, requests>>

Return ==
  /\ host \in {"sim", "bus"}
  /\ host' = "out"
  /\ UNCHANGED <<threaded, stop, selfPump, producer, time, stepIndex, settings, parked, hand,
                 slot, seen, wanted, requests>>

Call ==
  \/ StartThreadedTick \/ Tick \/ Sample \/ Published \/ Reconstruct \/ DisposeBegins
  \/ \E k \in Knobs, v \in Values : Ask(k, v)

-----------------------------------------------------------------------------
Next == Produce \/ Call \/ Joined \/ Return

Spec == Init /\ [][Next]_vars

\* The producer runs, and the host gets on with a call it is in.  It need not
\* make any.
FairSpec == Spec /\ WF_vars(Produce) /\ WF_vars(Joined \/ Return)

-----------------------------------------------------------------------------
(* Properties.                                                             *)

\* Host and producer are never in the simulation together, nor in the
\* dictionaries behind the vehicle bus: neither through a setter or a sampler
\* called in time, nor through the end of Step, nor through Dispose
\* (LiveCitySource.cs:177, :314, :553).
OneThreadAtATime ==
  /\ host = "sim" => producer \notin {"apply", "step", "publish"}
  /\ host = "bus" => ~(producer = "step" /\ selfPump)

\* Frames the host reads are of one step each, signals and all, and never go
\* back, also over the start of the thread and its end (LiveCitySource.cs:416).
FramesMoveOn ==
  [][/\ seen'.time = seen'.step /\ seen'.signals = seen'.step
     /\ seen'.step >= seen.step]_seen

\* The settings there will be when the producer has applied what it holds and
\* what is parked.
InTheEnd == Set(IF producer = "apply" THEN Set(settings, hand) ELSE settings, parked)

\* What the host asked for last of each knob is in force, with the producer or
\* parked, behind nothing that would undo it, whenever it asks between the
\* producer's taking of the slots and its applying of what it took; and while
\* nothing waits to be taken the published frame shows it (LiveCitySim.cs:1122).
NothingForgotten ==
  /\ InTheEnd = wanted
  /\ producer = "none" => settings = wanted
  /\ producer \in {"test", "take", "ended"} /\ parked = NoRequest => slot.settings = wanted

\* What the host asked for last of a knob is in a published frame in the end,
\* unless it asks for something else or disposes of the source
\* (LiveCitySim.cs:1122).
RequestsTakeEffect ==
  \A k \in Knobs, v \in Values :
    (threaded /\ wanted[k] = v) ~> (slot.settings[k] = v \/ wanted[k] # v \/ stop)
=============================================================================
