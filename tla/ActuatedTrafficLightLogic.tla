--------------------- MODULE ActuatedTrafficLightLogic ---------------------
(***************************************************************************)
(* Sim.Core's actuated traffic light, ActuatedTrafficLightLogic.cs: the    *)
(* phase machine (TrySwitch, GapControl, Duration) and the induction loops *)
(* (Detector.NotifyMove) that Engine.Step and ExecuteMoveVehicle drive.    *)
(* It is written as a port of SUMO's, and the states are the same: Sumo is *)
(* module MSActuatedTrafficLightLogic, which see for the relative times.   *)
(***************************************************************************)
EXTENDS Approach

VARIABLES
  turn,   \* what the step does next: "lights" or "moves"
  step,   \* Step + 1
  spent,  \* now - _lastSwitch
  next,   \* _nextSwitchTime - now
  onDet,  \* per lane: _onDet
  since   \* per lane: now - _lastLeaveTime

light == <<step, spent, next>>
loops == <<onDet, since>>
vars  == <<turn, light, loops, traffic>>

Sumo == INSTANCE MSActuatedTrafficLightLogic

\* Reset
Init ==
  /\ turn = "lights"
  /\ step = 1 /\ spent = 0 /\ next = Phases[1].min
  /\ onDet = [l \in Lanes |-> {}]
  /\ since = [l \in Lanes |-> MaxGap]
  /\ NoTraffic

-----------------------------------------------------------------------------
(* Advance, at the time this step will produce, before the plan.           *)

IsActuated(p)   == Phases[p].min # Phases[p].max
IsGreenPhase(p) == Phases[p].green # {}

\* _loopsForPhase
LoopsForPhase(p) == IF IsActuated(p) THEN Phases[p].green ELSE {}

Aged == [l \in Lanes |-> Min2(since[l] + TS, MaxGap)]

TimeSinceLastDetection_NoOccupancy(l) == Aged[l]

TimeSinceLastDetection(l) == IF onDet[l] # {} THEN 0 ELSE Aged[l]

\* GapControl's finite results before the minimum; none is +inf.
Gaps ==
  IF IsGreenPhase(step) /\ spent + TS < Phases[step].max
    THEN {TimeSinceLastDetection(l) : l \in LoopsForPhase(step)} \ {MaxGap}
    ELSE {}

\* gapSteps: Math.Floor
Floored(t) == (t \div Milli) * Milli

Duration_NoRounding(act, gap) ==
  Min2(Max2(Phases[step].min - act, Max2(Floored(DetectorGap - gap), TS)), Phases[step].max - act)

Duration_NoMax(act, gap) ==
  LET new == Max2(Phases[step].min - act, Max2(Floored(DetectorGap - gap), TS))
  IN IF Whole(new) THEN new ELSE ((new + act) \div TS + 1) * TS - act

Duration(act, gap) ==
  LET new   == Max2(Phases[step].min - act, Max2(Floored(DetectorGap - gap), TS))
      whole == IF Whole(new) THEN new ELSE ((new + act) \div TS + 1) * TS - act
  IN Min2(whole, Phases[step].max - act)

Wait ==
  /\ next > TS
  /\ next' = next - TS /\ spent' = spent + TS
  /\ UNCHANGED step

\* _lastSwitch is set on every TrySwitch.
Extend_Restarts ==
  /\ next <= TS
  /\ \E gap \in Gaps :
       /\ \A g \in Gaps : gap <= g
       /\ spent' = 0
       /\ next' = Duration(spent + TS, gap)
  /\ UNCHANGED step

Extend ==
  /\ next <= TS
  /\ \E gap \in Gaps :
       /\ \A g \in Gaps : gap <= g
       /\ spent' = spent + TS
       /\ next' = Duration(spent + TS, gap)
  /\ UNCHANGED step

\* _lastSwitch is now whether or not the phase is another one.
Switch ==
  /\ next <= TS
  /\ Gaps = {}
  /\ step' = (step % Len(Phases)) + 1
  /\ spent' = 0
  /\ next' = Max2(IF step' # step THEN 0 ELSE TS, Phases[step'].min)

Lights ==
  /\ turn = "lights" /\ turn' = "moves"
  /\ Wait \/ Extend \/ Switch
  /\ since' = Aged
  /\ UNCHANGED <<onDet, traffic>>

-----------------------------------------------------------------------------
(* ExecuteMoves: NotifyMove for each vehicle, with the lane and position   *)
(* it started the step from.  A vehicle whose front is past the stop line  *)
(* is on another lane by then, and nothing tells a loop of one that        *)
(* vanishes.                                                               *)

Notified(l) == {v \in OnLane(l) : pos[v] <= LaneLength}

Entered(l, move) == {v \in Notified(l) : pos[v] < Loop /\ pos[v] + move[v] >= Loop}
Passed_Strictly(l, move) == {v \in Notified(l) : Back(v) < Loop /\ Back(v) + move[v] > Loop}

Passed(l, move)  == {v \in Notified(l) : Back(v) <= Loop /\ Back(v) + move[v] > Loop}
Left(l, move)    == Passed(l, move) \cap (onDet[l] \cup Entered(l, move))

\* The last one in the order of the vehicle table.
Last(l, move) == CHOOSE v \in Left(l, move) : \A w \in Left(l, move) : w <= v

PassingTime(v, move) == Fraction(Loop - Back(v), move[v])

Moves ==
  /\ turn = "moves" /\ turn' = "lights"
  /\ \E move \in Motions : Headway(move) /\ \E gone \in Departures : \E into \in Arrivals :
       /\ RoomFor(move, into)
       /\ Drive(move, gone, into)
       /\ onDet' = [l \in Lanes |-> (onDet[l] \cup Entered(l, move)) \ Passed(l, move)]
       /\ since' = [l \in Lanes |->
            IF Left(l, move) # {} THEN -PassingTime(Last(l, move), move) ELSE since[l]]
  /\ UNCHANGED light

Next == Lights \/ Moves

Spec == Init /\ [][Next]_vars

\* The host goes on calling Step.
FairSpec == Spec /\ WF_vars(Next)

-----------------------------------------------------------------------------
(* Properties.                                                             *)

\* Where the port keeps to SUMO: at least two phases, yellow ones of a fixed
\* length, nobody who comes onto a lane as far as the loop, vehicles shorter
\* than the way from the loop to the stop line, and none that vanishes.
PortApplies ==
  /\ Len(Phases) > 1
  /\ \A p \in 1..Len(Phases) : Phases[p].yellow => Phases[p].min = Phases[p].max
  /\ \A e \in Entries : e < Loop
  /\ \A v \in Vehicles : Loop + Length[v] <= LaneLength
  /\ ~OtherLeaves

\* The types.  Between the lights and the moves `since' is of this second,
\* and the next switch is at least a second off whenever a second begins:
\* Advance never has two switches to make.
TypeOK ==
  /\ turn \in {"lights", "moves"}
  /\ step \in 1..Len(Phases)
  /\ spent \in Nat /\ next \in Nat \ {0} /\ Whole(spent) /\ Whole(next)
  /\ onDet \in [Lanes -> SUBSET Vehicles]
  /\ since \in [Lanes -> -TS..MaxGap]
  /\ RoadOK

\* A loop reports as standing on it exactly the vehicles whose body is over
\* it.  One it holds on to keeps its phase green up to the maximum each time,
\* one it misses is cut off (NotifyMove, which learns only of moves).
LoopSeesTheRoad ==
  \A l \in Lanes : onDet[l] = {v \in OnLane(l) : pos[v] >= Loop /\ Back(v) <= Loop}

\* No phase ends before its minimum or after its maximum, whatever the loops
\* say and however Duration rounds (TrySwitch, GapControl, Duration).
PhasesKeepTheirBounds ==
  [][step' # step => /\ Phases[step].min <= spent + TS
                     /\ spent + TS <= Phases[step].max]_vars

\* "All arithmetic is done in integer milliseconds (SUMOTime) to reproduce the
\* `% 1000` rounding and integer division EXACTLY": whatever this light does in
\* a second, SUMO's could do on the same traffic.  It fails: see RoundsDown.
ImplementsSUMO == Sumo!Spec

\* Duration cuts the fraction of a millisecond that TIME2STEPS rounds up: where
\* just that carries SUMO over a whole second, the port looks again one second
\* before SUMO does.
RoundsDown ==
  /\ turn = "lights" /\ turn' = "moves" /\ next <= TS
  /\ \E gap \in Sumo!Gaps :
       /\ \A g \in Sumo!Gaps : gap <= g
       /\ (DetectorGap - gap) % TS \in Milli \div 2 .. Milli - 1
       /\ next' = Sumo!Duration(spent + TS, gap) - TS
  /\ spent' = spent + TS /\ since' = Sumo!Aged
  /\ UNCHANGED <<step, onDet, traffic>>

\* "Last-wins on _lastLeaveTime": of several that leave a loop in one second,
\* the port may keep the time of another than SUMO's, the one behind.
KeepsAnyLeaver ==
  /\ turn = "moves" /\ turn' = "lights"
  /\ \E move \in Motions : Headway(move) /\ \E into \in Arrivals :
       /\ RoomFor(move, into)
       /\ Drive(move, {}, into)
       /\ onDet' = [l \in Lanes |-> Sumo!Occupied(l, move, into)]
       /\ \A l \in Lanes :
            IF Sumo!Left(l, move, into) = {} THEN since'[l] = since[l]
            ELSE \E v \in Sumo!Left(l, move, into) : since'[l] = -Sumo!PassingTime(v, move, into)
  /\ UNCHANGED light

\* In these two ways the port departs from SUMO's logic, and in no other.
KeepsToSUMO == Sumo!Init /\ [][Sumo!Lights \/ RoundsDown \/ KeepsAnyLeaver]_vars

\* Every phase has its turn again and again: traffic that never stops on one
\* approach cannot keep the others red.
EveryPhaseIsServed == \A p \in 1..Len(Phases) : []<>(step = p)
=============================================================================
