-------------------- MODULE MSActuatedTrafficLightLogic --------------------
(***************************************************************************)
(* SUMO's own actuated traffic light, sumo/src/microsim/traffic_lights/    *)
(* MSActuatedTrafficLightLogic.cpp with the induction loop of              *)
(* microsim/output/MSInductLoop.cpp: the program that Sim.Core's logic is  *)
(* a port of.  The default algorithm: gap control, one next phase, no      *)
(* switching rules, no jam threshold, no TraCI.                            *)
(*                                                                         *)
(* Times are relative: `spent' is now minus myLastSwitch, `next' the time  *)
(* of the next trySwitch minus now, `since' now minus myLastLeaveTime,     *)
(* negative for a vehicle that leaves within the step under way.  A gap of *)
(* MaxGap or more counts as MaxGap.                                        *)
(***************************************************************************)
EXTENDS Approach

VARIABLES
  turn,   \* what the step does next: "lights" or "moves"
  step,   \* myStep + 1
  spent,  \* how long the phase has lasted
  next,   \* the time to the next trySwitch
  onDet,  \* per lane: myVehiclesOnDet
  since   \* per lane: the time since the last vehicle left the loop

light == <<step, spent, next>>
loops == <<onDet, since>>
vars  == <<turn, light, loops, traffic>>

Init ==
  /\ turn = "lights"
  /\ step = 1 /\ spent = 0 /\ next = Phases[1].min
  /\ onDet = [l \in Lanes |-> {}]
  /\ since = [l \in Lanes |-> MaxGap]
  /\ NoTraffic

-----------------------------------------------------------------------------
(* Begin-of-step events: a second has gone by, and trySwitch if it is due. *)

IsActuated(p)   == Phases[p].min # Phases[p].max
IsGreenPhase(p) == Phases[p].green # {} /\ ~Phases[p].yellow

\* myInductLoopsForPhase
LoopsForPhase(p) == IF IsActuated(p) THEN Phases[p].green ELSE {}

Aged == [l \in Lanes |-> Min2(since[l] + TS, MaxGap)]

\* getTimeSinceLastDetection
TimeSinceLastDetection(l) == IF onDet[l] # {} THEN 0 ELSE Aged[l]

\* gapControl: the gaps that extend the phase; none, and it ends.
Gaps ==
  {TimeSinceLastDetection(l) : l \in
     {k \in LoopsForPhase(step) : /\ IsGreenPhase(step)
                                  /\ spent + TS < Phases[step].max
                                  /\ TimeSinceLastDetection(k) < MaxGap}}

\* To the nearest millisecond.  (A negative time is rounded the other way at
\* the half, which duration does not tell from zero.)
TIME2STEPS(t) == ((t + Milli \div 2) \div Milli) * Milli

\* duration; SUMOTime(1) is a millisecond.
Duration(act, gap) ==
  LET new   == Max2(Phases[step].min - act, Max2(TIME2STEPS(DetectorGap - gap), Milli))
      whole == IF Whole(new) THEN new ELSE ((new + act) \div TS + 1) * TS - act
  IN Min2(whole, Phases[step].max - act)

Wait ==
  /\ next > TS
  /\ next' = next - TS /\ spent' = spent + TS
  /\ UNCHANGED step

\* trySwitch, as long as a vehicle keeps the phase.
Extend ==
  /\ next <= TS
  /\ \E gap \in Gaps :
       /\ \A g \in Gaps : gap <= g
       /\ spent' = spent + TS
       /\ next' = Duration(spent + TS, gap)
  /\ UNCHANGED step

\* trySwitch to the next phase, or, when there is but one, a retry.
Switch ==
  /\ next <= TS
  /\ Gaps = {}
  /\ step' = (step % Len(Phases)) + 1
  /\ spent' = IF step' # step THEN 0 ELSE spent + TS
  /\ next' = Max2(IF step' # step THEN 0 ELSE TS, Phases[step'].min - spent')

Lights ==
  /\ turn = "lights" /\ turn' = "moves"
  /\ Wait \/ Extend \/ Switch
  /\ since' = Aged
  /\ UNCHANGED <<onDet, traffic>>

-----------------------------------------------------------------------------
(* executeMovements, then the lane changes of the same step.               *)

\* notifyMove: of the vehicles on the lane, and of those that come onto it.
Seen(l, into) == OnLane(l) \cup Come(l, into)

Entered(l, move, into) ==
  {v \in Seen(l, into) : From(v, move, into) < Loop /\ From(v, move, into) + move[v] >= Loop}
Passed(l, move, into) ==
  {v \in Seen(l, into) : From(v, move, into) + move[v] - Length[v] > Loop}
Left(l, move, into) ==
  {v \in Passed(l, move, into) \cap (onDet[l] \cup Entered(l, move, into)) :
     From(v, move, into) - Length[v] <= Loop}

\* executeMovements goes from the front of a lane to its back: the last one
\* that leaves is the one behind.
Last(l, move, into) ==
  CHOOSE v \in Left(l, move, into) :
    \A w \in Left(l, move, into) : From(v, move, into) <= From(w, move, into)

\* passingTime
PassingTime(v, move, into) == Fraction(Loop - (From(v, move, into) - Length[v]), move[v])

\* On the loop after the moves, and those of them that notifyLeave reports.
Occupied(l, move, into)       == (onDet[l] \cup Entered(l, move, into)) \ Passed(l, move, into)
Vanished(l, move, gone, into) == Occupied(l, move, into) \cap gone

Moves ==
  /\ turn = "moves" /\ turn' = "lights"
  /\ \E move \in Motions : Headway(move) /\ \E gone \in Departures : \E into \in Arrivals :
       /\ RoomFor(move, into)
       /\ Drive(move, gone, into)
       /\ onDet' = [l \in Lanes |-> Occupied(l, move, into) \ gone]
       /\ since' = [l \in Lanes |->
            IF Vanished(l, move, gone, into) # {} THEN -TS
            ELSE IF Left(l, move, into) # {} THEN -PassingTime(Last(l, move, into), move, into)
            ELSE since[l]]
  /\ UNCHANGED light

Next == Lights \/ Moves

Spec == Init /\ [][Next]_vars
=============================================================================
