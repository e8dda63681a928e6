------------------------------ MODULE Approach ------------------------------
(***************************************************************************)
(* What an actuated traffic light works on: its program, and the traffic   *)
(* on the lanes that lead up to it.  A vehicle comes onto a lane near its  *)
(* beginning, moves on by an arbitrary distance each step and is out of    *)
(* sight when it is past both the stop line and the induction loop.  It    *)
(* may also vanish from its lane: by a lane change, a teleport, or because *)
(* a host despawns it.                                                     *)
(*                                                                         *)
(* This is the engine as the light's logic sees it.  Positions are those   *)
(* of a vehicle's front, and go on past the stop line while its back has   *)
(* not passed the loop.                                                    *)
(***************************************************************************)
EXTENDS Integers, Sequences

CONSTANTS
  Phases,      \* the program: [min, max, green, yellow]; `green' are the
               \* lanes whose links are green (all of a lane's links at once,
               \* and all of them majors), `yellow' is that some link is
  MaxGap,      \* max-gap (a time, as below)
  DetectorGap, \* detector-gap
  Lanes,       \* the lanes with an induction loop
  Off,         \* no lane
  Vehicles,    \* entity indices
  Length,      \* the length of each vehicle
  LaneLength,  \* where the stop line is
  Loop,        \* where the loop is
  Ways,        \* bound: the ways of one step
  Entries,     \* bound: how far onto its lane a vehicle comes in one step
  OtherLeaves  \* whether vehicles vanish

\* Times are reals in the code (doubles of seconds, without their noise).  They
\* are compared, added to whole seconds, and converted to milliseconds, where
\* the half decides; so a time is known by its place among the half
\* milliseconds: an even number is so many of them, an odd one lies between two.
Milli == 4
TS    == 1000 * Milli

\* The time x/m of a second.
Fraction(x, m) == 2 * ((x * 2000) \div m) + (IF (x * 2000) % m = 0 THEN 0 ELSE 1)

Whole(t) == t % TS = 0
Phase    == [min : Nat, max : Nat, green : SUBSET Lanes, yellow : BOOLEAN]

Max2(a, b) == IF a >= b THEN a ELSE b
Min2(a, b) == IF a <= b THEN a ELSE b

ASSUME ProgramAssumption ==
  /\ Phases \in Seq(Phase) /\ Len(Phases) > 0
  /\ \A p \in 1..Len(Phases) :
       LET phase == Phases[p]
       IN Whole(phase.min) /\ Whole(phase.max) /\ TS <= phase.min /\ phase.min <= phase.max
ASSUME GapAssumption   ==
  /\ MaxGap \in Nat /\ DetectorGap \in Nat
  /\ MaxGap % Milli = 0 /\ DetectorGap % Milli = 0
ASSUME RoadAssumption  ==
  /\ Off \notin Lanes
  /\ Vehicles \subseteq Nat /\ Length \in [Vehicles -> Nat \ {0}]
  /\ \E last \in Vehicles : \A v \in Vehicles : v <= last  \* a table of them
  /\ LaneLength \in Nat /\ Loop \in Nat /\ 0 < Loop /\ Loop < LaneLength
  /\ Ways \subseteq Nat /\ Entries \subseteq 0..LaneLength
  /\ OtherLeaves \in BOOLEAN

VARIABLES
  lane,  \* the lane each vehicle is on, or Off
  pos    \* where its front is

traffic == <<lane, pos>>

OnLane(l) == {v \in Vehicles : lane[v] = l}
Back(v)   == pos[v] - Length[v]

NoTraffic == lane = [v \in Vehicles |-> Off] /\ pos = [v \in Vehicles |-> 0]

\* One second: how far each vehicle moves, which ones vanish, and who comes
\* onto which lane, and how far.
Motions    == [Vehicles -> Ways]
Departures == IF OtherLeaves THEN SUBSET {v \in Vehicles : lane[v] # Off} ELSE {{}}
Arrivals   == [OnLane(Off) -> {[lane |-> Off, pos |-> 0]} \cup [lane : Lanes, pos : Entries]]

Come(l, into) == {v \in OnLane(Off) : into[v].lane = l}

\* Where its move starts, in the lane's coordinate: before the beginning for
\* one that comes onto it.
From(v, move, into) == IF lane[v] = Off THEN into[v].pos - move[v] ELSE pos[v]

\* Nobody drives into the vehicle ahead, wherever that has got to in the same
\* second, and there is room behind it for whoever comes.
Headway(move) ==
  \A v, w \in Vehicles :
    v # w /\ lane[v] # Off /\ lane[v] = lane[w] /\ pos[w] <= pos[v]
      => pos[w] + move[w] <= Back(v) + move[v]
RoomFor(move, into) ==
  \A l \in Lanes : \A v \in Come(l, into) :
    /\ into[v].pos < move[v]
    /\ \A w \in Vehicles \ {v} : w \notin Come(l, into) /\ (lane[w] = l => into[v].pos <= Back(w) + move[w])

\* Out of sight: over the stop line and off the loop.
Beyond(v, p) == p > LaneLength /\ p - Length[v] > Loop

Drive(move, gone, into) ==
  LET stays(v) == v \notin gone /\ ~Beyond(v, pos[v] + move[v])
  IN /\ lane' = [v \in Vehicles |->
                   IF lane[v] = Off THEN into[v].lane ELSE IF stays(v) THEN lane[v] ELSE Off]
     /\ pos' = [v \in Vehicles |->
                   IF lane[v] = Off THEN into[v].pos ELSE IF stays(v) THEN pos[v] + move[v] ELSE 0]

RoadOK ==
  /\ lane \in [Vehicles -> Lanes \cup {Off}]
  /\ pos \in [Vehicles -> Nat]
=============================================================================
