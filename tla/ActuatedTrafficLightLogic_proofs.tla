------------------ MODULE ActuatedTrafficLightLogic_proofs ------------------
(***************************************************************************)
(* Proofs about the actuated traffic light, for every program, road and    *)
(* number of vehicles: its types, the bounds of its phases, that its loops *)
(* are exact, and in which two ways only it departs from SUMO's where the  *)
(* port applies.                                                           *)
(***************************************************************************)
EXTENDS ActuatedTrafficLightLogic, NaturalsInduction, WellFoundedInduction, TLAPS

LEMMA PhaseFacts ==
  ASSUME NEW p \in 1..Len(Phases)
  PROVE  /\ Phases[p] \in Phase
         /\ Phases[p].min \in Nat /\ Phases[p].max \in Nat
         /\ Whole(Phases[p].min) /\ Whole(Phases[p].max)
         /\ TS <= Phases[p].min /\ Phases[p].min <= Phases[p].max
         /\ Phases[p].green \subseteq Lanes
<1>1. Phases[p] \in Phase
  BY ProgramAssumption
<1>2. /\ Whole(Phases[p].min) /\ Whole(Phases[p].max)
      /\ TS <= Phases[p].min /\ Phases[p].min <= Phases[p].max
  BY ProgramAssumption
<1>3. Phases[p].min \in Nat /\ Phases[p].max \in Nat /\ Phases[p].green \subseteq Lanes
  BY <1>1 DEF Phase
<1> QED BY <1>1, <1>2, <1>3

\* A vehicle passes the loop within the second.
LEMMA FractionFits ==
  ASSUME NEW x \in Nat, NEW m \in Nat, x < m
  PROVE  Fraction(x, m) \in 0..TS
<1>1. PICK q \in 0..1999 : q = (x * 2000) \div m
  <2>1. (x * 2000) \div m \in 0..1999
    BY SMTT(60)
  <2> QED BY <2>1
<1>2. PICK odd \in 0..1 : odd = IF (x * 2000) % m = 0 THEN 0 ELSE 1
  OBVIOUS
<1>3. Fraction(x, m) = 2 * q + odd
  BY <1>1, <1>2 DEF Fraction
<1>4. 2 * q + odd \in 0..TS
  BY DEF TS, Milli
<1> QED BY <1>3, <1>4

LEMMA LeastNatural ==
  ASSUME NEW S \in SUBSET Nat, S # {}
  PROVE  \E n \in S : \A m \in S : n <= m
<1> DEFINE Less == {ss \in Nat \X Nat : ss[1] < ss[2]}
<1>1. IsWellFoundedOn(Less, Nat)
  BY NatLessThanWellFounded DEF OpToRel
<1>2. \A m, n \in Nat : <<m, n>> \in Less <=> m < n
  OBVIOUS
<1> HIDE DEF Less
<1>3. PICK n \in S : \A m \in S : ~(<<m, n>> \in Less)
  BY <1>1, WFMin
<1>4. \A m \in S : m \in Nat /\ n \in Nat /\ ~(m < n)
  BY <1>2, <1>3
<1>5. \A m \in S : n <= m
  BY <1>4
<1> QED BY <1>3, <1>5

\* Of some vehicles one comes last in the table.
LEMMA LastOfThem ==
  ASSUME NEW S \in SUBSET Vehicles, S # {}
  PROVE  (CHOOSE v \in S : \A w \in S : w <= v) \in S
<1>1. PICK top \in Nat : \A v \in Vehicles : v \in Nat /\ v <= top
  BY RoadAssumption
<1> DEFINE T == {m \in Nat : top - m \in S}
<1>2. T \in SUBSET Nat /\ T # {}
  <2>1. PICK k \in S : k \in Nat /\ k <= top
    BY <1>1
  <2>2. top - k \in Nat /\ top - (top - k) = k
    BY <2>1
  <2> QED BY <2>1, <2>2
<1>3. PICK m \in T : \A l \in T : m <= l
  <2> HIDE DEF T
  <2> QED BY <1>2, LeastNatural
<1>4. top - m \in S
  BY <1>3
<1>5. ASSUME NEW w \in S PROVE w <= top - m
  <2>1. w \in Nat /\ w <= top
    BY <1>1
  <2>2. top - w \in Nat /\ top - (top - w) = w
    BY <2>1
  <2>3. m <= top - w /\ m \in Nat
    BY <2>2, <1>3
  <2> QED BY <2>1, <2>3
<1> QED BY <1>4, <1>5

\* The numbers of a motion and of a vehicle that comes.
LEMMA MotionTyped ==
  ASSUME NEW move \in Motions, NEW v \in Vehicles
  PROVE  move[v] \in Nat
<1>1. move[v] \in Ways
  BY DEF Motions
<1> QED BY <1>1, RoadAssumption

LEMMA ArrivalTyped ==
  ASSUME NEW into \in Arrivals, NEW v \in Vehicles, lane[v] = Off
  PROVE  /\ into[v].lane \in Lanes \cup {Off} /\ into[v].pos \in Nat
         /\ PortApplies => into[v].pos < Loop
<1>1. into[v] \in {[lane |-> Off, pos |-> 0]} \cup [lane : Lanes, pos : Entries]
  BY DEF Arrivals, OnLane
<1>2. \A e \in Entries : e \in Nat /\ (PortApplies => e < Loop)
  BY RoadAssumption DEF PortApplies
<1>3. into[v] = [lane |-> Off, pos |-> 0] \/ \E l \in Lanes, e \in Entries : into[v] = [lane |-> l, pos |-> e]
  BY <1>1
<1>4. CASE into[v] = [lane |-> Off, pos |-> 0]
  BY <1>4, RoadAssumption
<1>5. ASSUME NEW l \in Lanes, NEW e \in Entries, into[v] = [lane |-> l, pos |-> e]
      PROVE  /\ into[v].lane \in Lanes \cup {Off} /\ into[v].pos \in Nat
             /\ PortApplies => into[v].pos < Loop
  BY <1>2, <1>5
<1> QED BY <1>3, <1>4, <1>5

\* The next step of the program's cycle.
LEMMA Cycle ==
  ASSUME NEW n \in Nat, n > 0, NEW s \in 1..n
  PROVE  /\ (s % n) + 1 \in 1..n
         /\ n > 1 => (s % n) + 1 # s
BY SMTT(60)

-----------------------------------------------------------------------------
(* The phase machine.                                                      *)

\* The next whole second, from one.
LEMMA WholeSecond ==
  ASSUME NEW act \in Nat, Whole(act), NEW n \in Nat \ {0}
  PROVE  LET whole == IF Whole(n) THEN n ELSE ((n + act) \div TS + 1) * TS - act
         IN /\ whole \in Nat \ {0} /\ Whole(whole)
            /\ n <= whole /\ whole < n + TS
BY SMTT(60) DEF Whole, TS, Milli

\* Duration is whole, positive and within the phase, however it rounds.
LEMMA DurationFits ==
  ASSUME step \in 1..Len(Phases), NEW act \in Nat, Whole(act), NEW gap \in Int, act < Phases[step].max
  PROVE  /\ Duration(act, gap) \in Nat \ {0} /\ Whole(Duration(act, gap))
         /\ Phases[step].min <= act + Duration(act, gap)
         /\ act + Duration(act, gap) <= Phases[step].max
<1> DEFINE lo    == Phases[step].min
           hi    == Phases[step].max
           new   == Max2(lo - act, Max2(Floored(DetectorGap - gap), TS))
           whole == IF Whole(new) THEN new ELSE ((new + act) \div TS + 1) * TS - act
<1>1. lo \in Nat /\ hi \in Nat /\ Whole(lo) /\ Whole(hi) /\ lo <= hi
  BY PhaseFacts
<1>2. new \in Nat \ {0} /\ new >= lo - act
  <2>1. Floored(DetectorGap - gap) \in Int
    BY GapAssumption DEF Floored, Milli
  <2> QED BY <1>1, <2>1 DEF Max2, TS, Milli
<1>3. Duration(act, gap) = Min2(whole, hi - act)
  BY DEF Duration
<1> HIDE DEF lo, hi, new
<1>4. whole \in Nat \ {0} /\ whole >= new /\ Whole(whole)
  BY <1>2, WholeSecond
<1>5. hi - act \in Nat \ {0} /\ Whole(hi - act)
  BY <1>1 DEF Whole, TS, Milli, hi
<1> HIDE DEF whole
<1>6. Duration(act, gap) \in Nat \ {0} /\ Whole(Duration(act, gap))
  BY <1>3, <1>4, <1>5 DEF Min2
<1>7. lo <= act + Duration(act, gap) /\ act + Duration(act, gap) <= hi
  BY <1>1, <1>2, <1>3, <1>4, <1>5 DEF Min2
<1> QED BY <1>6, <1>7 DEF lo, hi

LEMMA AgedTyped ==
  ASSUME TypeOK PROVE Aged \in [Lanes -> 0..MaxGap]
BY GapAssumption DEF TypeOK, Aged, Min2, TS, Milli

LEMMA GapsTyped ==
  ASSUME TypeOK
  PROVE  /\ Gaps \subseteq 0..MaxGap
         /\ Gaps # {} => spent + TS < Phases[step].max
<1>1. LoopsForPhase(step) \subseteq Lanes
  BY PhaseFacts DEF LoopsForPhase, TypeOK
<1>2. \A l \in Lanes : TimeSinceLastDetection(l) \in 0..MaxGap
  BY AgedTyped, GapAssumption DEF TimeSinceLastDetection
<1> QED BY <1>1, <1>2 DEF Gaps

\* What a phase has lasted and what it has still to go.
PhaseFits ==
  /\ Phases[step].min <= spent + next
  /\ spent + next <= Phases[step].max

LEMMA LightsStep ==
  ASSUME TypeOK, PhaseFits, Lights
  PROVE  TypeOK' /\ PhaseFits'
<1> USE DEF Lights
<1>1. /\ step \in 1..Len(Phases) /\ spent \in Nat /\ next \in Nat \ {0}
      /\ Whole(spent) /\ Whole(next) /\ Len(Phases) \in Nat /\ Len(Phases) > 0
  BY ProgramAssumption DEF TypeOK
<1>2. spent + TS \in Nat /\ Whole(spent + TS)
  BY <1>1 DEF Whole, TS, Milli
<1>3. /\ step' \in 1..Len(Phases)
      /\ spent' \in Nat /\ next' \in Nat \ {0} /\ Whole(spent') /\ Whole(next')
      /\ PhaseFits'
  <2>1. CASE Wait
    <3>1. next - TS \in Nat \ {0} /\ Whole(next - TS)
      BY <1>1, <2>1 DEF Wait, Whole, TS, Milli
    <3>2. spent' + next' = spent + next
      BY <1>1, <2>1 DEF Wait, TS, Milli
    <3> QED BY <1>1, <1>2, <2>1, <3>1, <3>2 DEF Wait, PhaseFits
  <2>2. CASE Extend
    <3>1. PICK gap \in Gaps : spent' = spent + TS /\ next' = Duration(spent + TS, gap)
      BY <2>2 DEF Extend
    <3>2. gap \in Int /\ spent + TS < Phases[step].max
      BY <3>1, GapsTyped, GapAssumption
    <3>3. step' = step
      BY <2>2 DEF Extend
    <3> QED BY <1>1, <1>2, <3>1, <3>2, <3>3, DurationFits DEF PhaseFits
  <2>3. CASE Switch
    <3>1. step' \in 1..Len(Phases) /\ spent' = 0
      BY <1>1, <2>3, Cycle DEF Switch
    <3>2. /\ Phases[step'].min \in Nat /\ Phases[step'].max \in Nat /\ Whole(Phases[step'].min)
          /\ TS <= Phases[step'].min /\ Phases[step'].min <= Phases[step'].max
      BY <3>1, PhaseFacts
    <3>3. next' = Phases[step'].min
      BY <2>3, <3>2 DEF Switch, Max2, TS, Milli
    <3> QED BY <3>1, <3>2, <3>3 DEF PhaseFits, Whole, TS, Milli
  <2> QED BY <2>1, <2>2, <2>3
<1>4. since' \in [Lanes -> -TS..MaxGap]
  BY AgedTyped, GapAssumption DEF TS, Milli
<1> QED BY <1>3, <1>4 DEF TypeOK, RoadOK, traffic

-----------------------------------------------------------------------------
(* The loops.                                                              *)

\* The last to leave is one of those that leave.
LEMMA LastLeaves ==
  ASSUME NEW move, NEW l, Left(l, move) # {}
  PROVE  Last(l, move) \in Left(l, move)
<1>1. Left(l, move) \in SUBSET Vehicles
  BY DEF Left, Passed, Notified, OnLane
<1> QED BY <1>1, LastOfThem DEF Last

LEMMA PassingTyped ==
  ASSUME TypeOK, NEW move \in Motions, NEW l \in Lanes, NEW v \in Left(l, move)
  PROVE  /\ v \in Vehicles /\ PassingTime(v, move) \in 0..TS
<1>1. v \in Vehicles /\ Back(v) <= Loop /\ Back(v) + move[v] > Loop
  BY DEF Left, Passed, Notified, OnLane
<1>2. Loop - Back(v) \in Nat /\ move[v] \in Nat /\ Loop - Back(v) < move[v]
  <2>1. pos[v] \in Nat /\ Length[v] \in Nat /\ Loop \in Nat /\ move[v] \in Nat
    BY <1>1, RoadAssumption DEF TypeOK, RoadOK, Motions
  <2> QED BY <1>1, <2>1 DEF Back
<1> QED BY <1>1, <1>2, FractionFits DEF PassingTime

LEMMA DriveTyped ==
  ASSUME TypeOK, NEW move \in Motions, NEW gone \in Departures, NEW into \in Arrivals,
         Drive(move, gone, into)
  PROVE  RoadOK'
<1>1. \A v \in Vehicles : /\ pos[v] \in Nat /\ move[v] \in Nat /\ lane[v] \in Lanes \cup {Off}
                          /\ pos[v] + move[v] \in Nat
  BY MotionTyped DEF TypeOK, RoadOK
<1>2. \A v \in Vehicles : lane[v] = Off => into[v].lane \in Lanes \cup {Off} /\ into[v].pos \in Nat
  BY ArrivalTyped
<1> QED BY <1>1, <1>2 DEF Drive, RoadOK

LEMMA MovesTyped ==
  ASSUME TypeOK, Moves
  PROVE  TypeOK'
<1>1. PICK move \in Motions, gone \in Departures, into \in Arrivals :
        /\ Headway(move) /\ Drive(move, gone, into)
        /\ onDet' = [l \in Lanes |-> (onDet[l] \cup Entered(l, move)) \ Passed(l, move)]
        /\ since' = [l \in Lanes |->
             IF Left(l, move) # {} THEN -PassingTime(Last(l, move), move) ELSE since[l]]
  BY DEF Moves
<1>2. RoadOK'
  BY <1>1, DriveTyped
<1>3. onDet' \in [Lanes -> SUBSET Vehicles]
  BY <1>1 DEF TypeOK, Entered, Notified, OnLane
<1>4. since' \in [Lanes -> -TS..MaxGap]
  <2>1. \A l \in Lanes : Left(l, move) # {} => PassingTime(Last(l, move), move) \in 0..TS
    BY LastLeaves, PassingTyped
  <2>2. \A l \in Lanes : since[l] \in -TS..MaxGap
    BY DEF TypeOK
  <2>3. \A t \in 0..TS : -t \in -TS..MaxGap
    BY GapAssumption DEF TS, Milli
  <2>4. \A l \in Lanes :
          (IF Left(l, move) # {} THEN -PassingTime(Last(l, move), move) ELSE since[l]) \in -TS..MaxGap
    BY <2>1, <2>2, <2>3
  <2> QED BY <1>1, <2>4
<1> QED BY <1>2, <1>3, <1>4 DEF Moves, TypeOK, light

-----------------------------------------------------------------------------
(* Types and bounds, for every program and road.                           *)

Inv == TypeOK /\ PhaseFits

LEMMA InitInv == Init => Inv
<1> SUFFICES ASSUME Init PROVE Inv
  OBVIOUS
<1>1. /\ 1 \in 1..Len(Phases) /\ Phases[1].min \in Nat /\ Phases[1].max \in Nat
      /\ Whole(Phases[1].min) /\ TS <= Phases[1].min /\ Phases[1].min <= Phases[1].max
  BY PhaseFacts, ProgramAssumption
<1>2. MaxGap \in -TS..MaxGap
  BY GapAssumption DEF TS, Milli
<1> QED BY <1>1, <1>2, RoadAssumption DEF Init, Inv, TypeOK, PhaseFits, NoTraffic, RoadOK, Whole, TS, Milli

LEMMA StepInv == Inv /\ [Next]_vars => Inv'
<1> SUFFICES ASSUME Inv, [Next]_vars PROVE Inv'
  OBVIOUS
<1>1. CASE Lights
  BY <1>1, LightsStep DEF Inv
<1>2. CASE Moves
  BY <1>2, MovesTyped DEF Inv, PhaseFits, Moves, light
<1>3. CASE UNCHANGED vars
  BY <1>3 DEF vars, light, loops, traffic, Inv, TypeOK, PhaseFits, RoadOK
<1> QED BY <1>1, <1>2, <1>3 DEF Next

\* The types are right: in particular the next switch is always whole seconds
\* off and never overdue, whatever Duration has rounded (Advance).
THEOREM TypeCorrect == Spec => []TypeOK
<1>1. Inv => TypeOK
  BY DEF Inv
<1> QED BY InitInv, StepInv, <1>1, PTL DEF Spec

\* No phase ends before its minimum or after its maximum, for every program,
\* road and traffic (TrySwitch, Duration).
THEOREM BoundsKept == Spec => PhasesKeepTheirBounds
<1>1. Inv /\ [Next]_vars =>
        [step' # step => Phases[step].min <= spent + TS /\ spent + TS <= Phases[step].max]_vars
  <2> SUFFICES ASSUME Inv, Next, step' # step
               PROVE  Phases[step].min <= spent + TS /\ spent + TS <= Phases[step].max
    BY DEF vars, light
  <2>1. Switch
    BY DEF Next, Lights, Moves, Wait, Extend, light
  <2>2. next = TS
    BY <2>1 DEF Switch, Inv, TypeOK, Whole, TS, Milli
  <2> QED BY <2>2 DEF Inv, PhaseFits
<1> QED BY InitInv, StepInv, <1>1, PTL DEF Spec, PhasesKeepTheirBounds

-----------------------------------------------------------------------------
(* Where the port applies, the loops are exact.                            *)

NobodyBeyond == \A v \in Vehicles : lane[v] # Off => ~Beyond(v, pos[v])
LoopInv      == TypeOK /\ NobodyBeyond /\ LoopSeesTheRoad

\* The numbers of a vehicle on a lane.
LEMMA Numbers ==
  ASSUME TypeOK, NEW move \in Motions, NEW v \in Vehicles
  PROVE  /\ pos[v] \in Nat /\ move[v] \in Nat /\ Length[v] \in Nat \ {0}
         /\ Loop \in Nat /\ LaneLength \in Nat /\ lane[v] \in Lanes \cup {Off}
BY RoadAssumption DEF TypeOK, RoadOK, Motions

\* A vehicle on the loop has its front on the lane, so its moves are reported.
LEMMA OnLoopIsNotified ==
  ASSUME LoopInv, PortApplies, NEW l \in Lanes, NEW v \in onDet[l]
  PROVE  v \in Notified(l) /\ pos[v] >= Loop /\ Back(v) <= Loop
<1>1. v \in OnLane(l) /\ v \in Vehicles /\ pos[v] >= Loop /\ Back(v) <= Loop
  BY DEF LoopInv, LoopSeesTheRoad, OnLane
<1>2. pos[v] \in Nat /\ Length[v] \in Nat /\ Loop \in Nat /\ LaneLength \in Nat
  BY <1>1, RoadAssumption DEF LoopInv, TypeOK, RoadOK
<1>3. Loop + Length[v] <= LaneLength
  BY <1>1 DEF PortApplies
<1> QED BY <1>1, <1>2, <1>3 DEF Notified, Back

LEMMA MovesExact ==
  ASSUME LoopInv, PortApplies, Moves
  PROVE  NobodyBeyond' /\ LoopSeesTheRoad'
<1>1. PICK move \in Motions, gone \in Departures, into \in Arrivals :
        /\ Headway(move) /\ RoomFor(move, into) /\ Drive(move, gone, into)
        /\ onDet' = [l \in Lanes |-> (onDet[l] \cup Entered(l, move)) \ Passed(l, move)]
  BY DEF Moves
<1>2. gone = {}
  BY DEF PortApplies, Departures
<1> DEFINE stays(v) == ~Beyond(v, pos[v] + move[v])
<1>3. \A v \in Vehicles :
        /\ lane'[v] = IF lane[v] = Off THEN into[v].lane ELSE IF stays(v) THEN lane[v] ELSE Off
        /\ pos'[v] = IF lane[v] = Off THEN into[v].pos ELSE IF stays(v) THEN pos[v] + move[v] ELSE 0
  BY <1>1, <1>2 DEF Drive
<1>4. \A v \in Vehicles : lane[v] = Off => into[v].pos \in Nat /\ into[v].pos < Loop
  BY ArrivalTyped
<1>5. Loop < LaneLength /\ Loop \in Nat /\ LaneLength \in Nat
  BY RoadAssumption DEF PortApplies
<1>6. NobodyBeyond'
  <2> SUFFICES ASSUME NEW v \in Vehicles, lane'[v] # Off PROVE ~Beyond(v, pos'[v])
    BY DEF NobodyBeyond, Beyond
  <2>1. CASE lane[v] = Off
    BY <2>1, <1>3, <1>4, <1>5 DEF Beyond
  <2>2. CASE lane[v] # Off
    BY <2>2, <1>3
  <2> QED BY <2>1, <2>2
<1>7. LoopSeesTheRoad'
  <2> SUFFICES ASSUME NEW l \in Lanes, NEW v \in Vehicles
               PROVE  v \in onDet'[l] <=> (lane'[v] = l /\ pos'[v] >= Loop /\ pos'[v] - Length[v] <= Loop)
    <3>1. \A l \in Lanes : onDet'[l] \subseteq Vehicles
      BY <1>1 DEF LoopInv, TypeOK, Entered, Notified, OnLane
    <3> QED BY <3>1 DEF LoopSeesTheRoad, OnLane, Back
  <2>1. /\ pos[v] \in Nat /\ move[v] \in Nat /\ Length[v] \in Nat \ {0}
        /\ lane[v] \in Lanes \cup {Off} /\ l # Off
    BY Numbers, RoadAssumption DEF LoopInv
  <2>2. v \in onDet[l] <=> (lane[v] = l /\ pos[v] >= Loop /\ Back(v) <= Loop)
    BY DEF LoopInv, LoopSeesTheRoad, OnLane
  <2>3. v \in onDet'[l] <=> ((v \in onDet[l] \/ v \in Entered(l, move)) /\ v \notin Passed(l, move))
    BY <1>1
  <2>4. CASE lane[v] = Off
    <3>1. v \notin onDet[l] /\ v \notin Entered(l, move)
      BY <2>1, <2>2, <2>4 DEF Entered, Notified, OnLane
    <3>2. pos'[v] < Loop
      BY <1>3, <1>4, <1>5, <2>4
    <3> QED BY <2>3, <3>1, <3>2, <1>3, <1>4, <1>5, <2>4
  <2>5. CASE lane[v] # Off /\ lane[v] # l
    <3>1. v \notin onDet[l] /\ v \notin Entered(l, move)
      BY <2>2, <2>5 DEF Entered, Notified, OnLane
    <3>2. lane'[v] # l
      BY <1>3, <2>1, <2>5
    <3> QED BY <2>3, <3>1, <3>2
  <2>6. CASE lane[v] = l
    <3>1. Loop + Length[v] <= LaneLength
      BY DEF PortApplies
    <3>2. v \in Entered(l, move) <=> (pos[v] <= LaneLength /\ pos[v] < Loop /\ pos[v] + move[v] >= Loop)
      BY <2>6 DEF Entered, Notified, OnLane
    <3>3. v \in Passed(l, move)
            <=> (pos[v] <= LaneLength /\ pos[v] - Length[v] <= Loop /\ pos[v] - Length[v] + move[v] > Loop)
      BY <2>6 DEF Passed, Notified, OnLane, Back
    <3>4. CASE stays(v)
      <4>1. lane'[v] = l /\ pos'[v] = pos[v] + move[v]
        BY <3>4, <2>1, <2>6, <1>3
      <4> HIDE DEF stays
      <4> QED BY <4>1, <2>1, <2>2, <2>3, <2>6, <3>1, <3>2, <3>3, <1>5 DEF Back
    <3>5. CASE ~stays(v)
      <4>1. lane'[v] = Off /\ pos[v] + move[v] - Length[v] > Loop
        BY <3>5, <2>1, <2>6, <1>3 DEF Beyond
      <4> HIDE DEF stays
      <4> QED BY <4>1, <2>1, <2>2, <2>3, <2>6, <3>1, <3>2, <3>3, <1>5 DEF Back
    <3> QED BY <3>4, <3>5
  <2> QED BY <2>4, <2>5, <2>6
<1> QED BY <1>6, <1>7

LEMMA InitLoop == Init => LoopInv
<1> SUFFICES ASSUME Init PROVE LoopInv
  OBVIOUS
<1>1. TypeOK
  BY InitInv DEF Inv
<1>2. NobodyBeyond
  BY DEF Init, NoTraffic, NobodyBeyond
<1>3. LoopSeesTheRoad
  BY RoadAssumption DEF Init, NoTraffic, LoopSeesTheRoad, OnLane
<1> QED BY <1>1, <1>2, <1>3 DEF LoopInv

LEMMA StepLoop ==
  ASSUME PortApplies PROVE LoopInv /\ Inv' /\ [Next]_vars => LoopInv'
<1> SUFFICES ASSUME LoopInv, Inv', [Next]_vars PROVE LoopInv'
  OBVIOUS
<1>1. CASE Lights \/ UNCHANGED vars
  BY <1>1 DEF Lights, vars, loops, traffic, Inv, LoopInv, NobodyBeyond, LoopSeesTheRoad, Beyond, OnLane, Back
<1>2. CASE Moves
  BY <1>2, MovesExact DEF Inv, LoopInv
<1> QED BY <1>1, <1>2 DEF Next

\* Where the port applies the loops see exactly the vehicles that stand on
\* them, on every road and for any number of vehicles (NotifyMove).
THEOREM LoopsAreExact == ASSUME PortApplies PROVE Spec => []LoopSeesTheRoad
<1>1. LoopInv => LoopSeesTheRoad
  BY DEF LoopInv
<1> QED BY InitInv, StepInv, InitLoop, StepLoop, <1>1, PTL DEF Spec

-----------------------------------------------------------------------------
(* Where the port applies, it departs from SUMO's light in two ways only.  *)

\* Both count a positive rest up to whole seconds, so it makes no difference
\* that one starts from a second and the other from a millisecond; but it does
\* where rounding to the nearest millisecond passes a whole second.
LEMMA NearDuration ==
  ASSUME step \in 1..Len(Phases), NEW act \in Nat, Whole(act), NEW gap \in Int, act < Phases[step].max
  PROVE  \/ Duration(act, gap) = Sumo!Duration(act, gap)
         \/ /\ (DetectorGap - gap) % TS \in Milli \div 2 .. Milli - 1
            /\ Duration(act, gap) = Sumo!Duration(act, gap) - TS
<1> DEFINE rest  == Phases[step].min - act
           left  == Phases[step].max - act
           far   == DetectorGap - gap
           new   == Max2(rest, Max2(Floored(far), TS))
           new2  == Max2(rest, Max2(Sumo!TIME2STEPS(far), Milli))
           up(n) == IF Whole(n) THEN n ELSE ((n + act) \div TS + 1) * TS - act
<1>1. rest \in Int /\ Whole(rest) /\ left \in Nat \ {0} /\ Whole(left) /\ far \in Int
  BY PhaseFacts, GapAssumption DEF Whole, TS, Milli
<1>2. Duration(act, gap) = Min2(up(new), left)
  BY DEF Duration
<1>3. Sumo!Duration(act, gap) = Min2(up(new2), left)
  BY DEF Sumo!Duration, Sumo!Max2, Sumo!Min2, Sumo!Whole, Sumo!TS, Sumo!Milli, Max2, Min2, Whole, TS, Milli
<1> HIDE DEF rest, left, far
<1>4. /\ Floored(far) \in Int /\ Floored(far) % Milli = 0
      /\ \/ Sumo!TIME2STEPS(far) = Floored(far)
         \/ Sumo!TIME2STEPS(far) = Floored(far) + Milli /\ far % Milli \in Milli \div 2 .. Milli - 1
  BY <1>1 DEF Floored, Sumo!TIME2STEPS, Sumo!Milli, Milli
<1>5. new \in Nat \ {0} /\ new2 \in Nat \ {0}
  BY <1>1, <1>4 DEF Max2, TS, Milli
<1>6. /\ up(new) \in Nat \ {0} /\ Whole(up(new)) /\ new <= up(new) /\ up(new) < new + TS
      /\ up(new2) \in Nat \ {0} /\ Whole(up(new2)) /\ new2 <= up(new2) /\ up(new2) < new2 + TS
  <2> HIDE DEF new, new2
  <2> QED BY <1>5, WholeSecond
<1>7. \A n \in Nat \ {0} : Whole(n) => up(n) = n
  OBVIOUS
<1>8. \/ up(new) = up(new2)
      \/ /\ new = Floored(far) /\ Whole(new) /\ new2 = new + Milli
         /\ far % Milli \in Milli \div 2 .. Milli - 1
  <2> HIDE DEF up
  <2>1. CASE rest >= TS \/ Floored(far) >= TS
    <3>1. \/ new = new2
          \/ /\ new = Floored(far) /\ new2 = new + Milli /\ new % Milli = 0
             /\ far % Milli \in Milli \div 2 .. Milli - 1
      BY <1>1, <1>4, <2>1 DEF Max2, Whole, TS, Milli
    <3>2. ASSUME new % Milli = 0, new2 = new + Milli, ~Whole(new) PROVE up(new) = up(new2)
      <4> HIDE DEF new, new2
      <4> QED BY <1>5, <1>6, <3>2 DEF Whole, TS, Milli
    <3> QED BY <3>1, <3>2
  <2>2. CASE rest < TS /\ Floored(far) < TS
    <3>1. rest <= 0
      BY <1>1, <2>2 DEF Whole, TS, Milli
    <3>2. Sumo!TIME2STEPS(far) \in Int /\ Sumo!TIME2STEPS(far) <= TS
      BY <1>4, <2>2 DEF TS, Milli
    <3>3. new = TS /\ new2 \in 1..TS
      <4>1. Max2(Floored(far), TS) = TS
        BY <1>4, <2>2 DEF Max2, TS, Milli
      <4>2. \A k \in Int : k <= TS => Max2(k, Milli) \in 1..TS
        BY DEF Max2, TS, Milli
      <4>3. \A k \in 1..TS : Max2(rest, k) = k
        BY <1>1, <3>1 DEF Max2, TS, Milli
      <4>4. TS \in 1..TS
        BY DEF TS, Milli
      <4> QED BY <3>2, <4>1, <4>2, <4>3, <4>4, Zenon
    <3> HIDE DEF new, new2
    <3> HIDE DEF rest
    <3>4. \A w \in Nat \ {0} : Whole(w) /\ w < TS + TS => w = TS
      BY DEF Whole, TS, Milli
    <3>5. up(new) = TS /\ up(new2) = TS
      BY <1>6, <3>3, <3>4 DEF TS, Milli
    <3> QED BY <3>5
  <2> QED BY <2>1, <2>2, <1>1, <1>4 DEF TS, Milli
<1>9. CASE up(new) = up(new2)
  BY <1>2, <1>3, <1>9
<1>10. CASE /\ new = Floored(far) /\ Whole(new) /\ new2 = new + Milli
            /\ far % Milli \in Milli \div 2 .. Milli - 1
  <2>1. far % TS \in Milli \div 2 .. Milli - 1
    BY <1>1, <1>10 DEF Floored, Whole, TS, Milli
  <2> HIDE DEF new, new2, up
  <2> DEFINE a == up(new)
             b == up(new2)
  <2>0. a \in Nat /\ b \in Nat /\ Whole(a) /\ Whole(b) /\ new <= a /\ a < new + TS
        /\ new + Milli <= b /\ b < new + Milli + TS /\ new \in Nat /\ Whole(new)
    BY <1>5, <1>6, <1>10
  <2>2. up(new) = new /\ up(new2) = new + TS
    <3> HIDE DEF a, b
    <3>1. a = new /\ b = new + TS
      BY <2>0 DEF Whole, TS, Milli
    <3> QED BY <3>1 DEF a, b
  <2>3. Min2(up(new), left) = Min2(up(new2), left) \/ Min2(up(new), left) = Min2(up(new2), left) - TS
    BY <1>1, <1>5, <1>10, <2>2 DEF Min2, Whole, TS, Milli
  <2> QED BY <1>2, <1>3, <2>1, <2>3 DEF far
<1> QED BY <1>8, <1>9, <1>10

LEMMA SameGaps ==
  ASSUME TypeOK, PortApplies
  PROVE  Gaps = Sumo!Gaps
<1>1. step \in 1..Len(Phases)
  BY DEF TypeOK
<1>2. LoopsForPhase(step) = Sumo!LoopsForPhase(step) /\ LoopsForPhase(step) \subseteq Lanes
  BY <1>1, PhaseFacts DEF LoopsForPhase, IsActuated, Sumo!LoopsForPhase, Sumo!IsActuated
<1>3. \A l \in Lanes : /\ TimeSinceLastDetection(l) = Sumo!TimeSinceLastDetection(l)
                       /\ TimeSinceLastDetection(l) \in 0..MaxGap
  <2>1. Aged = Sumo!Aged
    BY DEF Aged, Sumo!Aged, Min2, Sumo!Min2, TS, Milli, Sumo!TS, Sumo!Milli
  <2> QED BY <2>1, AgedTyped, GapAssumption DEF TimeSinceLastDetection, Sumo!TimeSinceLastDetection
<1>4. \A l \in Lanes : TimeSinceLastDetection(l) # MaxGap <=> TimeSinceLastDetection(l) < MaxGap
  BY <1>3, GapAssumption
<1>5. LoopsForPhase(step) # {} => (IsGreenPhase(step) <=> Sumo!IsGreenPhase(step))
  BY <1>1 DEF PortApplies, LoopsForPhase, IsActuated, IsGreenPhase, Sumo!IsGreenPhase
<1>6. TS = Sumo!TS
  BY DEF TS, Milli, Sumo!TS, Sumo!Milli
<1>7. Gaps \subseteq Sumo!Gaps
  <2> SUFFICES ASSUME NEW gap \in Gaps PROVE gap \in Sumo!Gaps
    OBVIOUS
  <2>1. PICK l \in LoopsForPhase(step) : gap = TimeSinceLastDetection(l) /\ gap # MaxGap
    BY DEF Gaps
  <2>2. IsGreenPhase(step) /\ spent + TS < Phases[step].max
    BY DEF Gaps
  <2> QED BY <2>1, <2>2, <1>2, <1>3, <1>4, <1>5, <1>6 DEF Sumo!Gaps
<1>8. Sumo!Gaps \subseteq Gaps
  <2> SUFFICES ASSUME NEW gap \in Sumo!Gaps PROVE gap \in Gaps
    OBVIOUS
  <2>1. PICK l \in Sumo!LoopsForPhase(step) :
          /\ gap = Sumo!TimeSinceLastDetection(l) /\ Sumo!TimeSinceLastDetection(l) < MaxGap
          /\ Sumo!IsGreenPhase(step) /\ spent + TS < Phases[step].max
    BY <1>6 DEF Sumo!Gaps
  <2> QED BY <2>1, <1>2, <1>3, <1>4, <1>5 DEF Gaps
<1> QED BY <1>7, <1>8

LEMMA LightsKept ==
  ASSUME TypeOK, PortApplies, Lights
  PROVE  Sumo!Lights \/ RoundsDown
<1> USE DEF Lights
<1>1. /\ step \in 1..Len(Phases) /\ spent + TS \in Nat /\ Whole(spent + TS)
      /\ Len(Phases) \in Nat /\ Len(Phases) > 1
  BY ProgramAssumption DEF TypeOK, Whole, TS, Milli, PortApplies
<1>2. TS = Sumo!TS
  BY DEF TS, Milli, Sumo!TS, Sumo!Milli
<1>3. Gaps = Sumo!Gaps /\ Gaps \subseteq Int
  BY SameGaps, GapsTyped, GapAssumption
<1>4. Aged = Sumo!Aged
  BY DEF Aged, Sumo!Aged, Min2, Sumo!Min2, TS, Milli, Sumo!TS, Sumo!Milli
<1>5. ASSUME Wait PROVE Sumo!Wait
  BY <1>2, <1>5 DEF Wait, Sumo!Wait
<1>6. ASSUME Extend PROVE Sumo!Extend \/ RoundsDown
  <2>1. PICK gap \in Gaps :
          (\A g \in Gaps : gap <= g) /\ spent' = spent + TS /\ next' = Duration(spent + TS, gap)
    BY <1>6 DEF Extend
  <2>2. gap \in Int /\ spent + TS < Phases[step].max
    BY <1>3, <2>1, GapsTyped
  <2>3. CASE Duration(spent + TS, gap) = Sumo!Duration(spent + TS, gap)
    BY <1>2, <1>3, <1>6, <2>1, <2>3 DEF Extend, Sumo!Extend
  <2>4. CASE /\ (DetectorGap - gap) % TS \in Milli \div 2 .. Milli - 1
             /\ Duration(spent + TS, gap) = Sumo!Duration(spent + TS, gap) - TS
    BY <1>3, <1>4, <1>6, <2>1, <2>4 DEF Extend, RoundsDown
  <2> QED BY <1>1, <2>2, <2>3, <2>4, NearDuration
<1>7. ASSUME Switch PROVE Sumo!Switch
  <2>1. step' # step
    BY <1>1, <1>7, Cycle DEF Switch
  <2>2. step' \in 1..Len(Phases)
    BY <1>1, <1>7, Cycle DEF Switch
  <2>3. next' = Sumo!Max2(0, Phases[step'].min - 0)
    BY <1>7, <2>1, <2>2, PhaseFacts DEF Switch, Max2, Sumo!Max2
  <2> QED BY <1>2, <1>3, <1>7, <2>1, <2>3 DEF Switch, Sumo!Switch
<1> QED BY <1>4, <1>5, <1>6, <1>7 DEF Sumo!Lights, traffic, Sumo!traffic

\* One motion of the vehicles, as both logics are told of it.
Motion(move, gone, into) ==
  /\ move \in Motions /\ gone \in Departures /\ into \in Arrivals
  /\ Headway(move) /\ RoomFor(move, into)

LEMMA SameNews ==
  ASSUME LoopInv, PortApplies, NEW move, NEW gone, NEW into, Motion(move, gone, into), NEW l \in Lanes
  PROVE  /\ Entered(l, move) = Sumo!Entered(l, move, into)
         /\ \A v \in onDet[l] \cup Entered(l, move) :
              v \in Passed(l, move) <=> v \in Sumo!Passed(l, move, into)
         /\ \A v \in Left(l, move) : Sumo!From(v, move, into) = pos[v]
         /\ Left(l, move) = Sumo!Left(l, move, into)
<1>1. /\ move \in Motions /\ into \in Arrivals 
      /\ Loop \in Nat /\ LaneLength \in Nat /\ Loop < LaneLength /\ l # Off
  BY RoadAssumption DEF Motion, PortApplies
<1>2. \A v \in Sumo!Come(l, into) :
        /\ v \in Vehicles /\ lane[v] = Off /\ into[v].pos \in Nat /\ into[v].pos < Loop
        /\ Sumo!From(v, move, into) + move[v] = into[v].pos
  <2> SUFFICES ASSUME NEW v \in Sumo!Come(l, into)
               PROVE  /\ v \in Vehicles /\ lane[v] = Off /\ into[v].pos \in Nat /\ into[v].pos < Loop
                      /\ Sumo!From(v, move, into) + move[v] = into[v].pos
    OBVIOUS
  <2>1. v \in Vehicles /\ lane[v] = Off
    BY DEF Sumo!Come, Sumo!OnLane
  <2>2. into[v].pos \in Nat /\ into[v].pos < Loop
    BY <1>1, <2>1, ArrivalTyped
  <2>3. Sumo!From(v, move, into) = into[v].pos - move[v]
    BY <2>1 DEF Sumo!From
  <2>4. move[v] \in Nat
    BY <1>1, <2>1, Numbers DEF LoopInv
  <2> QED BY <1>1, <2>1, <2>2, <2>3, <2>4
<1>3. \A v \in OnLane(l) : /\ v \in Vehicles /\ lane[v] # Off /\ Sumo!From(v, move, into) = pos[v]
                           /\ pos[v] \in Nat /\ move[v] \in Nat /\ Length[v] \in Nat \ {0}
  BY <1>1, Numbers DEF OnLane, Sumo!From, LoopInv
<1>4. Sumo!Seen(l, into) = OnLane(l) \cup Sumo!Come(l, into)
  BY DEF Sumo!Seen, Sumo!OnLane, OnLane
<1>5. Entered(l, move) = Sumo!Entered(l, move, into)
  <2>1. \A v \in Sumo!Come(l, into) : v \notin Sumo!Entered(l, move, into)
    BY <1>1, <1>2 DEF Sumo!Entered
  <2>2. \A v \in OnLane(l) : v \in Sumo!Entered(l, move, into) <=> v \in Entered(l, move)
    BY <1>1, <1>3, <1>4 DEF Sumo!Entered, Entered, Notified
  <2> QED BY <2>1, <2>2, <1>4 DEF Entered, Notified, Sumo!Entered
<1>6. \A v \in onDet[l] \cup Entered(l, move) :
        /\ v \in Notified(l) /\ v \in OnLane(l) /\ Back(v) <= Loop
        /\ v \in Passed(l, move) <=> v \in Sumo!Passed(l, move, into)
  <2> SUFFICES ASSUME NEW v \in onDet[l] \cup Entered(l, move)
               PROVE  /\ v \in Notified(l) /\ v \in OnLane(l) /\ Back(v) <= Loop
                      /\ v \in Passed(l, move) <=> v \in Sumo!Passed(l, move, into)
    OBVIOUS
  <2>1. v \in Notified(l)
    BY OnLoopIsNotified DEF Entered
  <2>2. v \in OnLane(l)
    BY <2>1 DEF Notified
  <2>3. Back(v) <= Loop
    <3>1. CASE v \in onDet[l]
      BY <3>1, OnLoopIsNotified
    <3>2. CASE v \in Entered(l, move)
      BY <3>2, <2>2, <1>1, <1>3 DEF Entered, Back
    <3> QED BY <3>1, <3>2
  <2>4. v \in Passed(l, move) <=> pos[v] - Length[v] + move[v] > Loop
    BY <2>1, <2>3 DEF Passed, Back
  <2>5. v \in Sumo!Passed(l, move, into) <=> pos[v] + move[v] - Length[v] > Loop
    BY <2>2, <1>3, <1>4 DEF Sumo!Passed
  <2> QED BY <2>1, <2>2, <2>3, <2>4, <2>5, <1>1, <1>3
<1>7. Left(l, move) = Sumo!Left(l, move, into)
  <2>1. Left(l, move) \subseteq Sumo!Left(l, move, into)
    BY <1>3, <1>5, <1>6 DEF Left, Sumo!Left, Back
  <2>2. Sumo!Left(l, move, into) \subseteq Left(l, move)
    BY <1>5, <1>6 DEF Left, Sumo!Left
  <2> QED BY <2>1, <2>2
<1>8. \A v \in Left(l, move) : Sumo!From(v, move, into) = pos[v]
  BY <1>3, <1>6 DEF Left
<1> QED BY <1>5, <1>6, <1>7, <1>8

\* The time the port keeps is that of one that leaves.
LEMMA KeepsOne ==
  ASSUME LoopInv, PortApplies, NEW move, NEW gone, NEW into, Motion(move, gone, into), NEW l \in Lanes,
         Left(l, move) # {}
  PROVE  \E v \in Sumo!Left(l, move, into) :
           PassingTime(Last(l, move), move) = Sumo!PassingTime(v, move, into)
<1>1. Last(l, move) \in Left(l, move)
  BY LastLeaves
<1>2. /\ Last(l, move) \in Sumo!Left(l, move, into)
      /\ Sumo!From(Last(l, move), move, into) = pos[Last(l, move)]
  BY <1>1, SameNews
<1>3. \A x, m : Fraction(x, m) = Sumo!Fraction(x, m)
  BY DEF Fraction, Sumo!Fraction
<1> QED BY <1>2, <1>3 DEF PassingTime, Sumo!PassingTime, Back

LEMMA MovesKept ==
  ASSUME LoopInv, PortApplies, Moves
  PROVE  KeepsAnyLeaver
<1>1. PICK move \in Motions, gone \in Departures, into \in Arrivals :
        /\ Headway(move) /\ RoomFor(move, into) /\ Drive(move, gone, into)
        /\ onDet' = [l \in Lanes |-> (onDet[l] \cup Entered(l, move)) \ Passed(l, move)]
        /\ since' = [l \in Lanes |->
             IF Left(l, move) # {} THEN -PassingTime(Last(l, move), move) ELSE since[l]]
  BY DEF Moves
<1>2. Motion(move, gone, into) /\ gone = {}
  BY <1>1 DEF Motion, PortApplies, Departures
<1>3. onDet' = [l \in Lanes |-> Sumo!Occupied(l, move, into)]
  <2>1. \A l \in Lanes : (onDet[l] \cup Entered(l, move)) \ Passed(l, move) = Sumo!Occupied(l, move, into)
    BY <1>2, SameNews DEF Sumo!Occupied
  <2> QED BY <1>1, <2>1
<1>4. \A l \in Lanes :
        IF Sumo!Left(l, move, into) = {} THEN since'[l] = since[l]
        ELSE \E v \in Sumo!Left(l, move, into) : since'[l] = -Sumo!PassingTime(v, move, into)
  <2> SUFFICES ASSUME NEW l \in Lanes
               PROVE  IF Sumo!Left(l, move, into) = {} THEN since'[l] = since[l]
                      ELSE \E v \in Sumo!Left(l, move, into) : since'[l] = -Sumo!PassingTime(v, move, into)
    OBVIOUS
  <2>1. Left(l, move) = Sumo!Left(l, move, into)
    BY <1>2, SameNews
  <2>2. since'[l] = IF Left(l, move) # {} THEN -PassingTime(Last(l, move), move) ELSE since[l]
    BY <1>1
  <2>3. CASE Left(l, move) = {}
    BY <2>1, <2>2, <2>3
  <2>4. CASE Left(l, move) # {}
    BY <1>2, <2>1, <2>2, <2>4, KeepsOne
  <2> QED BY <2>3, <2>4
<1>5. turn = "moves" /\ turn' = "lights" /\ UNCHANGED light
  BY DEF Moves
<1> QED BY <1>1, <1>2, <1>3, <1>4, <1>5 DEF KeepsAnyLeaver

\* Wherever the port applies it does what SUMO's logic does, on every road and
\* with any number of vehicles, but for the two ways it departs: a fraction of
\* a millisecond cut off, and which of several leavers is the last.
THEOREM KeepsToIt == ASSUME PortApplies PROVE Spec => KeepsToSUMO
<1>1. Init => Sumo!Init
  BY DEF Init, Sumo!Init, NoTraffic, Sumo!NoTraffic
<1>2. LoopInv /\ [Next]_vars => [Sumo!Lights \/ RoundsDown \/ KeepsAnyLeaver]_vars
  <2> SUFFICES ASSUME LoopInv, Next PROVE Sumo!Lights \/ RoundsDown \/ KeepsAnyLeaver
    OBVIOUS
  <2>1. CASE Lights
    BY <2>1, LightsKept DEF LoopInv
  <2>2. CASE Moves
    BY <2>2, MovesKept
  <2> QED BY <2>1, <2>2 DEF Next
<1> QED BY InitInv, StepInv, InitLoop, StepLoop, <1>1, <1>2, PTL DEF Spec, KeepsToSUMO
=============================================================================
