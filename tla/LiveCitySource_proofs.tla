------------------------- MODULE LiveCitySource_proofs -------------------------
(***************************************************************************)
(* Proofs for LiveCitySource: who is in the simulation, and what the host  *)
(* reads of it, for every set of knobs and values and every bound.         *)
(***************************************************************************)
EXTENDS LiveCitySource, TLAPS

Working == {"test", "take", "apply", "step", "publish"}

\* Where each thread can be.  The vehicle bus is the host's as soon as there is
\* a producer, and a host in the simulation has none that works.
Threads ==
  /\ producer \in {"none", "ended"} \union Working
  /\ host \in {"out", "sim", "bus", "join"}
  /\ threaded \in BOOLEAN /\ stop \in BOOLEAN
  /\ selfPump <=> producer = "none"
  /\ threaded => ~stop /\ host \in {"out", "bus"} /\ producer \in Working
  /\ ~threaded /\ host # "join" => producer \in {"none", "ended"}
  /\ producer = "ended" => stop

\* The moments of a frame agree.
Whole(f) == f.time = f.step /\ f.signals = f.step

\* The slot and what the host read are whole and of a step that was made; what
\* the host read is not newer than the slot it reads next.
Frames ==
  /\ time \in Nat /\ stepIndex = time
  /\ slot.step \in Nat /\ Whole(slot) /\ slot.step <= stepIndex
  /\ seen.step \in Nat /\ Whole(seen) /\ seen.step <= stepIndex
  /\ threaded => seen.step <= slot.step

\* The threads start apart.
LEMMA ThreadsInit == Init => Threads
  BY DEF Init, Threads, Working

\* Every step keeps them apart when Dispose waits for the producer's end.
LEMMA ThreadsNext ==
  ASSUME ~JoinTimeout, Threads, [Next]_vars
  PROVE  Threads'
<1> USE DEF Threads, Working
<1>1. CASE Produce
  BY <1>1, SMTT(30) DEF Produce, TestStop, TakeRequests, ApplyRequests, StepAndCount, PublishSlot, Goes
<1>2. CASE StartThreadedTick
  BY <1>2, SMTT(30) DEF StartThreadedTick
<1>3. CASE Tick \/ Sample \/ Published \/ Reconstruct
  BY <1>3, SMTT(30) DEF Tick, Sample, Published, Reconstruct
<1>4. CASE DisposeBegins
  BY <1>4 DEF DisposeBegins
<1>5. ASSUME NEW k \in Knobs, NEW v \in Values, Ask(k, v)
      PROVE  Threads'
  BY <1>5, SMTT(30) DEF Ask
<1>6. CASE Joined \/ Return
  BY <1>6, SMTT(30) DEF Joined, Return
<1>7. CASE UNCHANGED vars
  BY <1>7, SMTT(30) DEF vars
<1> QED BY <1>1, <1>2, <1>3, <1>4, <1>5, <1>6, <1>7 DEF Next, Call

\* Host and producer are never in the simulation together, nor in the
\* dictionaries behind its vehicle bus, as long as no step outlasts the wait of
\* Dispose (LiveCitySource.cs:561).
THEOREM Apart ==
  ASSUME ~JoinTimeout
  PROVE  Spec => []OneThreadAtATime
<1>1. Threads => OneThreadAtATime
  BY SMTT(30) DEF Threads, Working, OneThreadAtATime
<1>2. Threads /\ [Next]_vars => Threads'
  BY ThreadsNext
<1> QED BY <1>1, <1>2, ThreadsInit, PTL DEF Spec

\* The number of a step stays one.
LEMMA AdvanceMovesOn ==
  ASSUME NEW n \in Nat
  PROVE  Advance(n) \in Nat /\ n <= Advance(n)
  BY LiveCityAssumption DEF Advance

\* A frame of the simulation as it is.
LEMMA FrameIsWhole ==
  ASSUME Frames
  PROVE  Frame.step = stepIndex /\ Whole(Frame)
  BY DEF Frames, Frame, Whole

\* The first frames are of the same step.
LEMMA FramesInit == Init => Frames
  BY SMTT(30) DEF Init, Frames, Frame, Whole

\* A step adds to the count, publishes the present, or reads what is published.
LEMMA FramesNext ==
  ASSUME Frames, [Next]_vars
  PROVE  Frames'
<1> DEFINE Same == UNCHANGED <<time, stepIndex, slot, seen>> /\ (threaded' => threaded)
           Steps == /\ time' = Advance(time) /\ stepIndex' = Advance(stepIndex)
                    /\ UNCHANGED <<slot, seen, threaded>>
<1>1. ASSUME Same PROVE Frames'
  BY <1>1, SMTT(30) DEF Frames, Whole
<1>2. ASSUME Steps PROVE Frames'
  <2>1. time' \in Nat /\ time <= time' /\ stepIndex' = time'
    BY <1>2, AdvanceMovesOn DEF Frames
  <2> QED BY <2>1, <1>2, SMTT(30) DEF Frames, Whole
<1>3. ASSUME slot' = Frame, UNCHANGED <<time, stepIndex, seen>> PROVE Frames'
  BY <1>3, FrameIsWhole, SMTT(30) DEF Frames, Whole
<1>4. CASE Published
  <2>1. UNCHANGED <<time, stepIndex, slot, threaded>> /\ seen' = IF threaded THEN slot ELSE Frame
    BY <1>4 DEF Published
  <2> QED BY <2>1, FrameIsWhole, SMTT(30) DEF Frames, Whole
<1>5. CASE TestStop \/ TakeRequests \/ ApplyRequests
  BY <1>1, <1>5 DEF TestStop, TakeRequests, ApplyRequests
<1>6. CASE StepAndCount \/ Tick
  BY <1>2, <1>6 DEF StepAndCount, Tick
<1>7. CASE PublishSlot \/ StartThreadedTick
  BY <1>3, <1>7 DEF PublishSlot, StartThreadedTick
<1>8. CASE Sample \/ Reconstruct \/ DisposeBegins \/ Joined \/ Return
  BY <1>1, <1>8 DEF Sample, Reconstruct, DisposeBegins, Joined, Return
<1>9. ASSUME NEW k \in Knobs, NEW v \in Values, Ask(k, v)
      PROVE  Frames'
  BY <1>1, <1>9 DEF Ask
<1>10. CASE UNCHANGED vars
  BY <1>1, <1>10 DEF vars
<1> QED BY <1>4, <1>5, <1>6, <1>7, <1>8, <1>9, <1>10 DEF Next, Produce, Call

\* Only Published changes what the host has read.
LEMMA OnlyPublishedReads ==
  ASSUME [Next]_vars, seen' # seen
  PROVE  Published
  BY SMTT(30) DEF Next, Produce, Call, TestStop, TakeRequests, ApplyRequests, StepAndCount, PublishSlot,
     StartThreadedTick, Tick, Sample, Reconstruct, Ask, DisposeBegins, Joined, Return, vars

\* Frames the host reads are of one step each and never go back, over the start
\* of the thread too (LiveCitySource.cs:416).
THEOREM Forward == Spec => FramesMoveOn
<1> DEFINE Moves == /\ seen'.time = seen'.step /\ seen'.signals = seen'.step
                    /\ seen'.step >= seen.step
<1>1. Frames /\ [Next]_vars => Frames'
  BY FramesNext
<1>2. Frames /\ [Next]_vars => [Moves]_seen
  <2> SUFFICES ASSUME Frames, [Next]_vars, seen' # seen
               PROVE  Moves
    OBVIOUS
  <2>1. Published
    BY OnlyPublishedReads
  <2>2. seen' = IF threaded THEN slot ELSE Frame
    BY <2>1 DEF Published
  <2> QED BY <2>2, FrameIsWhole, SMTT(30) DEF Frames, Whole
<1> QED BY <1>1, <1>2, FramesInit, PTL DEF Spec, FramesMoveOn

-----------------------------------------------------------------------------
(* Requests on their way.                                                  *)

Asked == [Knobs -> Values \cup {Unset}]

\* A host that may call a setter of an unthreaded source has no producer, and
\* nothing is parked without one.  Between a publication and the next
\* ApplyRequests the slot shows the settings.
Requests ==
  /\ settings \in [Knobs -> Values] /\ wanted \in [Knobs -> Values]
  /\ parked \in Asked /\ hand \in Asked
  /\ ~threaded /\ ~stop => producer = "none"
  /\ producer = "none" => ~threaded /\ parked = NoRequest
  /\ producer \in {"none", "ended"} \cup Working
  /\ producer \in {"test", "take", "apply", "ended"} => slot.settings = settings
  /\ InTheEnd = wanted

\* Settings stay settings whatever is asked of them, and a request of nothing
\* changes nothing.
LEMMA SetType ==
  ASSUME NEW old \in [Knobs -> Values], NEW asked \in Asked
  PROVE  Set(old, asked) \in [Knobs -> Values] /\ NoRequest \in Asked /\ Set(old, NoRequest) = old
<1>1. NoRequest \in Asked /\ \A k \in Knobs : NoRequest[k] = Unset
  BY DEF NoRequest, Asked
<1>2. \A k \in Knobs : (IF asked[k] = Unset THEN old[k] ELSE asked[k]) \in Values
  BY DEF Asked
<1>3. Set(old, NoRequest) = [k \in Knobs |-> old[k]]
  BY <1>1 DEF Set
<1> QED BY <1>1, <1>2, <1>3 DEF Set

\* To park a request is to ask last: what was asked before for the other knobs
\* is still to come.
LEMMA SetLast ==
  ASSUME NEW old \in [Knobs -> Values], NEW asked \in Asked, NEW k \in Knobs, NEW v \in Values
  PROVE  /\ [asked EXCEPT ![k] = v] \in Asked
         /\ Set(old, [asked EXCEPT ![k] = v]) = [Set(old, asked) EXCEPT ![k] = v]
<1> DEFINE later == [asked EXCEPT ![k] = v]
<1>1. later \in Asked /\ \A j \in Knobs : later[j] = IF j = k THEN v ELSE asked[j]
  BY DEF Asked
<1>2. v # Unset
  BY LiveCityAssumption
<1>3. \A j \in Knobs : (IF later[j] = Unset THEN old[j] ELSE later[j])
                        = IF j = k THEN v ELSE IF asked[j] = Unset THEN old[j] ELSE asked[j]
  BY <1>1, <1>2
<1> HIDE DEF later
<1>4. Set(old, later) = [j \in Knobs |-> IF j = k THEN v ELSE IF asked[j] = Unset THEN old[j] ELSE asked[j]]
  BY <1>3 DEF Set
<1>5. [Set(old, asked) EXCEPT ![k] = v]
        = [j \in Knobs |-> IF j = k THEN v ELSE IF asked[j] = Unset THEN old[j] ELSE asked[j]]
  BY DEF Set
<1> QED BY <1>1, <1>4, <1>5 DEF later

LEMMA RequestsInit == Init => Requests
<1> SUFFICES ASSUME Init PROVE Requests
  OBVIOUS
<1>1. settings \in [Knobs -> Values] /\ wanted = settings /\ parked = NoRequest /\ hand = NoRequest
  BY LiveCityAssumption DEF Init
<1>2. parked \in Asked /\ Set(settings, parked) = settings
  BY <1>1, SetType DEF Asked, NoRequest
<1> QED BY <1>1, <1>2 DEF Init, Requests, InTheEnd

\* Every step keeps what was asked for on its way.
LEMMA RequestsNext ==
  ASSUME Requests, [Next]_vars
  PROVE  Requests'
<1> USE DEF Requests, Working
<1>1. CASE TestStop \/ StepAndCount \/ PublishSlot \/ StartThreadedTick
  BY <1>1, SMTT(30) DEF TestStop, StepAndCount, PublishSlot, StartThreadedTick, Goes, Frame, InTheEnd
<1>2. CASE TakeRequests
  <2>1. /\ producer = "take" /\ producer' = "apply" /\ hand' = parked /\ parked' = NoRequest
        /\ UNCHANGED <<threaded, stop, settings, wanted, slot>>
    BY <1>2 DEF TakeRequests, Goes
  <2>2. InTheEnd = Set(settings, parked) /\ InTheEnd' = Set(Set(settings, parked), NoRequest)
    BY <2>1 DEF InTheEnd
  <2>3. InTheEnd' = InTheEnd /\ NoRequest \in Asked
    BY <2>2, SetType
  <2> QED BY <2>1, <2>3
<1>3. CASE ApplyRequests
  <2>1. /\ producer = "apply" /\ producer' = "step" /\ settings' = Set(settings, hand)
        /\ UNCHANGED <<threaded, stop, parked, hand, wanted, slot>>
    BY <1>3 DEF ApplyRequests, Goes
  <2>2. InTheEnd' = InTheEnd
    BY <2>1 DEF InTheEnd
  <2>3. settings' \in [Knobs -> Values]
    BY <2>1, SetType
  <2> QED BY <2>1, <2>2, <2>3
<1>4. ASSUME NEW k \in Knobs, NEW v \in Values, Ask(k, v)
      PROVE  Requests'
  <2>0. /\ wanted' = [wanted EXCEPT ![k] = v] /\ ~stop
        /\ UNCHANGED <<threaded, stop, producer, hand, slot>>
    BY <1>4 DEF Ask
  <2>1. wanted' \in [Knobs -> Values]
    BY <2>0
  <2>2. CASE threaded
    <3>1. parked' = [parked EXCEPT ![k] = v] /\ settings' = settings
      BY <1>4, <2>2 DEF Ask
    <3> DEFINE base == IF producer = "apply" THEN Set(settings, hand) ELSE settings
    <3>2. base \in [Knobs -> Values]
      BY SetType
    <3>3. InTheEnd = Set(base, parked) /\ InTheEnd' = Set(base, parked')
      BY <2>0, <3>1 DEF InTheEnd
    <3> HIDE DEF base
    <3>4. /\ [parked EXCEPT ![k] = v] \in Asked
          /\ Set(base, [parked EXCEPT ![k] = v]) = [Set(base, parked) EXCEPT ![k] = v]
      BY <3>2, SetLast DEF Requests
    <3>5. parked' \in Asked /\ InTheEnd' = [InTheEnd EXCEPT ![k] = v]
      BY <3>1, <3>3, <3>4
    <3>6. InTheEnd' = wanted'
      BY <2>0, <3>5
    <3> QED BY <2>0, <2>1, <2>2, <3>1, <3>5, <3>6
  <2>3. CASE ~threaded
    <3>1. settings' = [settings EXCEPT ![k] = v] /\ parked' = parked
      BY <1>4, <2>3 DEF Ask
    <3>2. producer = "none" /\ parked = NoRequest
      BY <2>0, <2>3
    <3>3. InTheEnd = Set(settings, NoRequest) /\ InTheEnd' = Set(settings', NoRequest)
      BY <2>0, <3>1, <3>2 DEF InTheEnd
    <3>4. settings' \in [Knobs -> Values]
      BY <3>1
    <3>5. InTheEnd = settings /\ InTheEnd' = settings'
      BY <3>3, <3>4, SetType
    <3> QED BY <2>0, <2>1, <2>3, <3>1, <3>2, <3>4, <3>5
  <2> QED BY <2>2, <2>3
<1>5. CASE Tick \/ Sample \/ Published \/ Reconstruct \/ DisposeBegins \/ Joined \/ Return \/ UNCHANGED vars
  BY <1>5, SMTT(30)
  DEF Tick, Sample, Published, Reconstruct, DisposeBegins, Joined, Return, vars, InTheEnd
<1> QED BY <1>1, <1>2, <1>3, <1>4, <1>5 DEF Next, Produce, Call

\* No request is lost or overtaken, whenever it comes between the producer's
\* taking of the slots and its applying of what it took, and also when a step
\* outlasts Dispose: what RequestsTakeEffect leaves to the producer is only to
\* go on (LiveCitySim.cs:1122).
THEOREM RequestsAreKept == Spec => []NothingForgotten
<1>1. Requests => NothingForgotten
  <2> SUFFICES ASSUME Requests PROVE NothingForgotten
    OBVIOUS
  <2>1. parked = NoRequest /\ producer # "apply" => InTheEnd = settings
    BY SetType DEF Requests, InTheEnd
  <2> QED BY <2>1 DEF Requests, NothingForgotten
<1>2. Requests /\ [Next]_vars => Requests'
  BY RequestsNext
<1> QED BY <1>1, <1>2, RequestsInit, PTL DEF Spec
=============================================================================
