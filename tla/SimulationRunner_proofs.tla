---------------------- MODULE SimulationRunner_proofs ----------------------
(***************************************************************************)
(* Proofs about SimulationRunner for any number of hosts, posts and        *)
(* restarts.  The order of the commands and the engine's single thread are *)
(* proved for one owner: the host that controls the runner is the one that *)
(* invokes, and a Tick never outlasts Stop's bounded join.  Without either *)
(* TLC finds two threads in the engine.                                    *)
(***************************************************************************)
EXTENDS SimulationRunner, TLAPS

Command == [kind : {"plain", "invoke", "poison"}, by : Hosts]

\* Appending a post keeps the numbers of the earlier ones valid.
LEMMA EnqueueType ==
  ASSUME TypeOK, NEW h \in Hosts, NEW kind \in {"plain", "invoke", "poison"}, Enqueue(h, kind)
  PROVE  /\ Len(posted) \in Nat /\ Len(posted') = Len(posted) + 1
         /\ posted' \in Seq(Command)
         /\ incoming' \in Seq(1..Len(posted'))
         /\ draining \in Seq(1..Len(posted'))
         /\ applied \in Seq(1..Len(posted'))
         /\ ticket \in [Hosts -> 0..Len(posted')]
<1>1. posted \in Seq(Command) /\ posted' = Append(posted, [kind |-> kind, by |-> h])
  BY DEF TypeOK, Enqueue, Command
<1>2. [kind |-> kind, by |-> h] \in Command
  BY DEF Command
<1>3. posted' \in Seq(Command) /\ Len(posted') = Len(posted) + 1 /\ Len(posted) \in Nat
  BY <1>1, <1>2
<1>4. 1..Len(posted) \subseteq 1..Len(posted') /\ 0..Len(posted) \subseteq 0..Len(posted')
  BY <1>3
<1>5. \A s \in Seq(1..Len(posted)) : s \in Seq(1..Len(posted'))
  BY <1>4, SMTT(30)
<1>6. incoming' = Append(incoming, Len(posted) + 1) /\ Len(posted) + 1 \in 1..Len(posted')
  BY <1>3 DEF Enqueue
<1>7. incoming' \in Seq(1..Len(posted'))
  BY <1>5, <1>6 DEF TypeOK
<1>8. ticket \in [Hosts -> 0..Len(posted')]
  BY <1>4 DEF TypeOK
<1> QED BY <1>3, <1>5, <1>7, <1>8 DEF TypeOK

LEMMA LoopsInNat == Loops \subseteq Nat \ {0} /\ Hosts \cap Loops = {}
BY ConstantsAssumption DEF Loops

LEMMA TypeInit == Init => TypeOK
<1> SUFFICES ASSUME Init PROVE TypeOK
  OBVIOUS
<1>1. posted \in Seq([kind : {"plain", "invoke", "poison"}, by : Hosts])
  BY DEF Init
<1>2. Len(posted) = 0
  BY DEF Init
<1>3. incoming \in Seq(1..Len(posted)) /\ draining \in Seq(1..Len(posted)) /\ applied \in Seq(1..Len(posted))
  BY DEF Init
<1>4. ticket \in [Hosts -> 0..Len(posted)]
  BY <1>2 DEF Init
<1>5. index \in [Tickers -> Nat \ {0}] /\ pc \in [Tickers -> Labels]
  BY DEF Init, Labels
<1>6. starts \in 0..MaxStarts /\ thread \in 0..starts
  BY ConstantsAssumption DEF Init
<1> QED BY <1>1, <1>3, <1>4, <1>5, <1>6 DEF Init, TypeOK

\* A change of pc alone, or of pc and of flags, keeps the types.
LEMMA GotoType ==
  ASSUME TypeOK, NEW t \in Tickers, NEW label \in Labels, Goto(t, label)
  PROVE  pc' \in [Tickers -> Labels]
BY DEF TypeOK, Goto

LEMMA TickType == ASSUME TypeOK, NEW t \in Tickers, Tick(t) PROVE TypeOK'
<1>1. Returned(t) \in Labels /\ Thrown(t) \in Labels /\ "exec" \in Labels /\ "step" \in Labels
  BY DEF Returned, Thrown, Labels
<1>2. CASE Swap(t)
  <2>1. pc' \in [Tickers -> Labels]
    BY <1>1, <1>2, GotoType DEF Swap
  <2>2. index' \in [Tickers -> Nat \ {0}]
    BY <1>2 DEF Swap, TypeOK
  <2>3. incoming' \in Seq(1..Len(posted')) /\ draining' \in Seq(1..Len(posted'))
    BY <1>2 DEF Swap, TypeOK, history
  <2>4. UNCHANGED <<running, paused, lastError, starts, thread, posted, applied, ticket>>
    BY <1>2 DEF Swap, control, history
  <2>5. applied' \in Seq(1..Len(posted')) /\ ticket' \in [Hosts -> 0..Len(posted')]
    BY <2>4 DEF TypeOK
  <2>6. /\ running' \in BOOLEAN /\ paused' \in BOOLEAN /\ lastError' \in BOOLEAN
        /\ starts' \in 0..MaxStarts /\ thread' \in 0..starts'
        /\ posted' \in Seq(Command)
    BY <2>4 DEF TypeOK, Command
  <2> QED BY <2>1, <2>2, <2>3, <2>5, <2>6 DEF TypeOK, Command
<1>3. CASE Exec(t)
  <2>1. index[t] \in 1..Len(draining) /\ draining[index[t]] \in 1..Len(posted)
    BY <1>3, SMTT(30) DEF Exec, TypeOK
  <2>2. applied' \in Seq(1..Len(posted))
    BY <1>3, <2>1 DEF Exec, TypeOK
  <2>3. index' \in [Tickers -> Nat \ {0}]
    <3>1. index' = [index EXCEPT ![t] = index[t] + 1] /\ index[t] + 1 \in Nat \ {0}
      BY <1>3, SMTT(30) DEF Exec, TypeOK
    <3> QED BY <3>1 DEF TypeOK
  <2> QED BY <1>3, <2>2, <2>3 DEF Exec, TypeOK, control
<1>4. CASE ExecThrows(t)
  BY <1>1, <1>4, GotoType DEF ExecThrows, TypeOK, queues, control, history
<1>5. CASE DrainEnd(t)
  <2>1. draining' \in Seq(1..Len(posted))
    BY <1>5 DEF DrainEnd
  <2>2. pc' \in [Tickers -> Labels]
    BY <1>1, <1>5, GotoType DEF DrainEnd
  <2> QED BY <1>5, <2>1, <2>2 DEF DrainEnd, TypeOK, control, history
<1>6. CASE Step(t) \/ StepThrows(t)
  BY <1>1, <1>6, GotoType DEF Step, StepThrows, TypeOK, queues, control, history
<1> QED BY <1>2, <1>3, <1>4, <1>5, <1>6 DEF Tick

LEMMA TypeStep == TypeOK /\ [Next]_vars => TypeOK'
<1> SUFFICES ASSUME TypeOK, [Next]_vars PROVE TypeOK'
  OBVIOUS
<1>1. ASSUME NEW h \in Hosts, NEW kind \in Kinds \ {"invoke"}, Post(h, kind) PROVE TypeOK'
  <2>1. kind \in {"plain", "invoke", "poison"}
    BY DEF Kinds
  <2> QED BY <1>1, <2>1, EnqueueType DEF Post, TypeOK, Command, control
<1>2. ASSUME NEW h \in Hosts, Continue(h) PROVE TypeOK'
  <2>1. h \in Tickers /\ "idle" \in Labels /\ "waiting" \in Labels /\ "spawning" \in Labels
    BY DEF Tickers, Labels
  <2>2. CASE InvokeInline(h)
    BY <2>1, <2>2, GotoType DEF InvokeInline, TypeOK, queues, control, history
  <2>3. CASE InvokePost(h)
    <3>1. Enqueue(h, "invoke") /\ UNCHANGED <<draining, index, control, applied>>
      BY <2>3 DEF InvokePost
    <3>2. pc' \in [Tickers -> Labels]
      BY <2>1, <2>3, GotoType DEF InvokePost
    <3>3. ticket' \in [Hosts -> 0..Len(posted')]
      BY <2>3, <3>1, EnqueueType DEF InvokePost
    <3> QED BY <3>1, <3>2, <3>3, EnqueueType DEF TypeOK, Command, control
  <2>4. CASE InvokeReturn(h)
    <3>1. pc' \in [Tickers -> Labels]
      BY <2>1, <2>4, GotoType DEF InvokeReturn
    <3>2. ticket' \in [Hosts -> 0..Len(posted)]
      BY <2>4 DEF InvokeReturn, TypeOK
    <3> QED BY <2>4, <3>1, <3>2 DEF InvokeReturn, TypeOK, queues, control, history
  <2>5. CASE StartFlags(h)
    BY <2>1, <2>5, GotoType DEF StartFlags, TypeOK, queues, history
  <2>6. CASE StartSpawn(h)
    <3>1. starts + 1 \in Loops /\ starts + 1 \in 0..MaxStarts /\ "loop" \in Labels
      BY <2>6, ConstantsAssumption DEF StartSpawn, TypeOK, Loops, Labels
    <3>2. pc' \in [Tickers -> Labels]
      BY <2>1, <2>6, <3>1 DEF StartSpawn, TypeOK, Tickers
    <3>3. starts' \in 0..MaxStarts /\ thread' \in 0..starts'
      BY <2>6, <3>1 DEF StartSpawn
    <3>4. UNCHANGED <<running, paused, lastError, incoming, draining, index, posted, applied, ticket>>
      BY <2>6 DEF StartSpawn, queues, history
    <3> QED BY <3>2, <3>3, <3>4 DEF TypeOK
  <2>7. CASE StopJoined(h)
    BY <2>1, <2>7, GotoType DEF StopJoined, TypeOK, queues, history
  <2>8. CASE Tick(h)
    BY <2>1, <2>8, TickType
  <2> QED BY <1>2, <2>2, <2>3, <2>4, <2>5, <2>6, <2>7, <2>8 DEF Continue
<1>3. ASSUME NEW h \in Invokers, InvokeCheck(h) PROVE TypeOK'
  <2>1. h \in Tickers /\ "enqueue" \in Labels /\ "inline" \in Labels
    BY ConstantsAssumption DEF Tickers, Labels
  <2> QED BY <1>3, <2>1, GotoType DEF InvokeCheck, TypeOK, queues, control, history
<1>4. ASSUME NEW h \in Controllers, Control(h) PROVE TypeOK'
  <2>1. h \in Tickers /\ "starting" \in Labels /\ "joining" \in Labels /\ "swap" \in Labels
    BY ConstantsAssumption DEF Tickers, Labels
  <2>2. CASE StartCheck(h) \/ ManualTick(h)
    BY <2>1, <2>2, GotoType DEF StartCheck, ManualTick, TypeOK, queues, control, history
  <2>3. CASE Stop(h)
    BY <2>1, <2>3, GotoType DEF Stop, TypeOK, queues, history
  <2>4. ASSUME NEW value \in BOOLEAN, SetPaused(h, value) PROVE TypeOK'
    BY <2>4 DEF SetPaused, TypeOK, queues, history
  <2> QED BY <1>4, <2>2, <2>3, <2>4 DEF Control
<1>5. ASSUME NEW l \in Loops, Loop(l) PROVE TypeOK'
  <2>1. l \in Tickers /\ "swap" \in Labels /\ "exited" \in Labels
    BY DEF Tickers, Labels
  <2>2. CASE LoopTick(l) \/ LoopExit(l)
    BY <2>1, <2>2, GotoType DEF LoopTick, LoopExit, TypeOK, queues, control, history
  <2>3. CASE LoopCatch(l)
    BY <2>1, <2>3, GotoType DEF LoopCatch, TypeOK, queues, history
  <2>4. CASE Tick(l)
    BY <2>1, <2>4, TickType
  <2> QED BY <1>5, <2>2, <2>3, <2>4 DEF Loop
<1>6. CASE UNCHANGED vars
  BY <1>6 DEF TypeOK, vars, queues, control, history
<1> QED BY <1>1, <1>2, <1>3, <1>4, <1>5, <1>6 DEF Next

\* Every variable keeps its type: in particular every number in a command list
\* is that of a posted command, for any faults and any number of threads.
THEOREM TypeCorrect == Spec => []TypeOK
BY TypeInit, TypeStep, PTL DEF Spec

-----------------------------------------------------------------------------
(* One thread in the engine.  A loop is live from its spawn to its exit;   *)
(* only the loop that _thread names is live; and a host that runs engine   *)
(* code itself, or is about to start a loop, has the guarantee that none   *)
(* is.  That guarantee is what Stop's join and the test of _running buy.   *)

OneOwner ==
  /\ ~JoinTimeout
  /\ \A a, b \in Controllers \cup Invokers : a = b

Live(l) == pc[l] \notin {"unborn", "exited"}
NoLiveLoop == \A l \in Loops : ~Live(l)

OwnerInv ==
  /\ \A h \in Hosts : pc[h] # "idle" => h \in Controllers \cup Invokers
  /\ \A l \in Loops : Live(l) => l = thread
  /\ \A h \in Hosts :
       pc[h] \in {"starting", "spawning", "inline", "swap", "exec", "step"} => NoLiveLoop
  /\ ~running /\ (\A h \in Hosts : pc[h] # "joining") => NoLiveLoop
  /\ \A h \in Hosts : pc[h] = "spawning" => running

LEMMA OwnerImpliesOneThread == TypeOK /\ OwnerInv /\ OneOwner => EngineSingleThreaded
<1> SUFFICES ASSUME TypeOK, OwnerInv, OneOwner, NEW s \in Tickers, NEW t \in Tickers,
                    OnEngine(s), OnEngine(t)
             PROVE  s = t
  BY DEF EngineSingleThreaded
<1>1. ASSUME NEW u \in Loops, OnEngine(u) PROVE Live(u) /\ u = thread
  BY <1>1 DEF OnEngine, Live, OwnerInv
<1>2. ASSUME NEW h \in Hosts, OnEngine(h) PROVE NoLiveLoop /\ h \in Controllers \cup Invokers
  BY <1>2 DEF OnEngine, OwnerInv
<1> QED BY <1>1, <1>2 DEF Tickers, NoLiveLoop, OneOwner

\* The steps of a Tick leave a host in the call, or end it; they leave a loop
\* live, and touch no flag.
LEMMA TickOwner == ASSUME TypeOK, OwnerInv, NEW t \in Tickers, Tick(t) PROVE OwnerInv'
<1>1. UNCHANGED control /\ pc[t] \in {"swap", "exec", "step"}
  BY DEF Tick, Swap, Exec, ExecThrows, DrainEnd, Step, StepThrows
<1>2. PICK label \in {"exec", "step", "loop", "catch", "idle"} :
        /\ pc' = [pc EXCEPT ![t] = label]
        /\ t \in Loops => label # "idle"
        /\ t \notin Loops => label \notin {"loop", "catch"}
  <2>1. CASE Exec(t)
    <3>1. pc' = [pc EXCEPT ![t] = "exec"]
      BY <2>1 DEF Exec, TypeOK
    <3> QED BY <3>1
  <2>2. CASE ~Exec(t)
    BY <2>2 DEF Tick, Swap, ExecThrows, DrainEnd, Step, StepThrows, Goto, Returned, Thrown
  <2> QED BY <2>1, <2>2
<1>3. CASE t \in Loops
  <2>1. t \notin Hosts
    BY <1>3, LoopsInNat
  <2>2. Live(t) /\ Live(t)' /\ \A u \in Tickers : u # t => pc'[u] = pc[u]
    BY <1>1, <1>2, <1>3 DEF Live, TypeOK
  <2>3. \A l \in Loops : Live(l)' = Live(l)
    BY <1>3, <2>2 DEF Live, Tickers
  <2>4. \A h \in Hosts : pc'[h] = pc[h]
    BY <2>1, <2>2 DEF Tickers
  <2> QED BY <1>1, <2>3, <2>4 DEF OwnerInv, NoLiveLoop, control
<1>4. CASE t \in Hosts
  <2>1. t \notin Loops
    BY <1>4, LoopsInNat
  <2>2. \A u \in Tickers : u # t => pc'[u] = pc[u]
    BY <1>2 DEF TypeOK
  <2>3. \A l \in Loops : pc'[l] = pc[l]
    BY <2>1, <2>2 DEF Tickers
  <2>4. pc'[t] \in {"idle", "exec", "step"} /\ NoLiveLoop /\ t \in Controllers \cup Invokers
    BY <1>1, <1>2, <1>4, <2>1 DEF OwnerInv, TypeOK
  <2> QED BY <1>1, <1>4, <2>2, <2>3, <2>4 DEF OwnerInv, NoLiveLoop, Live, control, Tickers
<1> QED BY <1>3, <1>4 DEF Tickers

\* A host's own step, when it moves no loop and no flag.
LEMMA HostOwner ==
  ASSUME TypeOK, OwnerInv, NEW h \in Hosts, NEW label \in Labels, Goto(h, label),
         UNCHANGED <<running, thread>>,
         label # "idle" => h \in Controllers \cup Invokers,
         label \in {"starting", "inline", "swap"} => NoLiveLoop,
         label \notin {"spawning", "exec", "step"},
         pc[h] = "joining" => label = "joining"
  PROVE  OwnerInv'
<1>1. h \notin Loops /\ h \in Tickers
  BY LoopsInNat DEF Tickers
<1>2. pc'[h] = label /\ \A u \in Tickers : u # h => pc'[u] = pc[u]
  BY <1>1 DEF Goto, TypeOK
<1>3. \A l \in Loops : pc'[l] = pc[l]
  BY <1>1, <1>2 DEF Tickers
<1>4. (\A g \in Hosts : pc'[g] # "joining") => \A g \in Hosts : pc[g] # "joining"
  BY <1>2 DEF Tickers
<1> QED BY <1>2, <1>3, <1>4 DEF OwnerInv, NoLiveLoop, Live, Tickers

LEMMA OwnerStep == ASSUME TypeOK, OwnerInv, OneOwner, [Next]_vars PROVE OwnerInv'
<1>1. ASSUME NEW h \in Hosts, NEW kind, Post(h, kind) PROVE OwnerInv'
  BY <1>1 DEF Post, OwnerInv, NoLiveLoop, Live, control
<1>2. ASSUME NEW h \in Hosts, Continue(h) PROVE OwnerInv'
  <2>1. h \in Tickers /\ h \notin Loops /\ "idle" \in Labels /\ "waiting" \in Labels
    BY LoopsInNat DEF Tickers, Labels
  <2>2. CASE InvokeInline(h)
    BY <2>1, <2>2, HostOwner DEF InvokeInline, control
  <2>3. CASE InvokePost(h)
    BY <2>1, <2>3, HostOwner DEF InvokePost, control, OwnerInv
  <2>4. CASE InvokeReturn(h)
    BY <2>1, <2>4, HostOwner DEF InvokeReturn, control
  <2>5. CASE StartFlags(h)
    <3>1. NoLiveLoop /\ running' /\ h \in Controllers \cup Invokers
      BY <2>5 DEF StartFlags, OwnerInv
    <3>2. \A l \in Loops : pc'[l] = pc[l]
      BY <2>1, <2>5 DEF StartFlags, Goto, TypeOK, Tickers
    <3>3. NoLiveLoop'
      BY <3>1, <3>2 DEF NoLiveLoop, Live
    <3>4. \A g \in Hosts : g # h => pc'[g] = pc[g]
      BY <2>1, <2>5 DEF StartFlags, Goto, TypeOK, Tickers
    <3> QED BY <3>1, <3>3, <3>4 DEF OwnerInv, NoLiveLoop
  <2>6. CASE StartSpawn(h)
    <3>1. NoLiveLoop /\ running /\ h \in Controllers \cup Invokers
      BY <2>6 DEF StartSpawn, OwnerInv
    <3>2. starts + 1 \in Loops /\ thread' = starts + 1 /\ running'
      BY <2>6, <3>1, ConstantsAssumption DEF StartSpawn, TypeOK, Loops
    <3>3. \A l \in Loops : l # starts + 1 => pc'[l] = pc[l]
      BY <2>1, <2>6 DEF StartSpawn, TypeOK, Tickers
    <3>4. \A l \in Loops : Live(l)' => l = thread'
      BY <3>1, <3>2, <3>3 DEF NoLiveLoop, Live
    <3>5. \A g \in Hosts : pc'[g] = "idle"
      <4>1. \A g \in Hosts : g # h => pc[g] = "idle"
        BY <3>1 DEF OwnerInv, OneOwner
      <4>2. \A g \in Hosts : g # starts + 1
        BY <3>2, LoopsInNat
      <4> QED BY <2>1, <2>6, <4>1, <4>2 DEF StartSpawn, TypeOK, Tickers
    <3> QED BY <3>2, <3>4, <3>5 DEF OwnerInv
  <2>7. CASE StopJoined(h)
    <3>1. \A l \in Loops : pc'[l] = pc[l]
      BY <2>1, <2>7 DEF StopJoined, Goto, TypeOK, Tickers
    <3>2. NoLiveLoop
      BY <2>7, LoopsInNat DEF StopJoined, OwnerInv, NoLiveLoop, Live, OneOwner
    <3>3. NoLiveLoop'
      BY <3>1, <3>2 DEF NoLiveLoop, Live
    <3>4. \A g \in Hosts : pc'[g] = IF g = h THEN "idle" ELSE pc[g]
      BY <2>1, <2>7 DEF StopJoined, Goto, TypeOK, Tickers
    <3>5. UNCHANGED running
      BY <2>7 DEF StopJoined
    <3> QED BY <3>3, <3>4, <3>5 DEF OwnerInv, NoLiveLoop
  <2>8. CASE Tick(h)
    BY <2>1, <2>8, TickOwner
  <2> QED BY <1>2, <2>2, <2>3, <2>4, <2>5, <2>6, <2>7, <2>8 DEF Continue
<1>3. ASSUME NEW h \in Invokers, InvokeCheck(h) PROVE OwnerInv'
  <2>1. h \in Hosts /\ pc[h] = "idle" /\ "enqueue" \in Labels /\ "inline" \in Labels
    BY <1>3, ConstantsAssumption DEF InvokeCheck, Labels
  <2>2. ~running => NoLiveLoop
    BY <2>1 DEF OwnerInv, OneOwner
  <2> QED BY <1>3, <2>1, <2>2, HostOwner DEF InvokeCheck, control
<1>4. ASSUME NEW h \in Controllers, Control(h) PROVE OwnerInv'
  <2>1. h \in Hosts /\ h \in Tickers /\ h \notin Loops /\ {"starting", "joining", "swap"} \subseteq Labels
    BY ConstantsAssumption, LoopsInNat DEF Tickers, Labels
  <2>2. pc[h] = "idle" /\ ~running => NoLiveLoop
    BY <2>1 DEF OwnerInv, OneOwner
  <2>3. CASE StartCheck(h)
    BY <2>1, <2>2, <2>3, HostOwner DEF StartCheck, control
  <2>4. CASE ManualTick(h)
    BY <2>1, <2>2, <2>4, HostOwner DEF ManualTick, control
  <2>5. CASE Stop(h)
    <3>1. \A g \in Tickers : pc'[g] = IF g = h THEN "joining" ELSE pc[g]
      BY <2>1, <2>5 DEF Stop, Goto, TypeOK
    <3>2. \A g \in Hosts : g # h => pc[g] = "idle"
      BY <2>1 DEF OwnerInv, OneOwner
    <3> QED BY <2>1, <2>5, <3>1, <3>2 DEF Stop, OwnerInv, NoLiveLoop, Live, Tickers
  <2>6. ASSUME NEW value, SetPaused(h, value) PROVE OwnerInv'
    BY <2>6 DEF SetPaused, OwnerInv, NoLiveLoop, Live
  <2> QED BY <1>4, <2>3, <2>4, <2>5, <2>6 DEF Control
<1>5. ASSUME NEW l \in Loops, Loop(l) PROVE OwnerInv'
  <2>1. l \in Tickers /\ l \notin Hosts
    BY LoopsInNat DEF Tickers
  <2>2. CASE LoopTick(l)
    <3>1. \A u \in Tickers : pc'[u] = IF u = l THEN "swap" ELSE pc[u]
      BY <2>1, <2>2 DEF LoopTick, Goto, TypeOK
    <3>2. (\A u \in Loops : Live(u)' = Live(u)) /\ \A h \in Hosts : pc'[h] = pc[h]
      BY <2>1, <2>2, <3>1 DEF LoopTick, Live, Tickers
    <3> QED BY <2>2, <3>2 DEF LoopTick, OwnerInv, NoLiveLoop, control
  <2>3. CASE LoopExit(l) \/ LoopCatch(l)
    <3>1. Live(l) /\ l = thread /\ UNCHANGED thread
      BY <2>3 DEF LoopExit, LoopCatch, Live, OwnerInv, control
    <3>2. \A u \in Tickers : pc'[u] = IF u = l THEN "exited" ELSE pc[u]
      BY <2>1, <2>3 DEF LoopExit, LoopCatch, Goto, TypeOK
    <3>3. NoLiveLoop'
      BY <3>1, <3>2 DEF NoLiveLoop, Live, OwnerInv, Tickers
    <3>4. \A h \in Hosts : pc'[h] = pc[h] /\ pc[h] # "spawning"
      BY <2>1, <3>1, <3>2 DEF OwnerInv, NoLiveLoop, Tickers
    <3> QED BY <3>3, <3>4 DEF OwnerInv, NoLiveLoop
  <2>4. CASE Tick(l)
    BY <2>1, <2>4, TickOwner
  <2> QED BY <1>5, <2>2, <2>3, <2>4 DEF Loop
<1>6. CASE UNCHANGED vars
  BY <1>6 DEF vars, control, OwnerInv, NoLiveLoop, Live
<1> QED BY <1>1, <1>2, <1>3, <1>4, <1>5, <1>6 DEF Next

LEMMA OwnerInit == Init => OwnerInv
BY LoopsInNat DEF Init, OwnerInv, NoLiveLoop, Live, Tickers

\* The engine is never entered by two threads at once, through any sequence of
\* starts, stops, crashes and inline calls, when one host owns the runner.
THEOREM SingleThreaded == ASSUME OneOwner PROVE Spec => []EngineSingleThreaded
<1>1. Init => TypeOK /\ OwnerInv
  BY TypeInit, OwnerInit
<1>2. TypeOK /\ OwnerInv /\ [Next]_vars => (TypeOK /\ OwnerInv)'
  BY TypeStep, OwnerStep
<1>3. TypeOK /\ OwnerInv => EngineSingleThreaded
  BY OwnerImpliesOneThread
<1> QED BY <1>1, <1>2, <1>3, PTL DEF Spec

-----------------------------------------------------------------------------
(* Order of the commands.  The invariant locates every command: those      *)
(* applied, what is left of the list being drained, and the incoming list  *)
(* are three consecutive runs of the post numbers.  One thread in a Tick   *)
(* at a time and no command that throws are what keep them consecutive.    *)

NoPoison == "command" \notin Faults

InTick(t) == pc[t] \in {"swap", "exec", "step"}
OneTick   == \A s, t \in Tickers : InTick(s) /\ InTick(t) => s = t

FifoInv ==
  /\ AppliedInPostOrder
  /\ \A k \in 1..Len(posted) : posted[k].kind # "poison"
  /\ \A j \in 1..Len(incoming) : incoming[j] = Len(posted) - Len(incoming) + j
  /\ (\A t \in Tickers : ~Draining(t))
       => draining = <<>> /\ Len(applied) + Len(incoming) = Len(posted)
  /\ \A t \in Tickers : Draining(t) =>
       /\ index[t] <= Len(draining) + 1
       /\ Len(applied) + Len(draining) + 1 - index[t] + Len(incoming) = Len(posted)
       /\ \A j \in 1..Len(draining) : draining[j] = Len(applied) + 1 - index[t] + j

LEMMA OwnerImpliesOneTick == TypeOK /\ OwnerInv /\ OneOwner => OneTick
<1> SUFFICES ASSUME TypeOK, OwnerInv, OneOwner, NEW s \in Tickers, NEW t \in Tickers,
                    InTick(s), InTick(t)
             PROVE  s = t
  BY DEF OneTick
<1>1. ASSUME NEW u \in Loops, InTick(u) PROVE Live(u) /\ u = thread
  BY <1>1 DEF InTick, Live, OwnerInv
<1>2. ASSUME NEW h \in Hosts, InTick(h) PROVE NoLiveLoop /\ h \in Controllers \cup Invokers
  BY <1>2 DEF InTick, OwnerInv
<1> QED BY <1>1, <1>2 DEF Tickers, NoLiveLoop, OneOwner

LEMMA Lengths ==
  ASSUME TypeOK
  PROVE  /\ Len(posted) \in Nat /\ Len(incoming) \in Nat
         /\ Len(draining) \in Nat /\ Len(applied) \in Nat
         /\ \A t \in Tickers : index[t] \in Nat \ {0}
BY DEF TypeOK

LEMMA Drain ==
  ASSUME TypeOK, FifoInv, NEW t \in Tickers, Draining(t)
  PROVE  /\ index[t] \in Nat \ {0} /\ index[t] <= Len(draining) + 1
         /\ Len(applied) + Len(draining) + 1 - index[t] + Len(incoming) = Len(posted)
         /\ \A j \in 1..Len(draining) : draining[j] = Len(applied) + 1 - index[t] + j
BY Lengths DEF FifoInv

\* A step that moves no list, no history and nobody in or out of "exec".
LEMMA FifoUnchanged ==
  ASSUME FifoInv, UNCHANGED <<queues, history>>,
         \A t \in Tickers : Draining(t)' = Draining(t)
  PROVE  FifoInv'
BY DEF FifoInv, AppliedInPostOrder, queues, history

LEMMA FifoEnqueue ==
  ASSUME TypeOK, FifoInv, NEW h \in Hosts, NEW kind \in {"plain", "invoke"}, Enqueue(h, kind),
         UNCHANGED <<draining, index, applied>>,
         \A t \in Tickers : Draining(t)' = Draining(t)
  PROVE  FifoInv'
<1>1. posted' = Append(posted, [kind |-> kind, by |-> h]) /\ incoming' = Append(incoming, Len(posted) + 1)
  BY DEF Enqueue
<1>2. posted \in Seq(Command) /\ incoming \in Seq(1..Len(posted))
  BY DEF TypeOK, Command
<1>3. Len(posted') = Len(posted) + 1 /\ Len(incoming') = Len(incoming) + 1
  BY <1>1, <1>2
<1>4. \A k \in 1..Len(posted') : posted'[k] = IF k <= Len(posted) THEN posted[k] ELSE [kind |-> kind, by |-> h]
  BY <1>1, <1>2
<1>5. \A k \in 1..Len(incoming') : incoming'[k] = IF k <= Len(incoming) THEN incoming[k] ELSE Len(posted) + 1
  BY <1>1, <1>2
<1>6. ASSUME NEW k \in 1..Len(posted') PROVE posted'[k].kind # "poison"
  <2>1. CASE k <= Len(posted)
    BY <1>4, <2>1, Lengths DEF FifoInv
  <2>2. CASE ~(k <= Len(posted))
    BY <1>4, <2>2
  <2> QED BY <2>1, <2>2
<1>7. \A j \in 1..Len(incoming') : incoming'[j] = Len(posted') - Len(incoming') + j
  <2>1. \A j \in 1..Len(incoming) : incoming[j] = Len(posted) - Len(incoming) + j
    BY DEF FifoInv
  <2>2. SUFFICES ASSUME NEW j \in 1..Len(incoming')
                 PROVE  incoming'[j] = Len(posted') - Len(incoming') + j
    OBVIOUS
  <2>3. CASE j <= Len(incoming)
    BY <1>3, <1>5, <2>1, <2>3, Lengths
  <2>4. CASE ~(j <= Len(incoming))
    BY <1>3, <1>5, <2>4, Lengths
  <2> QED BY <2>3, <2>4
<1>8. ASSUME NEW t \in Tickers, Draining(t)'
      PROVE  /\ index'[t] <= Len(draining') + 1
             /\ Len(applied') + Len(draining') + 1 - index'[t] + Len(incoming') = Len(posted')
             /\ \A j \in 1..Len(draining') : draining'[j] = Len(applied') + 1 - index'[t] + j
  <2>1. Draining(t) /\ UNCHANGED <<draining, index, applied>>
    BY <1>8
  <2>2. index[t] \in Nat /\ Len(applied) + Len(draining) + 1 - index[t] + Len(incoming) = Len(posted)
    BY <2>1, Drain
  <2>3. Len(applied) + Len(draining) + 1 - index[t] + (Len(incoming) + 1) = Len(posted) + 1
    BY <2>2, Lengths, SMTT(30)
  <2> QED BY <1>3, <2>1, <2>3, Drain
<1>9. (\A t \in Tickers : ~Draining(t)')
        => draining' = <<>> /\ Len(applied') + Len(incoming') = Len(posted')
  BY <1>3, Lengths DEF FifoInv
<1>10. AppliedInPostOrder'
  BY DEF FifoInv, AppliedInPostOrder
<1> QED BY <1>6, <1>7, <1>8, <1>9, <1>10 DEF FifoInv

\* No thread enters or leaves the drain or the step of a Tick.
SameTick ==
  \A t \in Tickers :
    (Draining(t)' <=> Draining(t)) /\ ((pc'[t] = "step") <=> (pc[t] = "step"))

LEMMA FifoTick ==
  ASSUME TypeOK, FifoInv, OneTick, NEW t \in Tickers, Tick(t)
  PROVE  FifoInv' /\ ~ExecThrows(t)
<1>1. \A u \in Tickers : Draining(u) => InTick(u)
  BY DEF Draining, InTick
<1>2. InTick(t)
  BY DEF InTick, Tick, Swap, Exec, ExecThrows, DrainEnd, Step, StepThrows
<1>3. \A u \in Tickers : u # t => ~Draining(u)
  BY <1>1, <1>2 DEF OneTick
<1>4. CASE Swap(t)
  <2>1. \A u \in Tickers : ~Draining(u)
    BY <1>3, <1>4 DEF Swap, Draining
  <2>2. draining = <<>> /\ Len(applied) + Len(incoming) = Len(posted)
    BY <2>1 DEF FifoInv
  <2>3. \A u \in Tickers : Draining(u)' <=> u = t
    BY <1>3, <1>4 DEF Swap, Goto, Draining, TypeOK
  <2>4. incoming' = <<>> /\ draining' = incoming /\ index'[t] = 1 /\ UNCHANGED <<posted, applied>>
    BY <1>4, <2>2 DEF Swap, TypeOK, history
  <2>5. index'[t] <= Len(draining') + 1
        /\ Len(applied') + Len(draining') + 1 - index'[t] + Len(incoming') = Len(posted')
    BY <2>2, <2>4, Lengths
  <2>6. \A j \in 1..Len(draining') : draining'[j] = Len(applied') + 1 - index'[t] + j
    <3>1. \A j \in 1..Len(incoming) : incoming[j] = Len(posted) - Len(incoming) + j
      BY DEF FifoInv
    <3>2. Len(posted) - Len(incoming) = Len(applied) /\ Len(applied) + 1 - 1 = Len(applied)
      BY <2>2, Lengths
    <3> QED BY <2>4, <3>1, <3>2
  <2>7. ~ExecThrows(t)
    BY <1>4 DEF Swap, ExecThrows
  <2>8. AppliedInPostOrder' /\ \A k \in 1..Len(posted') : posted'[k].kind # "poison"
    BY <2>4 DEF FifoInv, AppliedInPostOrder
  <2>9. \A j \in 1..Len(incoming') : incoming'[j] = Len(posted') - Len(incoming') + j
    BY <2>4
  <2>10. \E u \in Tickers : Draining(u)'
    BY <2>3
  <2> QED BY <2>3, <2>5, <2>6, <2>7, <2>8, <2>9, <2>10 DEF FifoInv
<1>5. CASE Exec(t) \/ ExecThrows(t)
  <2>1. Draining(t) /\ index[t] \in 1..Len(draining) /\ draining[index[t]] = Len(applied) + 1
    <3>1. Draining(t) /\ index[t] \in 1..Len(draining)
      BY <1>5, Lengths DEF Exec, ExecThrows, Draining
    <3>2. draining[index[t]] = Len(applied) + 1 - index[t] + index[t]
      BY <3>1 DEF FifoInv
    <3> QED BY <3>1, <3>2, Lengths
  <2>2. draining[index[t]] \in 1..Len(posted)
    BY <2>1, SMTT(30) DEF TypeOK
  <2>3. Exec(t) /\ ~ExecThrows(t)
    BY <1>5, <2>2 DEF ExecThrows, FifoInv
  <2>4. applied' = Append(applied, Len(applied) + 1) /\ index'[t] = index[t] + 1
    BY <2>1, <2>3 DEF Exec, TypeOK
  <2>5. Len(applied') = Len(applied) + 1
        /\ \A k \in 1..Len(applied') : applied'[k] = IF k <= Len(applied) THEN applied[k] ELSE Len(applied) + 1
    <3>1. applied \in Seq(1..Len(posted))
      BY DEF TypeOK
    <3> QED BY <2>4, <3>1
  <2>6. AppliedInPostOrder'
    BY <2>5, Lengths, SMTT(30) DEF FifoInv, AppliedInPostOrder
  <2>7. UNCHANGED <<posted, incoming, draining, pc>>
    BY <2>3 DEF Exec
  <2>8. /\ index'[t] = index[t] + 1 /\ Len(applied') = Len(applied) + 1
        /\ index[t] \in Nat /\ Len(applied) \in Nat /\ Len(draining) \in Nat /\ Len(incoming) \in Nat
        /\ UNCHANGED <<posted, incoming, draining>>
    <3>1. index[t] \in Nat
      BY <2>1, Drain
    <3>2. index'[t] = index[t] + 1
      BY <2>4
    <3>3. Len(applied') = Len(applied) + 1
      BY <2>5
    <3> QED BY <2>7, <3>1, <3>2, <3>3, Lengths
  <2>9. /\ index'[t] <= Len(draining') + 1
        /\ Len(applied') + Len(draining') + 1 - index'[t] + Len(incoming') = Len(posted')
    <3>1. index[t] <= Len(draining)
          /\ Len(applied) + Len(draining) + 1 - index[t] + Len(incoming) = Len(posted)
      BY <2>1, Drain
    <3> QED BY <2>8, <3>1, SMTT(30)
  <2>10. \A j \in 1..Len(draining') : draining'[j] = Len(applied') + 1 - index'[t] + j
    <3>1. \A j \in 1..Len(draining) : draining[j] = Len(applied) + 1 - index[t] + j
      BY <2>1, Drain
    <3>2. Len(applied') + 1 - index'[t] = Len(applied) + 1 - index[t]
      BY <2>8
    <3> QED BY <2>7, <3>1, <3>2
  <2>11. \A u \in Tickers : Draining(u)' <=> u = t
    BY <1>3, <2>1, <2>7 DEF Draining
  <2>12. /\ \A k \in 1..Len(posted') : posted'[k].kind # "poison"
         /\ \A j \in 1..Len(incoming') : incoming'[j] = Len(posted') - Len(incoming') + j
    BY <2>7 DEF FifoInv
  <2> QED BY <2>3, <2>6, <2>9, <2>10, <2>11, <2>12 DEF FifoInv
<1>6. CASE DrainEnd(t)
  <2>1. Draining(t) /\ Len(applied) + Len(incoming) = Len(posted)
    BY <1>6, Lengths, SMTT(30) DEF DrainEnd, Draining, FifoInv
  <2>2. \A u \in Tickers : ~Draining(u)'
    BY <1>3, <1>6 DEF DrainEnd, Goto, Draining, TypeOK
  <2>3. draining' = <<>> /\ UNCHANGED <<incoming, posted, applied>>
    BY <1>6 DEF DrainEnd, history
  <2>4. ~ExecThrows(t)
    BY <1>6, Lengths DEF DrainEnd, ExecThrows
  <2> QED BY <2>1, <2>2, <2>3, <2>4 DEF FifoInv, AppliedInPostOrder
<1>7. CASE Step(t) \/ StepThrows(t)
  <2>1. \A u \in Tickers : Draining(u)' = Draining(u)
    BY <1>7 DEF Step, StepThrows, Goto, Returned, Thrown, Draining, TypeOK
  <2> QED BY <1>7, <2>1, FifoUnchanged DEF Step, StepThrows, ExecThrows
<1> QED BY <1>4, <1>5, <1>6, <1>7 DEF Tick

\* Every other step leaves each thread's place in a Tick's drain and step alone.
LEMMA OutsideTick ==
  ASSUME TypeOK, OwnerInv, [Next]_vars, \A t \in Tickers : ~Tick(t)
  PROVE  SameTick
<1>1. ASSUME NEW h \in Tickers, NEW label, pc[h] \notin {"exec", "step"}, Goto(h, label),
             label \notin {"exec", "step"}
      PROVE  SameTick
  BY <1>1 DEF Goto, TypeOK, Draining, SameTick
<1>2. Hosts \subseteq Tickers /\ Loops \subseteq Tickers /\ Invokers \subseteq Hosts /\ Controllers \subseteq Hosts
  BY ConstantsAssumption DEF Tickers
<1>3. ASSUME NEW h \in Hosts, NEW kind, Post(h, kind)
      PROVE  SameTick
  BY <1>3 DEF Post, Draining, SameTick
<1>4. ASSUME NEW h \in Hosts, Continue(h)
      PROVE  SameTick
  <2>1. CASE InvokeInline(h) \/ InvokePost(h) \/ InvokeReturn(h) \/ StartFlags(h) \/ StopJoined(h)
    BY <1>1, <1>2, <2>1 DEF InvokeInline, InvokePost, InvokeReturn, StartFlags, StopJoined
  <2>2. CASE StartSpawn(h)
    <3>1. starts + 1 \in Loops /\ NoLiveLoop
      BY <2>2, ConstantsAssumption DEF StartSpawn, TypeOK, Loops, OwnerInv
    <3>2. pc[starts + 1] \in {"unborn", "exited"} /\ pc[h] = "spawning"
      BY <2>2, <3>1 DEF StartSpawn, NoLiveLoop, Live
    <3> QED BY <2>2, <3>2 DEF StartSpawn, TypeOK, Draining, SameTick
  <2>3. ~Tick(h)
    BY <1>2
  <2> QED BY <1>4, <2>1, <2>2, <2>3 DEF Continue
<1>5. ASSUME NEW h \in Invokers, InvokeCheck(h)
      PROVE  SameTick
  BY <1>1, <1>2, <1>5 DEF InvokeCheck
<1>6. ASSUME NEW h \in Controllers, Control(h)
      PROVE  SameTick
  <2>1. CASE StartCheck(h) \/ Stop(h) \/ ManualTick(h)
    BY <1>1, <1>2, <2>1 DEF StartCheck, Stop, ManualTick
  <2>2. ASSUME NEW value, SetPaused(h, value) PROVE UNCHANGED pc
    BY <2>2 DEF SetPaused
  <2> QED BY <1>6, <2>1, <2>2 DEF Control, Draining, SameTick
<1>7. ASSUME NEW l \in Loops, Loop(l)
      PROVE  SameTick
  <2>1. CASE LoopTick(l) \/ LoopExit(l) \/ LoopCatch(l)
    BY <1>1, <1>2, <2>1 DEF LoopTick, LoopExit, LoopCatch
  <2> QED BY <1>2, <1>7, <2>1 DEF Loop
<1>8. CASE UNCHANGED vars
  BY <1>8 DEF vars, Draining, SameTick
<1> QED BY <1>3, <1>4, <1>5, <1>6, <1>7, <1>8 DEF Next

Inv == TypeOK /\ OwnerInv /\ FifoInv

LEMMA InvInit == Init => Inv
<1> SUFFICES ASSUME Init PROVE Inv
  OBVIOUS
<1>1. Len(posted) = 0 /\ Len(incoming) = 0 /\ Len(draining) = 0 /\ Len(applied) = 0 /\ draining = <<>>
  BY DEF Init
<1>2. \A t \in Tickers : ~Draining(t)
  BY DEF Init, Draining
<1>3. FifoInv
  BY <1>1, <1>2 DEF FifoInv, AppliedInPostOrder
<1> QED BY <1>3, TypeInit, OwnerInit DEF Inv

\* A step outside the Ticks posts one command, or moves neither the lists nor
\* the histories.
LEMMA PostOrNot ==
  ASSUME TypeOK, [Next]_vars, \A t \in Tickers : ~Tick(t)
  PROVE  \/ UNCHANGED <<queues, history>>
         \/ /\ \E h \in Hosts, kind \in Kinds : Enqueue(h, kind)
            /\ UNCHANGED <<draining, index, applied>>
<1>1. ASSUME NEW h \in Hosts, NEW kind \in Kinds \ {"invoke"}, Post(h, kind)
      PROVE  kind \in Kinds /\ Enqueue(h, kind) /\ UNCHANGED <<draining, index, applied>>
  BY <1>1 DEF Post
<1>2. ASSUME NEW h \in Hosts, InvokePost(h)
      PROVE  "invoke" \in Kinds /\ Enqueue(h, "invoke") /\ UNCHANGED <<draining, index, applied>>
  BY <1>2 DEF InvokePost, Kinds
<1>3. ASSUME NEW h \in Hosts,
             InvokeInline(h) \/ InvokeReturn(h) \/ StartFlags(h) \/ StartSpawn(h) \/ StopJoined(h)
      PROVE  UNCHANGED <<queues, history>>
  BY <1>3 DEF InvokeInline, InvokeReturn, StartFlags, StartSpawn, StopJoined
<1>4. ASSUME NEW h, InvokeCheck(h) \/ Control(h) PROVE UNCHANGED <<queues, history>>
  BY <1>4 DEF InvokeCheck, Control, StartCheck, Stop, ManualTick, SetPaused
<1>5. ASSUME NEW l \in Loops, Loop(l) PROVE UNCHANGED <<queues, history>>
  BY <1>5 DEF Loop, LoopTick, LoopExit, LoopCatch, Tickers
<1>6. CASE UNCHANGED vars
  BY <1>6 DEF vars
<1> QED BY <1>1, <1>2, <1>3, <1>4, <1>5, <1>6 DEF Next, Continue, Tickers

LEMMA InvStep == ASSUME Inv, OneOwner, NoPoison, [Next]_vars PROVE Inv'
<1>1. TypeOK' /\ OwnerInv' /\ OneTick
  BY TypeStep, OwnerStep, OwnerImpliesOneTick DEF Inv
<1>2. CASE \E t \in Tickers : Tick(t)
  BY <1>1, <1>2, FifoTick DEF Inv
<1>3. CASE \A t \in Tickers : ~Tick(t)
  <2>1. \A t \in Tickers : Draining(t)' = Draining(t)
    BY <1>3, OutsideTick DEF Inv, SameTick, Draining
  <2>2. CASE UNCHANGED <<queues, history>>
    BY <2>1, <2>2, FifoUnchanged, <1>1 DEF Inv
  <2>3. CASE /\ \E h \in Hosts, kind \in Kinds : Enqueue(h, kind)
             /\ UNCHANGED <<draining, index, applied>>
    <3>1. Kinds = {"plain", "invoke"}
      BY DEF Kinds, NoPoison
    <3> QED BY <2>1, <2>3, <3>1, FifoEnqueue, <1>1 DEF Inv
  <2> QED BY <1>3, <2>2, <2>3, PostOrNot DEF Inv
<1> QED BY <1>2, <1>3

\* Commands are applied once each and in the order of their posts, through any
\* sequence of Ticks, pauses, restarts and failing steps, if none of them throws.
THEOREM Fifo == ASSUME OneOwner, NoPoison PROVE Spec => []AppliedInPostOrder
<1>1. Inv => AppliedInPostOrder
  BY DEF Inv, FifoInv
<1> QED BY <1>1, InvInit, InvStep, PTL DEF Spec

-----------------------------------------------------------------------------
(* The refinement.  With one thread in a Tick at a time, Phase and Due say *)
(* of the whole runner what that thread's place in DrainCommands says.     *)

PhaseFacts ==
  /\ \A t \in Tickers :
       /\ pc[t] = "exec" => /\ Phase = "draining"
                            /\ Due = Len(applied) + Len(draining) + 1 - index[t]
       /\ pc[t] = "step" => Phase = "stepping" /\ Due = Len(applied)
       /\ pc[t] = "swap" => Phase = "between" /\ Due = Len(applied)
  /\ (\A t \in Tickers : pc[t] # "exec" /\ pc[t] # "step")
       => Phase = "between" /\ Due = Len(applied)

LEMMA PhaseHolds == OneTick => PhaseFacts
<1> SUFFICES ASSUME OneTick PROVE PhaseFacts
  OBVIOUS
<1>1. ASSUME NEW t \in Tickers, InTick(t)
      PROVE  /\ pc[t] = "exec" => /\ Phase = "draining"
                                  /\ Due = Len(applied) + Len(draining) + 1 - index[t]
             /\ pc[t] = "step" => Phase = "stepping" /\ Due = Len(applied)
             /\ pc[t] = "swap" => Phase = "between" /\ Due = Len(applied)
  <2>1. \A u \in Tickers : u # t => pc[u] # "exec" /\ pc[u] # "step"
    BY <1>1 DEF OneTick, InTick
  <2>2. CASE pc[t] = "exec"
    <3>1. (CHOOSE u \in Tickers : Draining(u)) = t
      BY <2>1, <2>2 DEF Draining
    <3> QED BY <2>1, <2>2, <3>1 DEF Phase, Due, Draining
  <2>3. CASE pc[t] # "exec"
    BY <1>1, <2>1, <2>3 DEF Phase, Due, Draining, InTick
  <2> QED BY <2>2, <2>3
<1>2. (\A t \in Tickers : pc[t] # "exec" /\ pc[t] # "step")
        => Phase = "between" /\ Due = Len(applied)
  BY DEF Phase, Due, Draining
<1> QED BY <1>1, <1>2 DEF PhaseFacts, InTick

LEMMA InvPhase == Inv /\ OneOwner => OneTick /\ PhaseFacts
BY OwnerImpliesOneTick, PhaseHolds DEF Inv

LEMMA StreamTick ==
  ASSUME Inv, OneTick, PhaseFacts, PhaseFacts', NEW t \in Tickers, Tick(t)
  PROVE  Stream!Next
<1> USE DEF Inv
<1>1. \A u \in Tickers : u # t => pc[u] \notin {"swap", "exec", "step"}
  BY DEF OneTick, InTick, Tick, Swap, Exec, ExecThrows, DrainEnd, Step, StepThrows
<1>2. CASE Swap(t)
  <2>1. Phase = "between" /\ UNCHANGED <<posted, applied>>
    BY <1>2 DEF Swap, PhaseFacts, history
  <2>2. pc'[t] = "exec" /\ index'[t] = 1 /\ draining' = incoming
    BY <1>2 DEF Swap, Goto, TypeOK
  <2>3. Phase' = "draining" /\ Due' = Len(applied') + Len(draining') + 1 - index'[t]
    BY <2>2 DEF PhaseFacts
  <2>4. Len(applied) + Len(incoming) = Len(posted)
    BY <1>1, <1>2 DEF FifoInv, Draining, Swap
  <2>5. Due' = Len(posted)
    BY <2>1, <2>2, <2>3, <2>4, Lengths
  <2> QED BY <2>1, <2>3, <2>5 DEF Stream!Next, Stream!TickBegin
<1>3. CASE Exec(t) \/ ExecThrows(t)
  <2>1. Exec(t) /\ Draining(t)
    BY <1>3, FifoTick DEF Exec, Draining
  <2>2. pc'[t] = "exec" /\ pc[t] = "exec" /\ UNCHANGED <<posted, draining>>
    BY <2>1 DEF Exec
  <2>3. index[t] \in Nat /\ index[t] <= Len(draining) /\ index'[t] = index[t] + 1
    BY <2>1, Lengths DEF Exec, TypeOK
  <2>4. draining[index[t]] = Len(applied) + 1
    <3>1. draining[index[t]] = Len(applied) + 1 - index[t] + index[t]
      <4>1. index[t] \in 1..Len(draining)
        BY <2>1, <2>3, Lengths
      <4> QED BY <2>1, <4>1, Drain
    <3> QED BY <2>3, <3>1, Lengths
  <2>5. applied' = Append(applied, Len(applied) + 1)
    BY <2>1, <2>4 DEF Exec
  <2>6. Len(applied') = Len(applied) + 1
    BY <2>5 DEF TypeOK
  <2>7. Phase = "draining" /\ Due = Len(applied) + Len(draining) + 1 - index[t]
    BY <2>2 DEF PhaseFacts
  <2>8. Phase' = "draining" /\ Due' = Len(applied') + Len(draining') + 1 - index'[t]
    BY <2>2 DEF PhaseFacts
  <2>9. Len(applied) < Due
    BY <2>3, <2>7, Lengths
  <2>10. Due' = Due
    <3>1. Due' = (Len(applied) + 1) + Len(draining) + 1 - (index[t] + 1)
      BY <2>2, <2>3, <2>6, <2>8
    <3> QED BY <2>3, <2>7, <3>1, Lengths
  <2> QED BY <2>2, <2>5, <2>7, <2>8, <2>9, <2>10 DEF Stream!Next, Stream!Apply
<1>4. CASE DrainEnd(t)
  <2>1. Draining(t) /\ pc[t] = "exec" /\ pc'[t] = "step" /\ UNCHANGED <<posted, applied>>
    BY <1>4 DEF DrainEnd, Draining, Goto, TypeOK, history
  <2>2. Phase = "draining" /\ Due = Len(applied) + Len(draining) + 1 - index[t]
    BY <2>1 DEF PhaseFacts
  <2>3. Phase' = "stepping" /\ Due' = Len(applied')
    BY <2>1 DEF PhaseFacts
  <2>4. Due = Len(applied)
    <3>1. index[t] \in Nat /\ index[t] <= Len(draining) + 1
      BY <2>1, Drain
    <3>2. index[t] > Len(draining)
      BY <1>4 DEF DrainEnd
    <3> QED BY <2>2, <3>1, <3>2, Lengths
  <2> QED BY <2>1, <2>2, <2>3, <2>4 DEF Stream!Next, Stream!StepBegin
<1>5. CASE Step(t) \/ StepThrows(t)
  <2>1. pc[t] = "step" /\ UNCHANGED <<posted, applied>>
    BY <1>5 DEF Step, StepThrows, history
  <2>2. \A u \in Tickers : pc'[u] # "exec" /\ pc'[u] # "step"
    BY <1>1, <1>5 DEF Step, StepThrows, Goto, Returned, Thrown, TypeOK
  <2>3. Phase = "stepping" /\ Due = Len(applied)
    BY <2>1 DEF PhaseFacts
  <2>4. Phase' = "between" /\ Due' = Len(applied')
    BY <2>2 DEF PhaseFacts
  <2> QED BY <2>1, <2>3, <2>4 DEF Stream!Next, Stream!StepEnd
<1> QED BY <1>2, <1>3, <1>4, <1>5 DEF Tick

LEMMA StreamOther ==
  ASSUME Inv, NoPoison, [Next]_vars, \A t \in Tickers : ~Tick(t)
  PROVE  [Stream!Next]_Stream!vars
<1> USE DEF Inv
<1>1. SameTick
  BY OutsideTick
<1>2. UNCHANGED <<draining, index, applied>>
  BY PostOrNot DEF queues, history
<1>3. Phase' = Phase
  BY <1>1 DEF SameTick, Phase
<1>4. Due' = Due
  <2>1. (CHOOSE u \in Tickers : Draining(u)') = CHOOSE u \in Tickers : Draining(u)
    BY <1>1 DEF SameTick
  <2> QED BY <1>1, <1>2, <2>1 DEF SameTick, Due
<1>5. CASE UNCHANGED <<queues, history>>
  BY <1>2, <1>3, <1>4, <1>5 DEF Stream!vars, history
<1>6. CASE \E h \in Hosts, kind \in Kinds : Enqueue(h, kind)
  <2>1. Len(posted') = Len(posted) + 1
    BY <1>6, EnqueueType DEF Kinds
  <2> QED BY <1>2, <1>3, <1>4, <2>1 DEF Stream!Next, Stream!Post
<1> QED BY <1>5, <1>6, PostOrNot

\* The dispatcher implements the command stream: each command exactly once, in
\* post order, never while the engine steps, and no later than the Tick that
\* begins after its post.
THEOREM Implements == ASSUME OneOwner, NoPoison PROVE Spec => ImplementsCommandStream
<1>1. Init => Stream!Init
  <2> SUFFICES ASSUME Init PROVE Stream!Init
    OBVIOUS
  <2>1. Len(posted) = 0 /\ applied = <<>> /\ Len(applied) = 0
    BY DEF Init
  <2>2. Phase = "between" /\ Due = Len(applied)
    BY DEF Init, Phase, Due, Draining
  <2> QED BY <2>1, <2>2 DEF Stream!Init
<1>2. Inv => OneTick /\ PhaseFacts
  BY InvPhase
<1>3. Inv /\ [Next]_vars => Inv'
  BY InvStep
<1>4. Inv /\ OneTick /\ PhaseFacts /\ PhaseFacts' /\ [Next]_vars => [Stream!Next]_Stream!vars
  BY StreamTick, StreamOther
<1> QED BY <1>1, <1>2, <1>3, <1>4, InvInit, PTL DEF Spec, Stream!Spec, ImplementsCommandStream

-----------------------------------------------------------------------------
(* Nothing is lost, also when commands and steps throw.  What a Tick has   *)
(* behind it of its list has been applied: that is why it may clear it.    *)

Behind(t) == \A k \in 1..Len(draining) : k < index[t] => draining[k] \in Entries(applied)
KeptInv   == NoCommandLost /\ \A t \in Tickers : Draining(t) => Behind(t)

LEMMA EntriesGrow ==
  ASSUME NEW S, NEW list \in Seq(S), NEW x
  PROVE  Entries(list) \cup {x} \subseteq Entries(Append(list, x))
<1>1. /\ Len(Append(list, x)) = Len(list) + 1 /\ Len(list) \in Nat
      /\ \A k \in 1..Len(list) : Append(list, x)[k] = list[k]
      /\ Append(list, x)[Len(list) + 1] = x
  OBVIOUS
<1>2. 1..Len(list) \subseteq 1..Len(Append(list, x)) /\ Len(list) + 1 \in 1..Len(Append(list, x))
  BY <1>1
<1> QED BY <1>1, <1>2 DEF Entries

LEMMA KeptTick ==
  ASSUME TypeOK, KeptInv, OneTick, NEW t \in Tickers, Tick(t)
  PROVE  KeptInv'
<1>1. \A u \in Tickers : u # t => ~Draining(u)
  BY DEF OneTick, InTick, Draining, Tick, Swap, Exec, ExecThrows, DrainEnd, Step, StepThrows
<1>2. CASE Swap(t)
  <2>1. incoming' = draining /\ draining' = incoming /\ UNCHANGED <<posted, applied>> /\ index'[t] = 1
    BY <1>2 DEF Swap, TypeOK, history
  <2>2. \A u \in Tickers : Draining(u)' => u = t
    BY <1>1, <1>2 DEF Swap, Goto, Draining, TypeOK
  <2>3. Behind(t)'
    BY <2>1, Lengths DEF Behind
  <2>4. NoCommandLost'
    BY <2>1 DEF KeptInv, NoCommandLost, Entries
  <2> QED BY <2>2, <2>3, <2>4 DEF KeptInv
<1>3. CASE Exec(t)
  <2>1. /\ index[t] \in 1..Len(draining) /\ index' = [index EXCEPT ![t] = @ + 1]
        /\ applied' = Append(applied, draining[index[t]])
        /\ UNCHANGED <<posted, incoming, draining, pc>>
    BY <1>3, Lengths DEF Exec
  <2>2. Entries(applied) \cup {draining[index[t]]} \subseteq Entries(applied')
    BY <2>1, EntriesGrow DEF TypeOK
  <2>3. Draining(t) /\ \A u \in Tickers : Draining(u)' => u = t
    BY <1>1, <1>3, <2>1 DEF Exec, Draining
  <2>4. index'[t] = index[t] + 1
    BY <2>1 DEF TypeOK
  <2>5. ASSUME NEW k \in 1..Len(draining), k < index'[t]
        PROVE  draining[k] \in Entries(applied')
    <3>1. k < index[t] \/ k = index[t]
      BY <2>1, <2>4, <2>5, Lengths
    <3> QED BY <2>2, <2>3, <3>1 DEF KeptInv, Behind
  <2>6. Behind(t)'
    BY <2>1, <2>5 DEF Behind
  <2>7. NoCommandLost'
    BY <2>1, <2>2 DEF KeptInv, NoCommandLost, Entries
  <2> QED BY <2>3, <2>6, <2>7 DEF KeptInv
<1>4. CASE DrainEnd(t)
  <2>1. Draining(t) /\ index[t] > Len(draining) /\ UNCHANGED <<incoming, posted, applied>>
    BY <1>4 DEF DrainEnd, Draining, history
  <2>2. Entries(draining) \subseteq Entries(applied)
    BY <2>1, Lengths DEF KeptInv, Behind, Entries
  <2>3. \A u \in Tickers : ~Draining(u)'
    BY <1>1, <1>4 DEF DrainEnd, Goto, Draining, TypeOK
  <2> QED BY <2>1, <2>2, <2>3 DEF KeptInv, NoCommandLost, Entries
<1>5. CASE ExecThrows(t) \/ Step(t) \/ StepThrows(t)
  <2>1. UNCHANGED <<incoming, draining, index, posted, applied>>
    BY <1>5 DEF ExecThrows, Step, StepThrows, queues, history
  <2>2. \A u \in Tickers : Draining(u)' => Draining(u)
    BY <1>5 DEF ExecThrows, Step, StepThrows, Goto, Returned, Thrown, Draining, TypeOK
  <2> QED BY <2>1, <2>2 DEF KeptInv, NoCommandLost, Behind, Entries
<1> QED BY <1>2, <1>3, <1>4, <1>5 DEF Tick

LEMMA KeptOther ==
  ASSUME TypeOK, OwnerInv, KeptInv, [Next]_vars, \A t \in Tickers : ~Tick(t)
  PROVE  KeptInv'
<1>1. \A t \in Tickers : Draining(t)' => Draining(t)
  BY OutsideTick DEF SameTick
<1>2. CASE UNCHANGED <<queues, history>>
  BY <1>1, <1>2 DEF KeptInv, NoCommandLost, Behind, Entries, queues, history
<1>3. ASSUME NEW h \in Hosts, NEW kind \in Kinds, Enqueue(h, kind), UNCHANGED <<draining, index, applied>>
      PROVE  KeptInv'
  <2>1. Len(posted') = Len(posted) + 1 /\ Len(posted) \in Nat
    BY <1>3, EnqueueType DEF Kinds
  <2>2. Entries(incoming) \cup {Len(posted) + 1} \subseteq Entries(incoming')
    BY <1>3, EntriesGrow DEF Enqueue, TypeOK
  <2>3. 1..Len(posted') \subseteq 1..Len(posted) \cup {Len(posted) + 1}
    BY <2>1
  <2>4. NoCommandLost'
    BY <1>3, <2>2, <2>3 DEF KeptInv, NoCommandLost, Entries
  <2> QED BY <1>1, <1>3, <2>4 DEF KeptInv, Behind, Entries
<1> QED BY <1>2, <1>3, PostOrNot

\* A command that was posted is applied or still in a list, whatever throws and
\* however often the loop is started again.
THEOREM NothingLost == ASSUME OneOwner PROVE Spec => []NoCommandLost
<1> DEFINE All == TypeOK /\ OwnerInv /\ KeptInv
<1>1. Init => All
  <2> SUFFICES ASSUME Init PROVE All
    OBVIOUS
  <2>1. Len(posted) = 0
    BY DEF Init
  <2> QED BY <2>1, TypeInit, OwnerInit DEF Init, KeptInv, NoCommandLost, Draining
<1>2. All /\ [Next]_vars => All'
  <2> SUFFICES ASSUME All, [Next]_vars PROVE All'
    OBVIOUS
  <2>1. TypeOK' /\ OwnerInv' /\ OneTick
    BY TypeStep, OwnerStep, OwnerImpliesOneTick
  <2> QED BY <2>1, KeptTick, KeptOther
<1>3. All => NoCommandLost
  BY DEF KeptInv
<1> QED BY <1>1, <1>2, <1>3, PTL DEF Spec

-----------------------------------------------------------------------------
(* A loop that dies.  A live loop whose runner no longer runs is being     *)
(* joined, so one that just ends was asked to.                             *)

ByControllers == \A h \in Hosts : pc[h] \in {"starting", "spawning", "joining"} => h \in Controllers
CrashInv      == CrashIsObservable /\ ByControllers

LEMMA ThreadIsLoop == ASSUME TypeOK PROVE thread # 0 => thread \in Loops /\ thread \in Tickers
<1>1. starts \in 0..MaxStarts /\ thread \in 0..starts
  BY DEF TypeOK
<1>2. MaxStarts \in Nat
  BY ConstantsAssumption
<1> QED BY <1>1, <1>2 DEF Loops, Tickers

\* A host that is in no call of Start or Stop hides no crash by going on.
LEMMA HostCrash ==
  ASSUME TypeOK, CrashInv, NEW h \in Hosts, NEW label, pc' = [pc EXCEPT ![h] = label],
         UNCHANGED <<thread, lastError>>,
         pc[h] \notin {"joining", "spawning"},
         label \in {"starting", "spawning", "joining"} => h \in Controllers
  PROVE  CrashInv'
<1>1. \A u \in Tickers : pc'[u] = IF u = h THEN label ELSE pc[u]
  BY DEF TypeOK
<1>2. Hosts \subseteq Tickers /\ Controllers \subseteq Hosts
  BY ConstantsAssumption DEF Tickers
<1>3. thread # 0 => thread \in Tickers /\ thread # h
  <2>1. h \notin Loops
    BY ConstantsAssumption
  <2> QED BY <2>1, ThreadIsLoop
<1> QED BY <1>1, <1>2, <1>3 DEF CrashInv, CrashIsObservable, ByControllers

LEMMA CrashTick ==
  ASSUME TypeOK, CrashInv, NEW t \in Tickers, Tick(t)
  PROVE  CrashInv'
<1>1. PICK label \in {"exec", "step", "loop", "catch", "idle"} : pc' = [pc EXCEPT ![t] = label]
  <2>1. CASE Exec(t)
    <3>1. pc' = [pc EXCEPT ![t] = "exec"]
      BY <2>1 DEF Exec, TypeOK
    <3> QED BY <3>1
  <2>2. CASE ~Exec(t)
    BY <2>2 DEF Tick, Swap, ExecThrows, DrainEnd, Step, StepThrows, Goto, Returned, Thrown
  <2> QED BY <2>1, <2>2
<1>2. UNCHANGED <<thread, lastError>> /\ pc[t] \in {"swap", "exec", "step"}
  BY DEF Tick, Swap, Exec, ExecThrows, DrainEnd, Step, StepThrows, control
<1>3. CASE t \in Hosts
  BY <1>1, <1>2, <1>3, HostCrash
<1>4. CASE t \in Loops
  <2>1. \A u \in Tickers : pc'[u] = IF u = t THEN label ELSE pc[u]
    BY <1>1 DEF TypeOK
  <2>2. \A h \in Hosts : pc'[h] = pc[h]
    BY <1>4, <2>1, LoopsInNat DEF Tickers
  <2>3. thread # 0 => thread \in Tickers
    BY ThreadIsLoop
  <2>4. Controllers \subseteq Hosts
    BY ConstantsAssumption
  <2> QED BY <1>2, <2>1, <2>2, <2>3, <2>4 DEF CrashInv, CrashIsObservable, ByControllers
<1> QED BY <1>3, <1>4 DEF Tickers

LEMMA CrashStep == ASSUME TypeOK, OwnerInv, CrashInv, [Next]_vars PROVE CrashInv'
<1>1. /\ Hosts \subseteq Tickers /\ Loops \subseteq Tickers
      /\ Controllers \subseteq Hosts /\ Invokers \subseteq Hosts
  BY ConstantsAssumption DEF Tickers
<1>2. ASSUME UNCHANGED <<pc, thread, lastError>> PROVE CrashInv'
  BY <1>2 DEF CrashInv, CrashIsObservable, ByControllers
<1>3. ASSUME NEW h \in Hosts, Continue(h) PROVE CrashInv'
  <2>1. CASE InvokeInline(h) \/ InvokePost(h) \/ InvokeReturn(h)
    BY <2>1, HostCrash DEF InvokeInline, InvokePost, InvokeReturn, Goto, control
  <2>2. CASE StartFlags(h)
    <3>1. h \in Controllers /\ \A u \in Tickers : pc'[u] = IF u = h THEN "spawning" ELSE pc[u]
      BY <1>1, <2>2 DEF StartFlags, Goto, TypeOK, CrashInv, ByControllers
    <3> QED BY <1>1, <3>1 DEF CrashInv, CrashIsObservable, ByControllers
  <2>3. CASE StartSpawn(h)
    <3> DEFINE l == starts + 1
    <3>1. l \in Loops /\ thread' = l
      BY <2>3, ConstantsAssumption DEF StartSpawn, TypeOK, Loops
    <3>2. \A u \in Tickers : pc'[u] = IF u = l THEN "loop" ELSE IF u = h THEN "idle" ELSE pc[u]
      BY <2>3, <1>1, <3>1 DEF StartSpawn, TypeOK
    <3> HIDE DEF l
    <3> QED BY <1>1, <3>1, <3>2 DEF CrashInv, CrashIsObservable, ByControllers
  <2>4. CASE StopJoined(h)
    <3>1. thread' = 0 /\ \A u \in Tickers : pc'[u] = IF u = h THEN "idle" ELSE pc[u]
      BY <1>1, <2>4 DEF StopJoined, Goto, TypeOK
    <3> QED BY <1>1, <3>1 DEF CrashInv, CrashIsObservable, ByControllers
  <2>5. CASE Tick(h)
    BY <1>1, <2>5, CrashTick
  <2> QED BY <1>3, <2>1, <2>2, <2>3, <2>4, <2>5 DEF Continue
<1>4. ASSUME NEW h \in Invokers, InvokeCheck(h) PROVE CrashInv'
  BY <1>1, <1>4, HostCrash DEF InvokeCheck, Goto, control
<1>5. ASSUME NEW h \in Controllers, Control(h) PROVE CrashInv'
  <2>1. CASE StartCheck(h) \/ Stop(h) \/ ManualTick(h)
    <3>1. PICK label : pc' = [pc EXCEPT ![h] = label]
      BY <2>1 DEF StartCheck, Stop, ManualTick, Goto
    <3>2. UNCHANGED <<thread, lastError>> /\ pc[h] = "idle"
      BY <2>1 DEF StartCheck, Stop, ManualTick, control
    <3>3. h \in Hosts /\ pc[h] \notin {"joining", "spawning"}
      BY <1>1, <3>2
    <3> QED BY <3>1, <3>2, <3>3, HostCrash
  <2>2. ASSUME NEW value, SetPaused(h, value) PROVE CrashInv'
    BY <1>2, <2>2 DEF SetPaused
  <2> QED BY <1>5, <2>1, <2>2 DEF Control
<1>6. ASSUME NEW l \in Loops, Loop(l) PROVE CrashInv'
  <2> DEFINE OnlyMoves(label) == \A u \in Tickers : pc'[u] = IF u = l THEN label ELSE pc[u]
  <2>1. \A h \in Hosts : h # l
    BY LoopsInNat
  <2>2. CASE LoopTick(l)
    <3>1. OnlyMoves("swap") /\ UNCHANGED <<thread, lastError>>
      BY <1>1, <2>2 DEF LoopTick, Goto, TypeOK, control
    <3>2. thread # 0 => thread \in Tickers
      BY ThreadIsLoop
    <3> QED BY <1>1, <2>1, <3>1, <3>2 DEF CrashInv, CrashIsObservable, ByControllers
  <2>3. CASE LoopExit(l)
    <3>1. OnlyMoves("exited") /\ Live(l) /\ ~running
      BY <1>1, <2>3 DEF LoopExit, Goto, TypeOK, Live
    <3>2. PICK h \in Hosts : pc[h] = "joining"
      BY <3>1 DEF OwnerInv, NoLiveLoop
    <3>3. h \in Controllers /\ pc'[h] = "joining"
      BY <1>1, <2>1, <3>1, <3>2 DEF CrashInv, ByControllers
    <3> QED BY <1>1, <2>1, <3>1, <3>3 DEF CrashInv, CrashIsObservable, ByControllers
  <2>4. CASE LoopCatch(l)
    <3>1. OnlyMoves("exited") /\ lastError'
      BY <1>1, <2>4 DEF LoopCatch, Goto, TypeOK
    <3> QED BY <1>1, <2>1, <3>1 DEF CrashInv, CrashIsObservable, ByControllers
  <2>5. CASE Tick(l)
    BY <1>1, <2>5, CrashTick
  <2> QED BY <1>6, <2>2, <2>3, <2>4, <2>5 DEF Loop
<1>7. ASSUME NEW h \in Hosts, NEW kind, Post(h, kind) PROVE CrashInv'
  BY <1>2, <1>7 DEF Post, control
<1>8. CASE UNCHANGED vars
  BY <1>2, <1>8 DEF vars, control
<1> QED BY <1>3, <1>4, <1>5, <1>6, <1>7, <1>8 DEF Next

\* A loop that is gone without Stop has left LastError behind, through crashes
\* and restarts, as long as Start does not meet a loop that is still dying.
THEOREM CrashSeen == ASSUME OneOwner PROVE Spec => []CrashIsObservable
<1> DEFINE All == TypeOK /\ OwnerInv /\ CrashInv
<1>1. Init => All
  <2>1. Init => CrashInv
    BY LoopsInNat DEF Init, CrashInv, CrashIsObservable, ByControllers, Tickers
  <2> QED BY <2>1, TypeInit, OwnerInit
<1>2. All /\ [Next]_vars => All'
  BY TypeStep, OwnerStep, CrashStep
<1>3. All => CrashIsObservable
  BY DEF CrashInv
<1> QED BY <1>1, <1>2, <1>3, PTL DEF Spec

-----------------------------------------------------------------------------
(* Invoke.  What the two liveness properties leave to the threads is to go *)
(* on: the command a blocked caller waits for is where the next Ticks will *)
(* find it, or done.                                                       *)

\* A host that waits does so for a command of its own.
OwnTicket(h) ==
  /\ ticket[h] \in 1..Len(posted)
  /\ posted[ticket[h]] = [kind |-> "invoke", by |-> h]

TicketInv == \A h \in Hosts : pc[h] = "waiting" => OwnTicket(h)

\* The command a blocked Invoke waits for is its own and has been applied or is
\* still in one of the lists.
WaitingIsInHand ==
  \A h \in Hosts : pc[h] = "waiting" =>
    OwnTicket(h) /\ ticket[h] \in Entries(applied) \cup Entries(incoming) \cup Entries(draining)

\* A step that neither posts nor starts to wait.
LEMMA TicketKept ==
  ASSUME TicketInv, UNCHANGED posted,
         \A h \in Hosts : pc'[h] = "waiting" => pc[h] = "waiting" /\ ticket'[h] = ticket[h]
  PROVE  TicketInv'
  BY DEF TicketInv, OwnTicket

\* The commands posted so far stay what they are.
LEMMA TicketEnqueue ==
  ASSUME TypeOK, TicketInv, NEW g \in Hosts, NEW kind \in {"plain", "invoke", "poison"}, Enqueue(g, kind)
  PROVE  /\ Len(posted) \in Nat /\ Len(posted') = Len(posted) + 1
         /\ posted'[Len(posted) + 1] = [kind |-> kind, by |-> g]
         /\ \A n \in 1..Len(posted) : posted'[n] = posted[n]
<1>1. posted \in Seq(Command) /\ [kind |-> kind, by |-> g] \in Command
  BY DEF TypeOK, Command
<1>2. posted' = Append(posted, [kind |-> kind, by |-> g])
  BY DEF Enqueue
<1> QED BY <1>1, <1>2

LEMMA TicketTick == ASSUME TypeOK, TicketInv, NEW t \in Tickers, Tick(t) PROVE TicketInv'
<1>1. UNCHANGED <<posted, ticket>>
  BY DEF Tick, Swap, Exec, ExecThrows, DrainEnd, Step, StepThrows, history
<1>2. \A h \in Hosts : pc'[h] = "waiting" => pc[h] = "waiting"
  BY DEF Tick, Swap, Exec, ExecThrows, DrainEnd, Step, StepThrows, Goto, Returned, Thrown, TypeOK, Tickers
<1> QED BY <1>1, <1>2, TicketKept

LEMMA TicketStep == ASSUME TypeOK, TicketInv, [Next]_vars PROVE TicketInv'
<1>1. Hosts \subseteq Tickers /\ Loops \subseteq Tickers /\ Controllers \subseteq Hosts /\ Invokers \subseteq Hosts
  BY ConstantsAssumption DEF Tickers
<1>2. ASSUME NEW t \in Tickers, NEW label, label # "waiting", Goto(t, label), UNCHANGED <<posted, ticket>>
      PROVE  TicketInv'
  <2>1. \A h \in Hosts : pc'[h] = "waiting" => pc[h] = "waiting"
    BY <1>1, <1>2 DEF Goto, TypeOK
  <2> QED BY <1>2, <2>1, TicketKept
<1>3. ASSUME NEW h \in Hosts, Continue(h) PROVE TicketInv'
  <2>1. CASE InvokeInline(h) \/ StartFlags(h) \/ StopJoined(h)
    BY <1>1, <1>2, <2>1 DEF InvokeInline, StartFlags, StopJoined, history
  <2>2. CASE StartSpawn(h)
    <3>1. UNCHANGED <<posted, ticket>> /\ pc' = [pc EXCEPT ![h] = "idle", ![starts + 1] = "loop"]
      BY <2>2 DEF StartSpawn, history
    <3>2. \A g \in Hosts : pc'[g] = "waiting" => pc[g] = "waiting"
      BY <1>1, <3>1 DEF TypeOK
    <3> QED BY <3>1, <3>2, TicketKept
  <2>3. CASE InvokeReturn(h)
    <3>1. UNCHANGED posted /\ ticket' = [ticket EXCEPT ![h] = 0] /\ pc' = [pc EXCEPT ![h] = "idle"]
      BY <2>3 DEF InvokeReturn, Goto, history
    <3>2. \A g \in Hosts : pc'[g] = "waiting" => pc[g] = "waiting" /\ ticket'[g] = ticket[g]
      BY <1>1, <3>1 DEF TypeOK
    <3> QED BY <3>1, <3>2, TicketKept
  <2>4. CASE InvokePost(h)
    <3>1. /\ Enqueue(h, "invoke") /\ pc' = [pc EXCEPT ![h] = "waiting"]
          /\ ticket' = [ticket EXCEPT ![h] = Len(posted) + 1]
      BY <2>4 DEF InvokePost, Goto
    <3>2. /\ Len(posted) \in Nat /\ Len(posted') = Len(posted) + 1
          /\ posted'[Len(posted) + 1] = [kind |-> "invoke", by |-> h]
          /\ \A n \in 1..Len(posted) : posted'[n] = posted[n]
      BY <3>1, TicketEnqueue
    <3>3. OwnTicket(h)'
      <4>1. ticket'[h] = Len(posted) + 1
        BY <3>1 DEF TypeOK
      <4> QED BY <3>2, <4>1 DEF OwnTicket
    <3>4. ASSUME NEW g \in Hosts, g # h, pc'[g] = "waiting" PROVE OwnTicket(g)'
      <4>1. pc[g] = "waiting" /\ ticket'[g] = ticket[g]
        BY <1>1, <3>1, <3>4 DEF TypeOK
      <4>2. ticket[g] \in 1..Len(posted) /\ posted[ticket[g]] = [kind |-> "invoke", by |-> g]
        BY <4>1 DEF TicketInv, OwnTicket
      <4> QED BY <3>2, <4>1, <4>2 DEF OwnTicket
    <3> QED BY <3>3, <3>4 DEF TicketInv
  <2>5. CASE Tick(h)
    BY <1>1, <2>5, TicketTick
  <2> QED BY <1>3, <2>1, <2>2, <2>3, <2>4, <2>5 DEF Continue
<1>4. ASSUME NEW g \in Hosts, NEW kind \in Kinds \ {"invoke"}, Post(g, kind) PROVE TicketInv'
  <2>1. Enqueue(g, kind) /\ UNCHANGED <<pc, ticket>> /\ kind \in {"plain", "invoke", "poison"}
    BY <1>4 DEF Post, Kinds
  <2>2. /\ Len(posted) \in Nat /\ Len(posted') = Len(posted) + 1
        /\ \A n \in 1..Len(posted) : posted'[n] = posted[n]
    BY <2>1, TicketEnqueue
  <2> QED BY <2>1, <2>2 DEF TicketInv, OwnTicket
<1>5. ASSUME NEW h \in Invokers, InvokeCheck(h) PROVE TicketInv'
  BY <1>1, <1>2, <1>5 DEF InvokeCheck, history
<1>6. ASSUME NEW h \in Controllers, Control(h) PROVE TicketInv'
  <2>1. CASE StartCheck(h) \/ Stop(h) \/ ManualTick(h)
    BY <1>1, <1>2, <2>1 DEF StartCheck, Stop, ManualTick, history
  <2>2. ASSUME NEW value, SetPaused(h, value) PROVE TicketInv'
    BY <2>2, TicketKept DEF SetPaused, history
  <2> QED BY <1>6, <2>1, <2>2 DEF Control
<1>7. ASSUME NEW l \in Loops, Loop(l) PROVE TicketInv'
  <2>1. CASE LoopTick(l) \/ LoopExit(l) \/ LoopCatch(l)
    BY <1>1, <1>2, <2>1 DEF LoopTick, LoopExit, LoopCatch, history
  <2>2. CASE Tick(l)
    BY <1>1, <2>2, TicketTick
  <2> QED BY <1>7, <2>1, <2>2 DEF Loop
<1>8. CASE UNCHANGED vars
  BY <1>8, TicketKept DEF vars, history
<1> QED BY <1>3, <1>4, <1>5, <1>6, <1>7, <1>8 DEF Next

\* A blocked Invoke is never forgotten: its command is its own, and applied or
\* in a list, whatever throws and however the loop is stopped and started
\* (SimulationRunner.cs:117).
THEOREM InvokeIsKept == ASSUME OneOwner PROVE Spec => []WaitingIsInHand
<1>1. Init => TicketInv
  BY DEF Init, TicketInv, Tickers
<1>2. TypeOK /\ TicketInv /\ [Next]_vars => TicketInv'
  BY TicketStep
<1>3. TicketInv /\ NoCommandLost => WaitingIsInHand
  BY DEF TicketInv, OwnTicket, NoCommandLost, WaitingIsInHand
<1> QED BY <1>1, <1>2, <1>3, TypeCorrect, NothingLost, PTL DEF Spec

\* The only step that ends the wait of an Invoke is its return.
LEMMA OnlyReturnEndsWait ==
  ASSUME TypeOK, [Next]_vars, NEW h \in Hosts, pc[h] = "waiting", pc'[h] # "waiting"
  PROVE  Signalled(ticket[h])
<1>1. h \in Tickers /\ h \notin Loops /\ pc \in [Tickers -> Labels]
  BY ConstantsAssumption DEF Tickers, TypeOK
<1>2. CASE \E t \in Tickers : Tick(t)
  BY <1>1, <1>2 DEF Tick, Swap, Exec, ExecThrows, DrainEnd, Step, StepThrows, Goto
<1>3. CASE \E g \in Hosts : InvokeReturn(g)
  BY <1>1, <1>3 DEF InvokeReturn, Goto
<1>4. CASE \E g \in Hosts : StartSpawn(g)
  <2>1. starts + 1 \in Loops
    <3>1. starts \in Nat /\ starts < MaxStarts /\ MaxStarts \in Nat
      BY <1>4, ConstantsAssumption DEF StartSpawn, TypeOK
    <3> QED BY <3>1 DEF Loops
  <2> QED BY <1>1, <1>4, <2>1 DEF StartSpawn
<1>5. CASE \E g \in Hosts : \/ InvokeInline(g) \/ InvokePost(g) \/ StartFlags(g) \/ StopJoined(g)
                          \/ InvokeCheck(g) \/ Control(g) \/ \E kind \in Kinds : Post(g, kind)
  BY <1>1, <1>5 DEF InvokeInline, InvokePost, StartFlags, StopJoined, InvokeCheck, Control,
     StartCheck, Stop, ManualTick, SetPaused, Post, Goto
<1>6. CASE \E l \in Loops : LoopTick(l) \/ LoopExit(l) \/ LoopCatch(l)
  BY <1>1, <1>6 DEF LoopTick, LoopExit, LoopCatch, Goto
<1>7. CASE UNCHANGED vars
  BY <1>7 DEF vars
<1> QED BY <1>2, <1>3, <1>4, <1>5, <1>6, <1>7, ConstantsAssumption
        DEF Next, Continue, Loop, Tickers

\* A host that posts and then invokes sees its posts applied, as the remark on
\* commands "drained at the START of each Tick, FIFO" has it
\* (SimulationRunner.cs:8).
THEOREM InvokeComesLast == ASSUME OneOwner, NoPoison PROVE Spec => InvokeIsABarrier
<1> DEFINE Barrier == \A h \in Hosts : pc[h] = "waiting" /\ pc'[h] # "waiting"
                        => \A n \in 1..ticket[h] : Signalled(n)
<1>1. TypeOK /\ AppliedInPostOrder /\ [Next]_vars => Barrier
  <2> SUFFICES ASSUME TypeOK, AppliedInPostOrder, [Next]_vars, NEW h \in Hosts,
                      pc[h] = "waiting", pc'[h] # "waiting", NEW n \in 1..ticket[h]
               PROVE  Signalled(n)
    OBVIOUS
  <2>1. PICK k \in 1..Len(applied) : applied[k] = ticket[h]
    BY OnlyReturnEndsWait DEF Signalled
  <2>2. k = ticket[h] /\ Len(applied) \in Nat
    BY <2>1, Lengths DEF AppliedInPostOrder
  <2>3. n \in 1..Len(applied)
    BY <2>2
  <2> QED BY <2>3 DEF AppliedInPostOrder, Signalled
<1>2. TypeOK /\ AppliedInPostOrder /\ [Next]_vars => [Barrier]_vars
  BY <1>1
<1> QED BY <1>2, TypeCorrect, Fifo, PTL DEF Spec, InvokeIsABarrier
=============================================================================
