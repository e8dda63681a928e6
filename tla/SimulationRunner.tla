------------------------- MODULE SimulationRunner -------------------------
(***************************************************************************)
(* Sim.Core/SimulationRunner.cs: the wrapper that owns the single-threaded *)
(* Engine, a background loop thread, and the command dispatcher hosts use  *)
(* to reach the engine (Post, Invoke).                                     *)
(*                                                                         *)
(* This module is the control side: the two command lists and their swap   *)
(* under _cmdLock, the drain loop with its exceptions, the loop thread's   *)
(* life (Start, Pause, Resume, Stop with its bounded join, the catch of    *)
(* RunLoop) and the calls of the hosts, each split where the code reads a  *)
(* shared field and acts on it later.  What a Tick publishes is the        *)
(* subject of module SnapshotPool.                                         *)
(*                                                                         *)
(* A posted command is the number of its Post: posted[n] is its kind and   *)
(* the host it belongs to.  "plain" returns, "poison" throws, "invoke" is  *)
(* the wrapper Invoke builds, which catches what its function throws.      *)
(***************************************************************************)
EXTENDS Integers, Sequences

CONSTANTS
  Hosts,        \* the host threads that call the runner
  Controllers,  \* those that call Tick, Start, Stop, Pause and Resume
  Invokers,     \* those that call Invoke
  MaxStarts,    \* bound: loop threads created by Start
  MaxPosts,     \* bound: commands posted before no call posts another
  MaxApplied,   \* bound: no manual Tick begins once this many were applied
  Faults,       \* what may throw: "command", "step"
  JoinTimeout   \* TRUE when a Tick may outlast Stop's Join(2000)

Loops == 1..MaxStarts

ASSUME ConstantsAssumption ==
  /\ MaxStarts \in Nat /\ MaxPosts \in Nat /\ MaxApplied \in Nat
  /\ Controllers \subseteq Hosts /\ Invokers \subseteq Hosts
  /\ Faults \subseteq {"command", "step"}
  /\ JoinTimeout \in BOOLEAN
  /\ Hosts \cap Loops = {}

VARIABLES
  running, paused,     \* the volatile flags _running and _paused
  thread,              \* _thread: the loop Start created last, 0 for null
  lastError,           \* LastError is not null
  starts,              \* loop threads created so far
  incoming, draining,  \* the two command lists, of command numbers
  index,               \* index[t]: t's local i in DrainCommands
  pc,                  \* where each host and each loop thread stands
  ticket,              \* ticket[h]: the command a blocked Invoke waits for
  posted,              \* history: every command ever posted, in lock order
  applied              \* history: every command that ran to its end

queues  == <<incoming, draining, index>>
control == <<running, paused, thread, lastError, starts>>
history == <<posted, applied>>
vars == <<queues, control, history, pc, ticket>>

Tickers == Hosts \cup Loops
Kinds   == {"plain", "invoke"} \cup IF "command" \in Faults THEN {"poison"} ELSE {}

Init ==
  /\ running = FALSE /\ paused = FALSE /\ thread = 0
  /\ lastError = FALSE /\ starts = 0
  /\ incoming = <<>> /\ draining = <<>>
  /\ index = [t \in Tickers |-> 1]
  /\ pc = [t \in Tickers |-> IF t \in Loops THEN "unborn" ELSE "idle"]
  /\ ticket = [h \in Hosts |-> 0]
  /\ posted = <<>> /\ applied = <<>>

Goto(t, label) == pc' = [pc EXCEPT ![t] = label]

-----------------------------------------------------------------------------
(* Faulty variants of actions below, one bug each, that the mutation runs  *)
(* put in the place of the faithful ones.                                  *)

\* Start without its test of _running.
StartCheck_NoTest(h) ==
  /\ pc[h] = "idle" /\ starts < MaxStarts
  /\ Goto(h, "starting")
  /\ UNCHANGED <<queues, control, history, ticket>>

\* The drain loop begins one entry early.
Swap_FromZero(t) ==
  /\ pc[t] = "swap"
  /\ incoming' = draining /\ draining' = incoming
  /\ index' = [index EXCEPT ![t] = 0]
  /\ Goto(t, "exec")
  /\ UNCHANGED <<control, history, ticket>>

\* The tick steps after the first command.
Exec_OnePerTick(t) ==
  /\ pc[t] = "exec" /\ index[t] <= Len(draining)
  /\ posted[draining[index[t]]].kind # "poison"
  /\ applied' = Append(applied, draining[index[t]])
  /\ index' = [index EXCEPT ![t] = @ + 1]
  /\ Goto(t, "step")
  /\ UNCHANGED <<incoming, draining, control, posted, ticket>>

\* A finally block that clears the list also when a command throws.
ExecThrows_Clears(t) ==
  /\ pc[t] = "exec" /\ index[t] <= Len(draining)
  /\ posted[draining[index[t]]].kind = "poison"
  /\ draining' = <<>>
  /\ Goto(t, IF t \in Loops THEN "catch" ELSE "idle")
  /\ UNCHANGED <<incoming, index, control, history, ticket>>

\* The drained list is not cleared.
DrainEnd_Keeps(t) ==
  /\ pc[t] = "exec" /\ index[t] > Len(draining)
  /\ Goto(t, "step")
  /\ UNCHANGED <<queues, control, history, ticket>>

\* Both lists are cleared after the drain.
DrainEnd_ClearsBoth(t) ==
  /\ pc[t] = "exec" /\ index[t] > Len(draining)
  /\ draining' = <<>> /\ incoming' = <<>>
  /\ Goto(t, "step")
  /\ UNCHANGED <<index, control, history, ticket>>

\* A new command is put before those that wait.
Enqueue_First(h, kind) ==
  /\ posted' = Append(posted, [kind |-> kind, by |-> h])
  /\ incoming' = <<Len(posted) + 1>> \o incoming

\* The catch of RunLoop stops the loop and keeps the exception to itself.
LoopCatch_Silent(l) ==
  /\ pc[l] = "catch"
  /\ running' = FALSE
  /\ Goto(l, "exited")
  /\ UNCHANGED <<queues, paused, thread, lastError, starts, history, ticket>>

-----------------------------------------------------------------------------
(* Host calls.                                                             *)

\* Post under _cmdLock: one Add to _incoming.
Enqueue(h, kind) ==
  /\ posted' = Append(posted, [kind |-> kind, by |-> h])
  /\ incoming' = Append(incoming, Len(posted) + 1)

Post(h, kind) ==
  /\ pc[h] = "idle" /\ Len(posted) < MaxPosts
  /\ Enqueue(h, kind)
  /\ UNCHANGED <<draining, index, control, applied, pc, ticket>>

\* Invoke reads _running and then either runs on the caller's thread or posts.
\* Its contract: it is not called while the runner is paused.
InvokeCheck(h) ==
  /\ pc[h] = "idle" /\ Len(posted) < MaxPosts
  /\ ~(running /\ paused)
  /\ Goto(h, IF running THEN "enqueue" ELSE "inline")
  /\ UNCHANGED <<queues, control, history, ticket>>

\* func(_engine) on the calling thread.
InvokeInline(h) ==
  /\ pc[h] = "inline"
  /\ Goto(h, "idle")
  /\ UNCHANGED <<queues, control, history, ticket>>

InvokePost(h) ==
  /\ pc[h] = "enqueue"
  /\ Enqueue(h, "invoke")
  /\ ticket' = [ticket EXCEPT ![h] = Len(posted) + 1]
  /\ Goto(h, "waiting")
  /\ UNCHANGED <<draining, index, control, applied>>

\* The wrapper has run exactly when its finally block has set the event.
Signalled(n) == \E k \in 1..Len(applied) : applied[k] = n

\* done.Wait() returns.
InvokeReturn(h) ==
  /\ pc[h] = "waiting" /\ Signalled(ticket[h])
  /\ ticket' = [ticket EXCEPT ![h] = 0]
  /\ Goto(h, "idle")
  /\ UNCHANGED <<queues, control, history>>

\* Start: the test of _running, the flags, and the new thread, in that order.
StartCheck(h) ==
  /\ pc[h] = "idle" /\ ~running /\ starts < MaxStarts
  /\ Goto(h, "starting")
  /\ UNCHANGED <<queues, control, history, ticket>>

StartFlags(h) ==
  /\ pc[h] = "starting"
  /\ lastError' = FALSE /\ running' = TRUE /\ paused' = FALSE
  /\ Goto(h, "spawning")
  /\ UNCHANGED <<queues, thread, starts, history, ticket>>

StartSpawn(h) ==
  /\ pc[h] = "spawning" /\ starts < MaxStarts
  /\ starts' = starts + 1 /\ thread' = starts + 1
  /\ pc' = [pc EXCEPT ![h] = "idle", ![starts + 1] = "loop"]
  /\ UNCHANGED <<queues, running, paused, lastError, history, ticket>>

SetPaused(h, value) ==
  /\ pc[h] = "idle" /\ paused # value
  /\ paused' = value
  /\ UNCHANGED <<queues, running, thread, lastError, starts, history, pc, ticket>>

\* Stop clears _running; with a thread it then joins it for at most 2 s.
Stop(h) ==
  /\ pc[h] = "idle" /\ (running \/ thread # 0)
  /\ running' = FALSE
  /\ Goto(h, "joining")
  /\ UNCHANGED <<queues, paused, thread, lastError, starts, history, ticket>>

StopJoined(h) ==
  /\ pc[h] = "joining"
  /\ thread # 0 => (pc[thread] = "exited" \/ JoinTimeout)
  /\ thread' = 0
  /\ Goto(h, "idle")
  /\ UNCHANGED <<queues, running, paused, lastError, starts, history, ticket>>

\* A controller ticks by hand only in the manual mode, that is while the
\* runner owns no thread.
ManualTick(h) ==
  /\ pc[h] = "idle" /\ thread = 0 /\ ~running /\ Len(applied) < MaxApplied
  /\ Goto(h, "swap")
  /\ UNCHANGED <<queues, control, history, ticket>>

-----------------------------------------------------------------------------
(* RunLoop.  A paused loop sleeps and re-reads its flags: a stutter.       *)

LoopTick(l) ==
  /\ pc[l] = "loop" /\ running /\ ~paused
  /\ Goto(l, "swap")
  /\ UNCHANGED <<queues, control, history, ticket>>

LoopExit(l) ==
  /\ pc[l] = "loop" /\ ~running
  /\ Goto(l, "exited")
  /\ UNCHANGED <<queues, control, history, ticket>>

LoopCatch(l) ==
  /\ pc[l] = "catch"
  /\ lastError' = TRUE /\ running' = FALSE
  /\ Goto(l, "exited")
  /\ UNCHANGED <<queues, paused, thread, starts, history, ticket>>

-----------------------------------------------------------------------------
(* Tick, on a loop thread or on the host that calls it.                    *)

Returned(t) == IF t \in Loops THEN "loop" ELSE "idle"
Thrown(t)   == IF t \in Loops THEN "catch" ELSE "idle"

\* The swap under _cmdLock.
Swap(t) ==
  /\ pc[t] = "swap"
  /\ incoming' = draining /\ draining' = incoming
  /\ index' = [index EXCEPT ![t] = 1]
  /\ Goto(t, "exec")
  /\ UNCHANGED <<control, history, ticket>>

\* _draining[i](_engine) returns.
Exec(t) ==
  /\ pc[t] = "exec" /\ index[t] <= Len(draining)
  /\ posted[draining[index[t]]].kind # "poison"
  /\ applied' = Append(applied, draining[index[t]])
  /\ index' = [index EXCEPT ![t] = @ + 1]
  /\ UNCHANGED <<incoming, draining, control, posted, pc, ticket>>

\* ... or throws: DrainCommands is left as it stands, and so is Tick.
ExecThrows(t) ==
  /\ pc[t] = "exec" /\ index[t] <= Len(draining)
  /\ posted[draining[index[t]]].kind = "poison"
  /\ Goto(t, Thrown(t))
  /\ UNCHANGED <<queues, control, history, ticket>>

DrainEnd(t) ==
  /\ pc[t] = "exec" /\ index[t] > Len(draining)
  /\ draining' = <<>>
  /\ Goto(t, "step")
  /\ UNCHANGED <<incoming, index, control, history, ticket>>

\* _engine.Step(), OnAfterStep and the capture of the snapshot.
Step(t) ==
  /\ pc[t] = "step"
  /\ Goto(t, Returned(t))
  /\ UNCHANGED <<queues, control, history, ticket>>

StepThrows(t) ==
  /\ pc[t] = "step" /\ "step" \in Faults
  /\ Goto(t, Thrown(t))
  /\ UNCHANGED <<queues, control, history, ticket>>

-----------------------------------------------------------------------------
Tick(t) == Swap(t) \/ Exec(t) \/ ExecThrows(t) \/ DrainEnd(t) \/ Step(t) \/ StepThrows(t)

Loop(l) == LoopTick(l) \/ LoopExit(l) \/ LoopCatch(l) \/ Tick(l)

\* The steps by which a call that was begun goes on to its end.
Continue(h) ==
  \/ InvokeInline(h) \/ InvokePost(h) \/ InvokeReturn(h)
  \/ StartFlags(h) \/ StartSpawn(h) \/ StopJoined(h) \/ Tick(h)

Control(h) ==
  \/ StartCheck(h) \/ Stop(h) \/ ManualTick(h)
  \/ \E value \in BOOLEAN : SetPaused(h, value)

Next ==
  \/ \E h \in Hosts : Continue(h)
  \/ \E h \in Hosts, kind \in Kinds \ {"invoke"} : Post(h, kind)
  \/ \E h \in Invokers : InvokeCheck(h)
  \/ \E h \in Controllers : Control(h)
  \/ \E l \in Loops : Loop(l)

\* The operating system schedules every thread that can run, and a call that
\* was begun is not abandoned.  No host is obliged to begin a call.
Fairness ==
  /\ \A l \in Loops : WF_vars(Loop(l))
  /\ \A h \in Hosts : WF_vars(Continue(h))

Spec     == Init /\ [][Next]_vars
FairSpec == Spec /\ Fairness

-----------------------------------------------------------------------------
Labels == {"idle", "starting", "spawning", "joining", "inline", "enqueue",
           "waiting", "unborn", "loop", "swap", "exec", "step", "catch", "exited"}

\* Every variable holds a value of its type, and every command number in a
\* list is that of a posted command.
TypeOK ==
  /\ running \in BOOLEAN /\ paused \in BOOLEAN /\ lastError \in BOOLEAN
  /\ starts \in 0..MaxStarts /\ thread \in 0..starts
  /\ posted \in Seq([kind : {"plain", "invoke", "poison"}, by : Hosts])
  /\ incoming \in Seq(1..Len(posted)) /\ draining \in Seq(1..Len(posted))
  /\ applied \in Seq(1..Len(posted))
  /\ index \in [Tickers -> Nat \ {0}]
  /\ pc \in [Tickers -> Labels]
  /\ ticket \in [Hosts -> 0..Len(posted)]

\* t runs code of the engine: a command, a step, or an Invoke of its own.
OnEngine(t) == pc[t] \in {"exec", "step", "inline"}

\* "The Engine stays single-threaded": no two threads, loop or host, are in
\* the engine at once, although Stop, Start, Invoke and a crash of the loop
\* hand it from one thread to the other through unlocked flags.
EngineSingleThreaded ==
  \A s, t \in Tickers : OnEngine(s) /\ OnEngine(t) => s = t

\* Commands run in the order they were posted, each of them once, whatever the
\* number of posters and whichever thread drains: the double buffer neither
\* repeats, nor skips, nor reorders.
AppliedInPostOrder ==
  \A k \in 1..Len(applied) : applied[k] = k

Entries(list) == {list[k] : k \in 1..Len(list)}

\* A command that was accepted and has not run is still in one of the two
\* lists, also after a command or a step has thrown out of Tick.
NoCommandLost ==
  1..Len(posted) \subseteq Entries(applied) \cup Entries(incoming) \cup Entries(draining)

\* The loop never dies in silence: a host that sees the runner's thread gone
\* without having asked it to stop finds LastError set.
CrashIsObservable ==
  thread # 0 /\ pc[thread] = "exited"
    => \/ lastError
       \/ \E h \in Controllers : pc[h] \in {"joining", "spawning"}

\* An Invoke that waits for its function returns only when everything posted
\* before it, by whichever host, has been applied as well: it is a barrier, and
\* a host that posts and then invokes sees its posts applied.
InvokeIsABarrier ==
  [][\A h \in Hosts : pc[h] = "waiting" /\ pc'[h] # "waiting"
       => \A n \in 1..ticket[h] : Signalled(n)]_vars

\* An Invoke that has posted its function returns: the promise of "blocks
\* until the engine thread applies it at the next boundary".
InvokeReturns ==
  \A h \in Invokers : pc[h] = "waiting" ~> pc[h] # "waiting"

\* A posted command is applied as long as the runner keeps ticking.
PostedIsApplied ==
  \A n \in 1..MaxPosts :
    (n <= Len(posted)) ~> (Signalled(n) \/ ~running \/ paused)

-----------------------------------------------------------------------------
(* The runner implements CommandStream: the tick under way is the one whose *)
(* thread drains or steps, and it owes what is left of its list.            *)

Draining(t) == pc[t] = "exec"

Phase ==
  IF \E t \in Tickers : pc[t] = "step" THEN "stepping"
  ELSE IF \E t \in Tickers : Draining(t) THEN "draining" ELSE "between"

Due ==
  IF \E t \in Tickers : Draining(t)
  THEN LET t == CHOOSE u \in Tickers : Draining(u)
       IN Len(applied) + Len(draining) + 1 - index[t]
  ELSE Len(applied)

Stream == INSTANCE CommandStream
            WITH posted <- Len(posted), phase <- Phase, due <- Due

\* Every behaviour of the dispatcher is one of the abstract command stream:
\* exactly once, in post order, never during a step, and never a tick late.
ImplementsCommandStream == Stream!Spec
=============================================================================
