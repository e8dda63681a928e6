--------------------------- MODULE CommandStream ---------------------------
(***************************************************************************)
(* What the dispatcher of Sim.Core/SimulationRunner.cs promises its hosts: *)
(* "a command dispatcher, drained at the START of each Tick, FIFO", which  *)
(* is why an asynchronous run equals a stepped one.  Commands are numbered *)
(* in the order of their posts.                                            *)
(***************************************************************************)
EXTENDS Naturals, Sequences

VARIABLES
  posted,   \* how many commands were posted
  applied,  \* the commands applied, in the order they were
  phase,    \* "between" two ticks, "draining" commands, "stepping" the engine
  due       \* the last command the tick under way must apply

vars == <<posted, applied, phase, due>>

Init == posted = 0 /\ applied = <<>> /\ phase = "between" /\ due = 0

Post ==
  /\ posted' = posted + 1
  /\ UNCHANGED <<applied, phase, due>>

\* A tick takes on every command posted before it begins, and none later.
TickBegin ==
  /\ phase = "between"
  /\ phase' = "draining" /\ due' = posted
  /\ UNCHANGED <<posted, applied>>

Apply ==
  /\ phase = "draining" /\ Len(applied) < due
  /\ applied' = Append(applied, Len(applied) + 1)
  /\ UNCHANGED <<posted, phase, due>>

\* The engine steps only once all of them are applied.
StepBegin ==
  /\ phase = "draining" /\ Len(applied) = due
  /\ phase' = "stepping"
  /\ UNCHANGED <<posted, applied, due>>

StepEnd ==
  /\ phase = "stepping"
  /\ phase' = "between"
  /\ UNCHANGED <<posted, applied, due>>

Next == Post \/ TickBegin \/ Apply \/ StepBegin \/ StepEnd

Spec == Init /\ [][Next]_vars
=============================================================================
