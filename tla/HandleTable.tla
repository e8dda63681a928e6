---------------------------- MODULE HandleTable ----------------------------
(***************************************************************************)
(* What the vehicle table of Sim.Core/Engine.cs promises those who keep    *)
(* vehicle handles, slots and generations apart: a handle "held across a   *)
(* despawn goes stale" (VehicleHandle.cs:10), nothing else makes it so,    *)
(* and it never comes to name another vehicle.  Vehicles are numbered in   *)
(* the order they are built.                                               *)
(***************************************************************************)
EXTENDS Naturals

VARIABLES
  built,    \* how many vehicles were built
  gone,     \* those whose trip is over
  reaches   \* <<n, m>>: a call with the handle of vehicle n is one on vehicle m

vars == <<built, gone, reaches>>

Init == built = 0 /\ gone = {} /\ reaches = {}

\* A new vehicle has a handle of its own; no other handle is touched.
Spawn ==
  /\ built' = built + 1
  /\ reaches' = reaches \cup {<<built + 1, built + 1>>}
  /\ UNCHANGED gone

\* Despawn ends a trip that is not over, and takes away just that handle.
Despawn ==
  \E n \in 1..built \ gone :
    /\ <<n, n>> \in reaches
    /\ gone' = gone \cup {n}
    /\ reaches' = reaches \ {<<n, n>>}
    /\ UNCHANGED built

\* Trips end in traffic, which leaves the handles good.
End ==
  \E S \in SUBSET (1..built) :
    /\ gone' = gone \cup S
    /\ UNCHANGED <<built, reaches>>

Next == Spawn \/ Despawn \/ End

Spec == Init /\ [][Next]_vars
=============================================================================
