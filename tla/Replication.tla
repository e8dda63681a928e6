---------------------------- MODULE Replication ----------------------------
(***************************************************************************)
(* From the engine's snapshots to a viewer's picture of the fleet:         *)
(* Sim.Host/ReplicationPublisher with Sim.Replication/PublishScheduler on  *)
(* one side, a source with its dimensions and sample histories on the      *)
(* other, and between them one of two bindings.  InMemoryReplicationBus is *)
(* a queue.  DDS (Sim.Replication.Dds) has a topic for the lifecycle,      *)
(* reliable and durable, keyed by vehicle index, and one for the frames,   *)
(* best effort, keyed by chunk; both keep the last sample of a key only.   *)
(*                                                                         *)
(* A sample is the step it was taken at.  Where a vehicle is, and whether  *)
(* it has left the dead-reckoned prediction, is traffic and arbitrary.     *)
(***************************************************************************)
EXTENDS Integers, Sequences, FiniteSets, SequencesExt

CONSTANTS
  Indices,      \* vehicle indices
  Setups,       \* what a run may be: its binding, how often an index is given
  MaxInterval,  \* DrErrorPublishPolicy.MaxInterval, in steps
  HistoryCap,   \* samples kept of a vehicle
  MaxPerChunk,  \* records in a chunk of a frame
  MaxStep,      \* bound: steps
  MaxPending    \* bound: no step is published over a longer queue

Handles == [index : Indices, gen : 1..2]

ASSUME SetupAssumption == Setups \subseteq [dds : BOOLEAN, generations : 1..2]
ASSUME BoundAssumption ==
  {MaxInterval, HistoryCap, MaxPerChunk} \subseteq Nat \ {0} /\ {MaxStep, MaxPending} \subseteq Nat

VARIABLES
  setup,     \* the member of Setups this run is
  step,      \* StepCount of the snapshot published last
  given,     \* the last generation seen of each index
  known,     \* _knownVehicles: the handles announced
  lastSent,  \* PublishScheduler._lastSent, the step of the reference
  queue,     \* the entries in the in-memory queue
  life,      \* per index: the last sample of the lifecycle topic
  unread,    \* the indices whose sample the reader has not taken
  frames,    \* per chunk: the frame the reader can take
  pumping,   \* DdsSubscriber.Pump stands between lifecycle and vehicles
  dims,      \* the handles with dimensions and a name
  history    \* per handle: its samples, newest last

engine     == <<step, given>>
publisher  == <<known, lastSent>>
transport  == <<queue, life, unread, frames>>
subscriber == <<pumping, dims, history>>
vars == <<setup, engine, publisher, transport, subscriber>>

Nobody == [n \in {} |-> n]
NoLife == [spawn |-> FALSE, handle |-> [index |-> 0, gen |-> 0]]

Init ==
  /\ setup \in Setups
  /\ step = 0 /\ given = [i \in Indices |-> 0]
  /\ known = {} /\ lastSent = Nobody
  /\ queue = <<>>
  /\ life = [i \in Indices |-> NoLife] /\ unread = {}
  /\ frames = Nobody
  /\ pumping = FALSE /\ dims = {} /\ history = Nobody

-----------------------------------------------------------------------------
(* The engine and ReplicationPublisher.PublishStep.                        *)

\* The fleets the next snapshot may show: of each index one vehicle at most,
\* the one seen last (it may have been off the road in between) or the next.
Fleets ==
  {fleet \in SUBSET Handles :
     /\ \A h \in fleet : /\ h.gen \in {given[h.index], given[h.index] + 1} \cap (1..setup.generations)
     /\ \A a, b \in fleet : a.index = b.index => a = b}

\* ShouldPublish: a first sighting, a prediction that no longer holds
\* (`drifted'), or a heartbeat that is due.
ShouldPublish(fleet, drifted) ==
  {h \in fleet : \/ h \notin DOMAIN lastSent
                 \/ h \in drifted
                 \/ step + 1 - lastSent[h] >= MaxInterval}

\* Every vehicle offered becomes the reference, sent or not.
Rebase_All(fleet, sent) == [h \in fleet |-> step + 1]

\* EndStep does not forget who has left.
Rebase_Keeps(fleet, sent) ==
  [h \in DOMAIN lastSent \cup sent |-> IF h \in sent THEN step + 1 ELSE lastSent[h]]

\* What is sent becomes the reference; EndStep forgets who has left.
Rebase(fleet, sent) ==
  [h \in (DOMAIN lastSent \cup sent) \cap fleet |-> IF h \in sent THEN step + 1 ELSE lastSent[h]]

\* PublishLifecycle: first the new vehicles, then the tombstones.
Lifecycle(fleet) ==
  LET Records(S, spawn) == [k \in 1..Cardinality(S) |-> [spawn |-> spawn, handle |-> SetToSeq(S)[k]]]
  IN Records(fleet \ known, TRUE) \o Records(known \ fleet, FALSE)

\* FrameChunker: the records of a frame, cut into chunks.
Chunks(sent) ==
  LET records == SetToSeq(sent)
      count   == (Len(records) + MaxPerChunk - 1) \div MaxPerChunk
  IN [c \in 1..count |->
        {records[k] : k \in {j \in 1..Len(records) : (j - 1) \div MaxPerChunk = c - 1}}]

\* InMemoryReplicationBus.SinkImpl: everything in one queue.
Enqueue(records, sent) ==
  /\ queue' = queue \o [k \in 1..Len(records) |-> [life |-> {records[k]}, step |-> 0, movers |-> {}]]
                    \o (IF sent = {} THEN <<>> ELSE <<[life |-> {}, step |-> step + 1, movers |-> sent]>>)
  /\ UNCHANGED <<life, unread, frames>>

\* DdsReplicationSink: of each key the topic keeps the sample written last.
Write(records, sent) ==
  LET Of(i)  == {k \in 1..Len(records) : records[k].handle.index = i}
      chunks == Chunks(sent)
  IN /\ life' = [i \in Indices |-> IF Of(i) = {} THEN life[i] ELSE records[Max(Of(i))]]
     /\ unread' = unread \cup {i \in Indices : Of(i) # {}}
     /\ frames' = [c \in DOMAIN frames \cup DOMAIN chunks |->
          IF c \in DOMAIN chunks THEN [step |-> step + 1, movers |-> chunks[c]] ELSE frames[c]]
     /\ UNCHANGED queue

PublishStep ==
  /\ step < MaxStep /\ Len(queue) <= MaxPending
  /\ \E fleet \in Fleets : \E drifted \in SUBSET (fleet \cap known) :
     LET sent == ShouldPublish(fleet, drifted) IN
     /\ IF setup.dds THEN Write(Lifecycle(fleet), sent) ELSE Enqueue(Lifecycle(fleet), sent)
     /\ known' = fleet
     /\ lastSent' = Rebase(fleet, sent)
     /\ given' = [i \in Indices |->
          IF \E h \in fleet : h.index = i THEN (CHOOSE h \in fleet : h.index = i).gen ELSE given[i]]
  /\ step' = step + 1
  /\ UNCHANGED <<setup, subscriber>>

-----------------------------------------------------------------------------
(* The source.  What a topic holds is in flight or waits in the reader: a  *)
(* pump may take any part of it.                                           *)

\* Lifecycle records, no two of one handle: dimensions come and go; with a
\* vehicle goes its history.
Announce(records) ==
  LET gone == {r.handle : r \in {q \in records : ~q.spawn}}
      born == {r.handle : r \in {q \in records : q.spawn}}
  IN /\ dims' = (dims \ gone) \cup born
     /\ history' = Restrict(history, DOMAIN history \ gone)

\* VehicleSampleHistory.Append, for every mover of a frame.
Samples(h) == IF h \in DOMAIN history THEN history[h] ELSE <<>>

\* Nothing is dropped.
Appended_NoDrop(samples, s) == Append(samples, s)

Appended(samples, s) ==
  Append(IF Len(samples) >= HistoryCap THEN Tail(samples) ELSE samples, s)
Record(frame) ==
  history' = [h \in DOMAIN history \cup frame.movers |->
    IF h \in frame.movers THEN Appended(Samples(h), frame.step) ELSE history[h]]

\* InMemoryReplicationBus.PumpCore, one entry.
PumpCore ==
  /\ queue # <<>>
  /\ queue' = Tail(queue)
  /\ IF Head(queue).life # {}
     THEN Announce(Head(queue).life)
     ELSE Record(Head(queue)) /\ UNCHANGED dims
  /\ UNCHANGED <<setup, engine, publisher, life, unread, frames, pumping>>

\* DdsSubscriber.Pump takes what has arrived of the lifecycle ...
PumpLifecycle ==
  /\ setup.dds /\ ~pumping
  /\ pumping' = TRUE
  /\ \E arrived \in SUBSET unread :
       /\ Announce({life[i] : i \in arrived})
       /\ unread' = unread \ arrived
  /\ UNCHANGED <<setup, engine, publisher, queue, life, frames>>

\* A frame is read and left in the reader.
PumpVehicles_Reads ==
  /\ pumping
  /\ \/ /\ pumping' = FALSE
        /\ UNCHANGED <<frames, history>>
     \/ \E c \in DOMAIN frames : Record(frames[c]) /\ UNCHANGED <<pumping, frames>>
  /\ UNCHANGED <<setup, engine, publisher, queue, life, unread, dims>>

\* ... and then, chunk by chunk in no fixed order, of the frames.
PumpVehicles ==
  /\ pumping
  /\ \/ /\ pumping' = FALSE
        /\ UNCHANGED <<frames, history>>
     \/ \E c \in DOMAIN frames :
          /\ Record(frames[c])
          /\ frames' = Restrict(frames, DOMAIN frames \ {c})
          /\ UNCHANGED pumping
  /\ UNCHANGED <<setup, engine, publisher, queue, life, unread, dims>>

\* The transport loses a frame.
LoseFrame ==
  /\ \E c \in DOMAIN frames : frames' = Restrict(frames, DOMAIN frames \ {c})
  /\ UNCHANGED <<setup, engine, publisher, queue, life, unread, subscriber>>

\* The lifecycle topic is volatile, like the frames.
Join_Volatile ==
  /\ setup.dds
  /\ pumping' = FALSE /\ dims' = {} /\ history' = Nobody
  /\ unread' = {}
  /\ frames' = Nobody
  /\ UNCHANGED <<setup, engine, publisher, queue, life>>

\* A viewer starts late, or again: the durable topic offers it the last
\* sample of every index.
Join ==
  /\ setup.dds
  /\ pumping' = FALSE /\ dims' = {} /\ history' = Nobody
  /\ unread' = {i \in Indices : life[i] # NoLife}
  /\ frames' = Nobody
  /\ UNCHANGED <<setup, engine, publisher, queue, life>>

Next == PublishStep \/ PumpCore \/ PumpLifecycle \/ PumpVehicles \/ LoseFrame \/ Join

Spec == Init /\ [][Next]_vars

-----------------------------------------------------------------------------
TypeOK ==
  /\ setup \in Setups /\ step \in 0..MaxStep
  /\ given \in [Indices -> 0..2]
  /\ known \subseteq Handles
  /\ DOMAIN lastSent \subseteq Handles /\ \A h \in DOMAIN lastSent : lastSent[h] \in 1..step
  /\ \A k \in 1..Len(queue) : queue[k].movers \subseteq Handles /\ queue[k].step \in 0..step
  /\ \A i \in Indices : life[i] = NoLife \/ life[i].handle \in Handles
  /\ unread \subseteq Indices
  /\ \A c \in DOMAIN frames : frames[c].movers \subseteq Handles /\ frames[c].step \in 1..step
  /\ pumping \in BOOLEAN /\ dims \subseteq Handles
  /\ DOMAIN history \subseteq Handles
  /\ \A h \in DOMAIN history : history[h] \in Seq(1..step) /\ Len(history[h]) \in 1..HistoryCap

\* "Late joiners get the current fleet": a source that has read every
\* lifecycle record has the dimensions and names of just the vehicles that are
\* on the road, over either binding, however late it came.
DimsFollowTheFleet == queue = <<>> /\ unread = {} => dims = known

\* "Capacity-bounded, NEWEST-LAST ... Ordering is explicit and load-bearing":
\* the samples of a vehicle are in the order they were taken in, none twice.
HistoryNewestLast ==
  \A h \in DOMAIN history : \A k \in 2..Len(history[h]) : history[h][k - 1] < history[h][k]

\* "A despawn is announced exactly once when a previously-known handle drops
\* off the snapshot": a source on the queue that has read all of it has samples
\* of just the vehicles on the road, also of those that were away and are back.
HistoryFollowsTheFleet == ~setup.dds /\ queue = <<>> => DOMAIN history = known

\* "Matches the viewer exactly": the sample such a source extrapolates from is
\* the one the publisher measures the prediction error against, and it is never
\* older than a heartbeat.
ReferenceIsShared ==
  ~setup.dds /\ queue = <<>> =>
    \A h \in known : /\ Last(history[h]) = lastSent[h]
                     /\ step - lastSent[h] < MaxInterval

\* The same of any source: with nothing left to read and no pump under way, a
\* vehicle that has left the road has left the picture.
NoGhost ==
  queue = <<>> /\ unread = {} /\ DOMAIN frames = {} /\ ~pumping => DOMAIN history \subseteq known
=============================================================================
