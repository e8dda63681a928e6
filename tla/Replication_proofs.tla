------------------------- MODULE Replication_proofs -------------------------
(***************************************************************************)
(* Proofs about Replication over the in-memory queue, for any finite set   *)
(* of vehicles, any number of steps, and histories of any length: what a   *)
(* source that has read all of the queue extrapolates from is what the     *)
(* publisher measures its prediction error against.                        *)
(***************************************************************************)
EXTENDS Replication, FiniteSetTheorems, SequenceTheorems, TLAPS

\* The handles there can be are finitely many.
FiniteFleet == IsFiniteSet(Handles)

-----------------------------------------------------------------------------
(* The sequences of lifecycle records.                                     *)

LEMMA ArrayIsSeq ==
  ASSUME NEW n \in Nat, NEW X, NEW f \in [1..n -> X]
  PROVE  f \in Seq(X) /\ Len(f) = n
<1>1. f \in Seq(X)
  BY SeqDef
<1>2. DOMAIN f = 1..Len(f) /\ Len(f) \in Nat
  BY <1>1, LenProperties
<1> QED BY <1>1, <1>2

\* Listing a finite set names its members, all of them.
LEMMA Listing ==
  ASSUME NEW S, IsFiniteSet(S)
  PROVE  /\ Cardinality(S) \in Nat
         /\ SetToSeq(S) \in [1..Cardinality(S) -> S]
         /\ \A x \in S : \E k \in 1..Cardinality(S) : SetToSeq(S)[k] = x
<1> DEFINE n == Cardinality(S)
<1>1. n \in Nat /\ ExistsBijection(1..n, S)
  BY FS_CardinalityType
<1>2. \E f \in [1..n -> S] : IsInjective(f)
  BY <1>1 DEF ExistsBijection, Bijection, Injection
<1>3. SetToSeq(S) \in [1..n -> S] /\ IsInjective(SetToSeq(S))
  BY <1>2 DEF SetToSeq
<1>4. SetToSeq(S) \in Injection(1..n, S)
  BY <1>3 DEF Injection
<1>5. Cardinality(1..n) = n
  BY <1>1, FS_Interval
<1>6. SetToSeq(S) \in Surjection(1..n, S)
  BY <1>4, <1>5, FS_Injection
<1> QED BY <1>1, <1>3, <1>6 DEF Surjection

Births(fleet)     == {[spawn |-> TRUE, handle |-> h] : h \in fleet \ known}
Tombstones(fleet) == {[spawn |-> FALSE, handle |-> h] : h \in known \ fleet}

\* PublishLifecycle writes a birth of each new vehicle and a tombstone of each
\* that is gone, and nothing else.
LEMMA LifecycleRecords ==
  ASSUME FiniteFleet, known \subseteq Handles, NEW fleet \in SUBSET Handles
  PROVE  /\ Lifecycle(fleet) \in Seq(Births(fleet) \cup Tombstones(fleet))
         /\ \A r \in Births(fleet) \cup Tombstones(fleet) :
              \E k \in 1..Len(Lifecycle(fleet)) : Lifecycle(fleet)[k] = r
<1> DEFINE S == fleet \ known
           T == known \ fleet
           A == [k \in 1..Cardinality(S) |-> [spawn |-> TRUE, handle |-> SetToSeq(S)[k]]]
           B == [k \in 1..Cardinality(T) |-> [spawn |-> FALSE, handle |-> SetToSeq(T)[k]]]
<1>1. IsFiniteSet(S) /\ IsFiniteSet(T)
  BY FS_Subset DEF FiniteFleet
<1>2. Lifecycle(fleet) = A \o B
  BY DEF Lifecycle
<1>3. A \in Seq(Births(fleet)) /\ Len(A) = Cardinality(S)
  <2>1. Cardinality(S) \in Nat /\ A \in [1..Cardinality(S) -> Births(fleet)]
    BY <1>1, Listing DEF Births
  <2> HIDE DEF A, S
  <2> QED BY <2>1, ArrayIsSeq
<1>4. B \in Seq(Tombstones(fleet)) /\ Len(B) = Cardinality(T)
  <2>1. Cardinality(T) \in Nat /\ B \in [1..Cardinality(T) -> Tombstones(fleet)]
    BY <1>1, Listing DEF Tombstones
  <2> HIDE DEF B, T
  <2> QED BY <2>1, ArrayIsSeq
<1>5. \A r \in Births(fleet) : \E k \in 1..Len(A) : A[k] = r
  <2>1. \A h \in S : \E k \in 1..Len(A) : A[k] = [spawn |-> TRUE, handle |-> h]
    BY <1>1, <1>3, Listing
  <2> HIDE DEF A
  <2> QED BY <2>1 DEF Births
<1>6. \A r \in Tombstones(fleet) : \E k \in 1..Len(B) : B[k] = r
  <2>1. \A h \in T : \E k \in 1..Len(B) : B[k] = [spawn |-> FALSE, handle |-> h]
    BY <1>1, <1>4, Listing
  <2> HIDE DEF B
  <2> QED BY <2>1 DEF Tombstones
<1> HIDE DEF A, B
<1>7. A \o B \in Seq(Births(fleet) \cup Tombstones(fleet))
  <2>1. A \in Seq(Births(fleet) \cup Tombstones(fleet)) /\ B \in Seq(Births(fleet) \cup Tombstones(fleet))
    BY <1>3, <1>4
  <2> QED BY <2>1, ConcatProperties
<1>8. /\ \A k \in 1..Len(A) : k \in 1..Len(A \o B) /\ (A \o B)[k] = A[k]
      /\ \A k \in 1..Len(B) : Len(A) + k \in 1..Len(A \o B) /\ (A \o B)[Len(A) + k] = B[k]
  <2>1. A \in Seq(Births(fleet)) /\ B \in Seq(Tombstones(fleet)) /\ Len(A) \in Nat /\ Len(B) \in Nat
    BY <1>3, <1>4
  <2>2. A \in Seq(Births(fleet) \cup Tombstones(fleet)) /\ B \in Seq(Births(fleet) \cup Tombstones(fleet))
    BY <2>1
  <2>3. /\ Len(A \o B) = Len(A) + Len(B)
        /\ \A i \in 1..Len(A) + Len(B) : (A \o B)[i] = IF i <= Len(A) THEN A[i] ELSE B[i - Len(A)]
    BY <2>2, ConcatProperties
  <2>4. \A k \in 1..Len(A) : k \in 1..Len(A) + Len(B) /\ k <= Len(A)
    BY <2>1
  <2>5. \A k \in 1..Len(B) : /\ Len(A) + k \in 1..Len(A) + Len(B)
                             /\ ~(Len(A) + k <= Len(A)) /\ Len(A) + k - Len(A) = k
    BY <2>1
  <2> QED BY <2>3, <2>4, <2>5
<1>9. ASSUME NEW r \in Births(fleet) PROVE \E k \in 1..Len(A \o B) : (A \o B)[k] = r
  BY <1>5, <1>8
<1>10. ASSUME NEW r \in Tombstones(fleet) PROVE \E k \in 1..Len(A \o B) : (A \o B)[k] = r
  BY <1>6, <1>8
<1> QED BY <1>2, <1>7, <1>9, <1>10

-----------------------------------------------------------------------------
(* A queue that is read from the front.  W is what the entries do to one    *)
(* thing the reader keeps: those in its domain leave it with the value W    *)
(* gives, the others leave it alone.  Leads says where a reader that has    *)
(* `now' arrives when it has read all of the queue.                         *)

Settles(q, k, W, v) == \A j \in k + 1..Len(q) : q[j] \in DOMAIN W => W[q[j]] = v

Leads(q, W, now, v) ==
  \/ now = v /\ Settles(q, 0, W, v)
  \/ \E k \in 1..Len(q) : q[k] \in DOMAIN W /\ W[q[k]] = v /\ Settles(q, k, W, v)

\* Entries that leave the thing alone may follow.
LEMMA QuietSuffix ==
  ASSUME NEW E, NEW q \in Seq(E), NEW new \in Seq(E), NEW W, NEW now, NEW v,
         Leads(q, W, now, v), \A k \in 1..Len(new) : new[k] \notin DOMAIN W
  PROVE  Leads(q \o new, W, now, v)
<1> DEFINE r == q \o new
<1>1. /\ Len(q) \in Nat /\ Len(new) \in Nat /\ Len(r) = Len(q) + Len(new)
      /\ \A k \in 1..Len(q) : r[k] = q[k]
      /\ \A k \in Len(q) + 1..Len(r) : r[k] = new[k - Len(q)]
  OBVIOUS
<1> HIDE DEF r
<1>2. \A k \in Len(q) + 1..Len(r) : r[k] \notin DOMAIN W
  BY <1>1
<1>3. \A i \in Nat : Settles(q, i, W, v) => Settles(r, i, W, v)
  <2> SUFFICES ASSUME NEW i \in Nat, Settles(q, i, W, v), NEW j \in i + 1..Len(r), r[j] \in DOMAIN W
               PROVE  W[r[j]] = v
    BY DEF Settles
  <2>1. j \in 1..Len(q) /\ j \in i + 1..Len(q)
    BY <1>1, <1>2
  <2> QED BY <1>1, <2>1 DEF Settles
<1>4. CASE now = v /\ Settles(q, 0, W, v)
  BY <1>3, <1>4 DEF Leads, r
<1>5. ASSUME NEW k \in 1..Len(q), q[k] \in DOMAIN W, W[q[k]] = v, Settles(q, k, W, v)
      PROVE  Leads(r, W, now, v)
  <2>1. k \in Nat /\ k \in 1..Len(r) /\ r[k] = q[k]
    BY <1>1
  <2> QED BY <1>3, <1>5, <2>1 DEF Leads
<1> QED BY <1>4, <1>5 DEF Leads, r

\* What the new entries do last is what counts.
LEMMA LoudSuffix ==
  ASSUME NEW E, NEW q \in Seq(E), NEW new \in Seq(E), NEW W, NEW now, NEW v,
         NEW k \in 1..Len(new), new[k] \in DOMAIN W, W[new[k]] = v, Settles(new, k, W, v)
  PROVE  Leads(q \o new, W, now, v)
<1> DEFINE r == q \o new
           i == Len(q) + k
<1>1. /\ Len(q) \in Nat /\ Len(new) \in Nat /\ Len(r) = Len(q) + Len(new)
      /\ \A j \in Len(q) + 1..Len(r) : r[j] = new[j - Len(q)]
  OBVIOUS
<1> HIDE DEF r
<1>2. i \in 1..Len(r) /\ i - Len(q) = k /\ r[i] = new[k]
  BY <1>1
<1>3. Settles(r, i, W, v)
  <2> SUFFICES ASSUME NEW j \in i + 1..Len(r), r[j] \in DOMAIN W PROVE W[r[j]] = v
    BY DEF Settles
  <2>1. j - Len(q) \in k + 1..Len(new) /\ r[j] = new[j - Len(q)]
    BY <1>1
  <2> QED BY <2>1 DEF Settles
<1> HIDE DEF i
<1> QED BY <1>2, <1>3 DEF Leads, r

\* Reading the first entry brings the reader nearer.
LEMMA ReadEntry ==
  ASSUME NEW E, NEW q \in Seq(E), q # <<>>, NEW W, NEW now, NEW v, Leads(q, W, now, v)
  PROVE  Leads(Tail(q), W, IF Head(q) \in DOMAIN W THEN W[Head(q)] ELSE now, v)
<1> DEFINE r == Tail(q)
           next == IF Head(q) \in DOMAIN W THEN W[Head(q)] ELSE now
<1>1. /\ Len(q) \in Nat \ {0} /\ Len(r) = Len(q) - 1 /\ Head(q) = q[1]
      /\ \A k \in 1..Len(r) : r[k] = q[k + 1]
  OBVIOUS
<1> HIDE DEF r
<1>2. \A i \in Nat : Settles(q, i + 1, W, v) => Settles(r, i, W, v)
  BY <1>1 DEF Settles
<1>3. CASE now = v /\ Settles(q, 0, W, v)
  <2>1. Settles(q, 0 + 1, W, v) /\ next = v
    BY <1>1, <1>3 DEF Settles
  <2> QED BY <1>2, <2>1 DEF Leads, r
<1>4. ASSUME NEW k \in 1..Len(q), q[k] \in DOMAIN W, W[q[k]] = v, Settles(q, k, W, v)
      PROVE  Leads(r, W, next, v)
  <2>1. CASE k = 1
    <3>1. Settles(r, 0, W, v) /\ next = v
      BY <1>1, <1>2, <1>4, <2>1
    <3> HIDE DEF next
    <3> QED BY <3>1 DEF Leads
  <2>2. CASE k # 1
    <3>1. PICK i \in 1..Len(r) : k = i + 1
      BY <1>1, <2>2
    <3>2. Settles(r, i, W, v) /\ r[i] = q[k]
      BY <1>1, <1>2, <1>4, <3>1
    <3> HIDE DEF next
    <3> QED BY <1>4, <3>1, <3>2 DEF Leads
  <2> QED BY <2>1, <2>2
<1> QED BY <1>3, <1>4 DEF Leads, r

-----------------------------------------------------------------------------
(* What PublishStep puts into the queue.                                   *)

Entry ==
  {e \in [life : SUBSET [spawn : BOOLEAN, handle : Handles], step : Nat, movers : SUBSET Handles] :
     IF e.life = {} THEN e.step > 0 ELSE e.movers = {} /\ \E r : e.life = {r}}

Birth(h)     == [spawn |-> TRUE, handle |-> h]
Tombstone(h) == [spawn |-> FALSE, handle |-> h]

\* A birth of each new vehicle and a tombstone of each that is gone, each an
\* entry of its own, and then the frame, unless nobody is sent.
Step(new, fleet, sent) ==
  /\ \A k \in 1..Len(new) :
       \/ \E h \in fleet \ known : new[k].life = {Birth(h)} /\ new[k].movers = {}
       \/ \E h \in known \ fleet : new[k].life = {Tombstone(h)} /\ new[k].movers = {}
       \/ sent # {} /\ k = Len(new)
  /\ \A k \in 1..Len(new) : new[k].step <= step + 1
  /\ sent # {} => Len(new) > 0 /\ new[Len(new)] = [life |-> {}, step |-> step + 1, movers |-> sent]
  /\ \A h \in fleet \ known : \E k \in 1..Len(new) : new[k].life = {Birth(h)}
  /\ \A h \in known \ fleet : \E k \in 1..Len(new) : new[k].life = {Tombstone(h)}

LEMMA Enqueued ==
  ASSUME FiniteFleet, queue \in Seq(Entry), step \in Nat, known \subseteq Handles,
         NEW fleet \in SUBSET Handles, NEW sent \in SUBSET fleet,
         Enqueue(Lifecycle(fleet), sent)
  PROVE  \E new \in Seq(Entry) : queue' = queue \o new /\ Step(new, fleet, sent)
<1> DEFINE R == Lifecycle(fleet)
           A == [k \in 1..Len(R) |-> [life |-> {R[k]}, step |-> 0, movers |-> {}]]
           B == IF sent = {} THEN <<>> ELSE <<[life |-> {}, step |-> step + 1, movers |-> sent]>>
           new == A \o B
<1>1. /\ R \in Seq(Births(fleet) \cup Tombstones(fleet))
      /\ \A r \in Births(fleet) \cup Tombstones(fleet) : \E k \in 1..Len(R) : R[k] = r
  BY LifecycleRecords
<1> HIDE DEF R
<1>2. Len(R) \in Nat /\ \A k \in 1..Len(R) : R[k] \in Births(fleet) \cup Tombstones(fleet)
  BY <1>1
<1>3. \A k \in 1..Len(R) : \/ \E h \in fleet \ known : R[k] = Birth(h)
                           \/ \E h \in known \ fleet : R[k] = Tombstone(h)
  BY <1>2 DEF Births, Tombstones, Birth, Tombstone
<1>4. \A h \in Handles : Birth(h) \in [spawn : BOOLEAN, handle : Handles]
                      /\ Tombstone(h) \in [spawn : BOOLEAN, handle : Handles]
  BY DEF Birth, Tombstone
<1>5. A \in Seq(Entry) /\ Len(A) = Len(R)
  <2>1. \A k \in 1..Len(R) : R[k] \in [spawn : BOOLEAN, handle : Handles]
    BY <1>3, <1>4
  <2>2. \A k \in 1..Len(R) : [life |-> {R[k]}, step |-> 0, movers |-> {}] \in Entry
    BY <2>1 DEF Entry
  <2>3. A \in [1..Len(R) -> Entry]
    BY <2>2
  <2> HIDE DEF A
  <2> QED BY <1>2, <2>3, ArrayIsSeq
<1>6. B \in Seq(Entry) /\ (sent = {} => Len(B) = 0)
      /\ (sent # {} => Len(B) = 1 /\ B[1] = [life |-> {}, step |-> step + 1, movers |-> sent])
  <2>1. sent # {} => [life |-> {}, step |-> step + 1, movers |-> sent] \in Entry
    BY DEF Entry
  <2> QED BY <2>1
<1>7. queue' = queue \o new
  <2>1. queue' = (queue \o A) \o B
    BY DEF Enqueue, R
  <2> HIDE DEF A, B
  <2>2. queue \in Seq(Entry) /\ A \in Seq(Entry) /\ B \in Seq(Entry)
    BY <1>5, <1>6
  <2>3. (queue \o A) \o B = queue \o (A \o B)
    BY <2>2, ConcatAssociative
  <2> QED BY <2>1, <2>3
<1>8. \A k \in 1..Len(R) : A[k].life = {R[k]} /\ A[k].movers = {} /\ A[k].step = 0
  OBVIOUS
<1> HIDE DEF A, B
<1>9. Len(A) \in Nat /\ Len(B) \in Nat
  BY <1>5, <1>6
<1>10. /\ new \in Seq(Entry) /\ Len(new) = Len(A) + Len(B)
       /\ \A i \in 1..Len(A) + Len(B) : new[i] = IF i <= Len(A) THEN A[i] ELSE B[i - Len(A)]
  <2>1. A \in Seq(Entry) /\ B \in Seq(Entry)
    BY <1>5, <1>6
  <2> QED BY <2>1, ConcatProperties
<1> HIDE DEF new
<1>11. \A k \in 1..Len(A) : k \in 1..Len(new) /\ new[k] = A[k]
  <2> TAKE k \in 1..Len(A)
  <2>1. k \in 1..Len(A) + Len(B) /\ k <= Len(A)
    BY <1>9
  <2> QED BY <1>10, <2>1
<1>12. \A k \in 1..Len(new) : k \in 1..Len(A) \/ (sent # {} /\ k = Len(new))
  <2>1. CASE sent = {}
    BY <1>6, <1>9, <1>10, <2>1
  <2>2. CASE sent # {}
    <3>1. Len(new) = Len(A) + 1
      BY <1>6, <1>10, <2>2
    <3> QED BY <1>9, <2>2, <3>1
  <2> QED BY <2>1, <2>2
<1>13. ASSUME sent # {}
       PROVE  Len(new) > 0 /\ new[Len(new)] = [life |-> {}, step |-> step + 1, movers |-> sent]
  <2>1. Len(B) = 1 /\ B[1] = [life |-> {}, step |-> step + 1, movers |-> sent]
    BY <1>6, <1>13
  <2>2. /\ Len(new) = Len(A) + 1 /\ Len(new) \in 1..Len(A) + Len(B)
        /\ ~(Len(new) <= Len(A)) /\ Len(new) - Len(A) = 1
    BY <1>9, <1>10, <2>1
  <2>3. new[Len(new)] = B[1]
    BY <1>10, <2>2
  <2> QED BY <1>9, <2>1, <2>2, <2>3
<1>14. \A k \in 1..Len(A) : new[k].life = {R[k]} /\ new[k].movers = {} /\ new[k].step = 0
  BY <1>5, <1>8, <1>11
<1>15. ASSUME NEW k \in 1..Len(new)
       PROVE  \/ \E h \in fleet \ known : new[k].life = {Birth(h)} /\ new[k].movers = {}
              \/ \E h \in known \ fleet : new[k].life = {Tombstone(h)} /\ new[k].movers = {}
              \/ sent # {} /\ k = Len(new)
  BY <1>3, <1>5, <1>12, <1>14
<1>16. \A r \in Births(fleet) \cup Tombstones(fleet) : \E k \in 1..Len(new) : new[k].life = {r}
  <2> TAKE r \in Births(fleet) \cup Tombstones(fleet)
  <2>1. PICK k \in 1..Len(A) : R[k] = r
    BY <1>1, <1>5
  <2>2. k \in 1..Len(new) /\ new[k].life = {r}
    BY <1>11, <1>14, <2>1
  <2> QED BY <2>2
<1>17. /\ \A h \in fleet \ known : \E k \in 1..Len(new) : new[k].life = {Birth(h)}
       /\ \A h \in known \ fleet : \E k \in 1..Len(new) : new[k].life = {Tombstone(h)}
  BY <1>16 DEF Births, Tombstones, Birth, Tombstone
<1>18. \A k \in 1..Len(new) : new[k].step <= step + 1
  <2> TAKE k \in 1..Len(new)
  <2>1. CASE k \in 1..Len(A)
    BY <1>14, <2>1
  <2>2. CASE sent # {} /\ k = Len(new)
    BY <1>13, <2>2
  <2> QED BY <1>12, <2>1, <2>2
<1> QED BY <1>7, <1>10, <1>13, <1>15, <1>17, <1>18 DEF Step

-----------------------------------------------------------------------------
(* The picture a source ends with.  The properties speak of an empty queue; *)
(* that the picture then is the publisher's can only be kept as a claim     *)
(* about where the queue leads, for each vehicle.                           *)

\* What the entries do to the latest sample of h (0 when it has none) ...
Sampling(h) ==
  [e \in {x \in Entry : h \in x.movers \/ Tombstone(h) \in x.life} |->
     IF h \in e.movers THEN e.step ELSE 0]

\* ... and to its dimensions and name.
Naming(h) ==
  [e \in {x \in Entry : Birth(h) \in x.life \/ Tombstone(h) \in x.life} |->
     IF Birth(h) \in e.life THEN {h} ELSE {}]

Picture(h)   == IF h \in DOMAIN history THEN Last(history[h]) ELSE 0
Reference(h) == IF h \in known THEN lastSent[h] ELSE 0

Published ==
  /\ step \in Nat /\ known \in SUBSET Handles /\ DOMAIN lastSent = known
  /\ \A h \in known : lastSent[h] \in 1..step /\ step - lastSent[h] < MaxInterval

QueueInv ==
  /\ setup \in Setups /\ Published
  /\ ~setup.dds =>
       /\ ~pumping /\ unread = {} /\ DOMAIN frames = {}
       /\ queue \in Seq(Entry)
       /\ dims \subseteq Handles /\ DOMAIN history \subseteq Handles
       /\ \A h \in DOMAIN history : history[h] \in Seq(Nat \ {0}) /\ Len(history[h]) > 0
       /\ \A h \in Handles : Leads(queue, Sampling(h), Picture(h), Reference(h))
       /\ \A h \in Handles : Leads(queue, Naming(h), dims \cap {h}, known \cap {h})

LEMMA LastOfSeq ==
  ASSUME NEW X, NEW s \in Seq(X), Len(s) > 0
  PROVE  Last(s) \in X
BY DEF Last

-----------------------------------------------------------------------------
(* PublishStep.                                                            *)

\* The references of the step: what is sent is sent now, the rest is younger
\* than a heartbeat.
LEMMA PublishedStep ==
  ASSUME Published, NEW fleet \in SUBSET Handles, NEW drifted,
         known' = fleet, step' = step + 1, lastSent' = Rebase(fleet, ShouldPublish(fleet, drifted))
  PROVE  /\ Published'
         /\ ShouldPublish(fleet, drifted) \subseteq fleet
         /\ \A h \in fleet : lastSent'[h] = IF h \in ShouldPublish(fleet, drifted) THEN step + 1 ELSE lastSent[h]
         /\ \A h \in fleet \ ShouldPublish(fleet, drifted) : h \in known
<1> DEFINE sent == ShouldPublish(fleet, drifted)
<1>1. sent \subseteq fleet /\ fleet \ known \subseteq sent
  BY DEF ShouldPublish, Published
<1>2. MaxInterval \in Nat \ {0}
  BY BoundAssumption
<1>3. \A h \in fleet \ sent : step + 1 - lastSent[h] < MaxInterval
  <2> SUFFICES ASSUME NEW h \in fleet \ sent PROVE step + 1 - lastSent[h] < MaxInterval
    OBVIOUS
  <2>1. ~(step + 1 - lastSent[h] >= MaxInterval)
    BY DEF ShouldPublish
  <2>2. step \in Nat /\ lastSent[h] \in Nat
    BY <1>1 DEF Published
  <2> QED BY <1>2, <2>1, <2>2
<1>4. lastSent' = [h \in fleet |-> IF h \in sent THEN step + 1 ELSE lastSent[h]]
  <2>1. (DOMAIN lastSent \cup sent) \cap fleet = fleet
    BY <1>1 DEF Published
  <2> QED BY <2>1 DEF Rebase
<1> HIDE DEF sent
<1>5. \A h \in fleet : lastSent'[h] \in 1..step + 1 /\ step + 1 - lastSent'[h] < MaxInterval
  BY <1>1, <1>2, <1>3, <1>4 DEF Published
<1>6. Published'
  BY <1>4, <1>5 DEF Published
<1> QED BY <1>1, <1>4, <1>6 DEF sent

\* What the entries of a step do to the latest sample of h.
LEMMA SampledStep ==
  ASSUME NEW new \in Seq(Entry), NEW fleet \in SUBSET Handles, NEW sent \in SUBSET fleet,
         Step(new, fleet, sent), NEW h \in Handles
  PROVE  /\ h \in sent =>
              \E k \in 1..Len(new) : /\ new[k] \in DOMAIN Sampling(h)
                                     /\ Sampling(h)[new[k]] = step + 1
                                     /\ Settles(new, k, Sampling(h), step + 1)
         /\ h \in known \ fleet =>
              \E k \in 1..Len(new) : /\ new[k] \in DOMAIN Sampling(h)
                                     /\ Sampling(h)[new[k]] = 0
                                     /\ Settles(new, k, Sampling(h), 0)
         /\ h \notin sent /\ h \notin known \ fleet =>
              \A k \in 1..Len(new) : new[k] \notin DOMAIN Sampling(h)
<1> DEFINE W == Sampling(h)
<1>0. Len(new) \in Nat /\ \A k \in 1..Len(new) : new[k] \in Entry
  OBVIOUS
<1>1. \A e \in Entry : e \in DOMAIN W <=> h \in e.movers \/ Tombstone(h) \in e.life
  BY DEF Sampling
<1>2. \A e \in DOMAIN W : W[e] = IF h \in e.movers THEN e.step ELSE 0
  BY DEF Sampling
<1> HIDE DEF W
<1>3. \A g : Birth(g) # Tombstone(h) /\ (Tombstone(g) = Tombstone(h) => g = h)
  BY DEF Birth, Tombstone
<1>4. ASSUME NEW k \in 1..Len(new), new[k] \in DOMAIN W
      PROVE  \/ h \in known \ fleet /\ W[new[k]] = 0
             \/ h \in sent /\ k = Len(new)
  <2>1. CASE \E g \in fleet \ known : new[k].life = {Birth(g)} /\ new[k].movers = {}
    BY <1>0, <1>1, <1>3, <1>4, <2>1
  <2>2. CASE \E g \in known \ fleet : new[k].life = {Tombstone(g)} /\ new[k].movers = {}
    BY <1>0, <1>1, <1>2, <1>3, <1>4, <2>2
  <2>3. CASE sent # {} /\ k = Len(new)
    <3>1. new[k].movers = sent /\ new[k].life = {}
      BY <2>3 DEF Step
    <3> QED BY <1>0, <1>1, <1>4, <2>3, <3>1
  <2> QED BY <2>1, <2>2, <2>3 DEF Step
<1>5. ASSUME h \in sent
      PROVE  \E k \in 1..Len(new) : /\ new[k] \in DOMAIN W /\ W[new[k]] = step + 1
                                    /\ Settles(new, k, W, step + 1)
  <2>1. Len(new) \in 1..Len(new) /\ new[Len(new)].movers = sent /\ new[Len(new)].step = step + 1
    BY <1>0, <1>5 DEF Step
  <2>2. new[Len(new)] \in DOMAIN W /\ W[new[Len(new)]] = step + 1
    BY <1>0, <1>1, <1>2, <1>5, <2>1
  <2>3. Settles(new, Len(new), W, step + 1)
    BY <1>0 DEF Settles
  <2> QED BY <2>1, <2>2, <2>3
<1>6. ASSUME h \in known \ fleet
      PROVE  \E k \in 1..Len(new) : /\ new[k] \in DOMAIN W /\ W[new[k]] = 0
                                    /\ Settles(new, k, W, 0)
  <2>1. PICK k \in 1..Len(new) : new[k].life = {Tombstone(h)}
    BY <1>6 DEF Step
  <2>2. new[k] \in DOMAIN W
    BY <1>0, <1>1, <2>1
  <2>3. \A j \in 1..Len(new) : new[j] \in DOMAIN W => W[new[j]] = 0
    BY <1>4, <1>6
  <2>4. Settles(new, k, W, 0)
    BY <1>0, <2>3 DEF Settles
  <2> QED BY <2>2, <2>3, <2>4
<1> QED BY <1>4, <1>5, <1>6 DEF W

\* What they do to its dimensions and name.
LEMMA NamedStep ==
  ASSUME NEW new \in Seq(Entry), NEW fleet \in SUBSET Handles, NEW sent \in SUBSET fleet,
         Step(new, fleet, sent), NEW h \in Handles
  PROVE  IF h \in fleet <=> h \in known
         THEN \A k \in 1..Len(new) : new[k] \notin DOMAIN Naming(h)
         ELSE \E k \in 1..Len(new) : /\ new[k] \in DOMAIN Naming(h)
                                     /\ Naming(h)[new[k]] = fleet \cap {h}
                                     /\ Settles(new, k, Naming(h), fleet \cap {h})
<1> DEFINE W == Naming(h)
<1>0. Len(new) \in Nat /\ \A k \in 1..Len(new) : new[k] \in Entry
  OBVIOUS
<1>1. \A e \in Entry : e \in DOMAIN W <=> Birth(h) \in e.life \/ Tombstone(h) \in e.life
  BY DEF Naming
<1>2. \A e \in DOMAIN W : W[e] = IF Birth(h) \in e.life THEN {h} ELSE {}
  BY DEF Naming
<1> HIDE DEF W
<1>3. \A g : /\ Birth(g) # Tombstone(h) /\ (Tombstone(g) = Tombstone(h) => g = h)
             /\ Tombstone(g) # Birth(h) /\ (Birth(g) = Birth(h) => g = h)
  BY DEF Birth, Tombstone
<1>4. ASSUME NEW k \in 1..Len(new), new[k] \in DOMAIN W
      PROVE  W[new[k]] = fleet \cap {h} /\ ~(h \in fleet <=> h \in known)
  <2>1. CASE \E g \in fleet \ known : new[k].life = {Birth(g)} /\ new[k].movers = {}
    <3>1. h \in fleet \ known /\ Birth(h) \in new[k].life
      BY <1>0, <1>1, <1>3, <1>4, <2>1
    <3> QED BY <1>2, <1>4, <3>1
  <2>2. CASE \E g \in known \ fleet : new[k].life = {Tombstone(g)} /\ new[k].movers = {}
    <3>1. h \in known \ fleet /\ Birth(h) \notin new[k].life
      BY <1>0, <1>1, <1>3, <1>4, <2>2
    <3> QED BY <1>2, <1>4, <3>1
  <2>3. CASE sent # {} /\ k = Len(new)
    <3>1. new[k].life = {}
      BY <2>3 DEF Step
    <3> QED BY <1>0, <1>1, <1>4, <3>1
  <2> QED BY <2>1, <2>2, <2>3 DEF Step
<1>5. ASSUME NEW k \in 1..Len(new), new[k] \in DOMAIN W
      PROVE  W[new[k]] = fleet \cap {h} /\ Settles(new, k, W, fleet \cap {h})
  BY <1>0, <1>4, <1>5 DEF Settles
<1>6. ASSUME h \in fleet \ known PROVE \E k \in 1..Len(new) : new[k] \in DOMAIN W
  BY <1>0, <1>1, <1>6 DEF Step
<1>7. ASSUME h \in known \ fleet PROVE \E k \in 1..Len(new) : new[k] \in DOMAIN W
  BY <1>0, <1>1, <1>7 DEF Step
<1> QED BY <1>4, <1>5, <1>6, <1>7 DEF W

LEMMA EnqueueStep ==
  ASSUME FiniteFleet, QueueInv, ~setup.dds, NEW fleet \in SUBSET Handles, NEW drifted,
         known' = fleet, step' = step + 1, lastSent' = Rebase(fleet, ShouldPublish(fleet, drifted)),
         Enqueue(Lifecycle(fleet), ShouldPublish(fleet, drifted)), UNCHANGED <<dims, history>>
  PROVE  /\ queue' \in Seq(Entry)
         /\ \A h \in Handles : Leads(queue, Sampling(h), Picture(h), Reference(h))'
         /\ \A h \in Handles : Leads(queue, Naming(h), dims \cap {h}, known \cap {h})'
<1> DEFINE sent == ShouldPublish(fleet, drifted)
<1>1. /\ queue \in Seq(Entry) /\ step \in Nat /\ known \in SUBSET Handles
      /\ sent \subseteq fleet
      /\ \A h \in fleet : lastSent'[h] = IF h \in sent THEN step + 1 ELSE lastSent[h]
      /\ \A h \in fleet \ sent : h \in known
  BY PublishedStep DEF QueueInv, Published
<1>2. PICK new \in Seq(Entry) : queue' = queue \o new /\ Step(new, fleet, sent)
  <2> HIDE DEF sent
  <2>1. Enqueue(Lifecycle(fleet), sent)
    BY DEF sent
  <2> QED BY <1>1, <2>1, Enqueued
<1> HIDE DEF sent
<1>3. ASSUME NEW h \in Handles PROVE Leads(queue', Sampling(h), Picture(h), Reference(h)')
  <2>1. /\ h \in sent => Reference(h)' = step + 1
        /\ h \in known \ fleet => Reference(h)' = 0
        /\ h \notin sent /\ h \notin known \ fleet => Reference(h)' = Reference(h)
    BY <1>1 DEF Reference
  <2>2. CASE h \in sent
    <3>1. PICK v : v = step + 1
      OBVIOUS
    <3>2. PICK k \in 1..Len(new) : /\ new[k] \in DOMAIN Sampling(h) /\ Sampling(h)[new[k]] = v
                                  /\ Settles(new, k, Sampling(h), v)
      BY <1>1, <1>2, <2>2, <3>1, SampledStep
    <3>3. Leads(queue \o new, Sampling(h), Picture(h), v)
      BY <1>1, <3>2, LoudSuffix
    <3> QED BY <1>2, <2>1, <2>2, <3>1, <3>3
  <2>3. CASE h \in known \ fleet
    <3>1. PICK v : v = 0
      OBVIOUS
    <3>2. PICK k \in 1..Len(new) : /\ new[k] \in DOMAIN Sampling(h) /\ Sampling(h)[new[k]] = v
                                  /\ Settles(new, k, Sampling(h), v)
      BY <1>1, <1>2, <2>3, <3>1, SampledStep
    <3>3. Leads(queue \o new, Sampling(h), Picture(h), v)
      BY <1>1, <3>2, LoudSuffix
    <3> QED BY <1>2, <2>1, <2>3, <3>1, <3>3
  <2>4. CASE h \notin sent /\ h \notin known \ fleet
    <3>1. \A k \in 1..Len(new) : new[k] \notin DOMAIN Sampling(h)
      BY <1>1, <1>2, <2>4, SampledStep
    <3>2. Leads(queue, Sampling(h), Picture(h), Reference(h))
      BY DEF QueueInv
    <3> QED BY <1>1, <1>2, <2>1, <2>4, <3>1, <3>2, QuietSuffix
  <2> QED BY <2>2, <2>3, <2>4
<1>4. ASSUME NEW h \in Handles PROVE Leads(queue', Naming(h), dims \cap {h}, fleet \cap {h})
  <2>1. CASE h \in fleet <=> h \in known
    <3>1. \A k \in 1..Len(new) : new[k] \notin DOMAIN Naming(h)
      BY <1>1, <1>2, <2>1, NamedStep
    <3>2. Leads(queue, Naming(h), dims \cap {h}, known \cap {h}) /\ fleet \cap {h} = known \cap {h}
      BY <2>1 DEF QueueInv
    <3> QED BY <1>1, <1>2, <3>1, <3>2, QuietSuffix
  <2>2. CASE ~(h \in fleet <=> h \in known)
    BY <1>1, <1>2, <2>2, NamedStep, LoudSuffix
  <2> QED BY <2>1, <2>2
<1>5. queue' \in Seq(Entry)
  BY <1>1, <1>2, ConcatProperties
<1>6. ASSUME NEW h \in Handles PROVE Leads(queue, Sampling(h), Picture(h), Reference(h))'
  BY <1>3, <1>6 DEF Leads, Settles, Sampling, Entry, Picture
<1>7. ASSUME NEW h \in Handles PROVE Leads(queue, Naming(h), dims \cap {h}, known \cap {h})'
  <2>1. dims' \cap {h} = dims \cap {h} /\ known' \cap {h} = fleet \cap {h}
    OBVIOUS
  <2>2. Leads(queue', Naming(h), dims' \cap {h}, known' \cap {h})
    BY <1>4, <1>7, <2>1
  <2> QED BY <2>2 DEF Leads, Settles, Naming, Entry
<1> QED BY <1>5, <1>6, <1>7

-----------------------------------------------------------------------------
(* PumpCore, and the invariant.                                            *)

\* A source reads an entry: its histories stay histories, and it does to each
\* vehicle what Sampling and Naming say.
LEMMA EntryApplied ==
  ASSUME NEW e \in Entry,
         \A h \in DOMAIN history : history[h] \in Seq(Nat \ {0}) /\ Len(history[h]) > 0,
         IF e.life # {} THEN Announce(e.life) ELSE Record(e) /\ UNCHANGED dims
  PROVE  /\ DOMAIN history' \subseteq DOMAIN history \cup Handles
         /\ \A h \in DOMAIN history' : history'[h] \in Seq(Nat \ {0}) /\ Len(history'[h]) > 0
         /\ dims' \subseteq dims \cup Handles
         /\ \A h \in Handles :
              /\ Picture(h)' = IF e \in DOMAIN Sampling(h) THEN Sampling(h)[e] ELSE Picture(h)
              /\ dims' \cap {h} = IF e \in DOMAIN Naming(h) THEN Naming(h)[e] ELSE dims \cap {h}
<1>1. CASE e.life # {}
  <2>1. PICK r : e.life = {r} /\ e.movers = {} /\ r \in [spawn : BOOLEAN, handle : Handles]
    BY <1>1 DEF Entry
  <2>2. r = [spawn |-> r.spawn, handle |-> r.handle] /\ r.spawn \in BOOLEAN /\ r.handle \in Handles
    BY <2>1
  <2>3. \A h : /\ Birth(h) \in e.life <=> r.spawn /\ h = r.handle
               /\ Tombstone(h) \in e.life <=> ~r.spawn /\ h = r.handle
    BY <2>1, <2>2 DEF Birth, Tombstone
  <2> DEFINE gone == IF r.spawn THEN {} ELSE {r.handle}
             born == IF r.spawn THEN {r.handle} ELSE {}
  <2>4. {q.handle : q \in {q \in e.life : ~q.spawn}} = gone
    BY <2>1, <2>2
  <2>5. {q.handle : q \in {q \in e.life : q.spawn}} = born
    BY <2>1, <2>2
  <2>6. /\ history' = [h \in DOMAIN history \ gone |-> history[h]]
        /\ dims' = (dims \ gone) \cup born
    BY <1>1, <2>4, <2>5 DEF Announce, Restrict
  <2>7. ASSUME NEW h \in Handles
        PROVE  /\ e \in DOMAIN Sampling(h) <=> h \in gone
               /\ h \in gone => Sampling(h)[e] = 0
               /\ e \in DOMAIN Naming(h) <=> h \in gone \cup born
               /\ h \in gone => Naming(h)[e] = {}
               /\ h \in born => Naming(h)[e] = {h}
    BY <2>1, <2>3 DEF Sampling, Naming
  <2>8. gone \subseteq Handles /\ born \subseteq Handles /\ gone \cap born = {}
    BY <2>2
  <2> HIDE DEF gone, born
  <2>9. ASSUME NEW h \in Handles PROVE Picture(h)' = IF h \in gone THEN 0 ELSE Picture(h)
    <3>1. CASE h \in gone
      BY <2>6, <3>1 DEF Picture
    <3>2. CASE h \notin gone /\ h \in DOMAIN history
      BY <2>6, <3>2 DEF Picture
    <3>3. CASE h \notin DOMAIN history
      BY <2>6, <3>3 DEF Picture
    <3> QED BY <3>1, <3>2, <3>3
  <2>10. ASSUME NEW h \in Handles
         PROVE  dims' \cap {h} = IF h \in gone THEN {} ELSE IF h \in born THEN {h} ELSE dims \cap {h}
    BY <2>6, <2>8
  <2>11. ASSUME NEW h \in Handles
         PROVE  Picture(h)' = IF e \in DOMAIN Sampling(h) THEN Sampling(h)[e] ELSE Picture(h)
    BY <2>7, <2>9
  <2>12. ASSUME NEW h \in Handles
         PROVE  dims' \cap {h} = IF e \in DOMAIN Naming(h) THEN Naming(h)[e] ELSE dims \cap {h}
    BY <2>7, <2>10
  <2>13. dims' \subseteq dims \cup Handles
    BY <2>6, <2>8
  <2> QED BY <2>6, <2>11, <2>12, <2>13
<1>2. CASE e.life = {}
  <2>1. e.step \in Nat \ {0} /\ e.movers \in SUBSET Handles
    BY <1>2 DEF Entry
  <2>2. history' = [h \in DOMAIN history \cup e.movers |->
                      IF h \in e.movers THEN Appended(Samples(h), e.step) ELSE history[h]]
    BY <1>2 DEF Record
  <2>3. ASSUME NEW h
        PROVE  /\ Appended(Samples(h), e.step) \in Seq(Nat \ {0})
               /\ Len(Appended(Samples(h), e.step)) > 0
               /\ Last(Appended(Samples(h), e.step)) = e.step
    <3>1. Samples(h) \in Seq(Nat \ {0})
      BY DEF Samples
    <3>2. PICK t \in Seq(Nat \ {0}) : Appended(Samples(h), e.step) = Append(t, e.step)
      <4>1. CASE Len(Samples(h)) >= HistoryCap
        <5>1. HistoryCap \in Nat \ {0}
          BY BoundAssumption
        <5>2. Samples(h) # <<>>
          BY <3>1, <4>1, <5>1
        <5>3. Tail(Samples(h)) \in Seq(Nat \ {0})
          BY <3>1, <5>2
        <5> QED BY <4>1, <5>3 DEF Appended
      <4>2. CASE ~(Len(Samples(h)) >= HistoryCap)
        BY <3>1, <4>2 DEF Appended
      <4> QED BY <4>1, <4>2
    <3> QED BY <2>1, <3>2 DEF Last
  <2>4. \A h : /\ e \in DOMAIN Sampling(h) <=> h \in e.movers
               /\ h \in e.movers => Sampling(h)[e] = e.step
               /\ e \notin DOMAIN Naming(h)
    BY <1>2 DEF Sampling, Naming
  <2>5. ASSUME NEW h \in Handles
        PROVE  Picture(h)' = IF h \in e.movers THEN e.step ELSE Picture(h)
    <3>1. CASE h \in e.movers
      BY <2>2, <2>3, <3>1 DEF Picture
    <3>2. CASE h \notin e.movers /\ h \in DOMAIN history
      BY <2>2, <3>2 DEF Picture
    <3>3. CASE h \notin e.movers /\ h \notin DOMAIN history
      BY <2>2, <3>3 DEF Picture
    <3> QED BY <3>1, <3>2, <3>3
  <2>6. dims' = dims
    BY <1>2
  <2> QED BY <2>1, <2>2, <2>3, <2>4, <2>5, <2>6
<1> QED BY <1>1, <1>2

LEMMA QueueInit == Init => QueueInv
<1> SUFFICES ASSUME Init PROVE QueueInv
  OBVIOUS
<1>1. Published
  BY DEF Init, Nobody, Published
<1>2. \A h \in Handles : /\ Leads(queue, Sampling(h), Picture(h), Reference(h))
                        /\ Leads(queue, Naming(h), dims \cap {h}, known \cap {h})
  BY DEF Init, Nobody, Leads, Settles, Picture, Reference
<1> QED BY <1>1, <1>2 DEF Init, Nobody, QueueInv

LEMMA QueueStep == ASSUME FiniteFleet, QueueInv, [Next]_vars PROVE QueueInv'
<1>0. setup' = setup
  BY DEF Next, PublishStep, PumpCore, PumpLifecycle, PumpVehicles, LoseFrame, Join, vars
<1>1. CASE PublishStep
  <2>1. PICK fleet, drifted :
          /\ fleet \in SUBSET Handles
          /\ IF setup.dds THEN Write(Lifecycle(fleet), ShouldPublish(fleet, drifted))
                          ELSE Enqueue(Lifecycle(fleet), ShouldPublish(fleet, drifted))
          /\ known' = fleet
          /\ lastSent' = Rebase(fleet, ShouldPublish(fleet, drifted))
    BY <1>1 DEF PublishStep, Fleets
  <2>2. step' = step + 1 /\ UNCHANGED <<pumping, dims, history>>
    BY <1>1 DEF PublishStep, subscriber
  <2>3. Published'
    BY <2>1, <2>2, PublishedStep DEF QueueInv
  <2>4. CASE setup.dds
    BY <1>0, <2>3, <2>4 DEF QueueInv
  <2>5. CASE ~setup.dds
    <3>1. /\ queue' \in Seq(Entry)
          /\ \A h \in Handles : Leads(queue, Sampling(h), Picture(h), Reference(h))'
          /\ \A h \in Handles : Leads(queue, Naming(h), dims \cap {h}, known \cap {h})'
      BY <2>1, <2>2, <2>5, EnqueueStep
    <3>2. frames' = frames /\ unread' = unread
      BY <2>1, <2>5 DEF Enqueue
    <3> QED BY <1>0, <2>2, <2>3, <2>5, <3>1, <3>2 DEF QueueInv
  <2> QED BY <2>4, <2>5
<1>2. ASSUME ~PublishStep PROVE Published' /\ UNCHANGED <<known, lastSent>>
  <2>1. UNCHANGED <<step, known, lastSent>>
    BY <1>2 DEF Next, PumpCore, PumpLifecycle, PumpVehicles, LoseFrame, Join, vars, engine, publisher
  <2> QED BY <2>1 DEF QueueInv, Published
<1>3. CASE setup.dds /\ ~PublishStep
  BY <1>0, <1>2, <1>3 DEF QueueInv
<1>4. CASE ~setup.dds /\ PumpCore
  <2>0. ~PublishStep
    <3>1. step' = step /\ step \in Nat
      BY <1>4 DEF PumpCore, engine, QueueInv, Published
    <3> QED BY <3>1 DEF PublishStep
  <2>1. /\ queue # <<>> /\ queue' = Tail(queue) /\ UNCHANGED <<frames, pumping, unread>>
        /\ queue \in Seq(Entry) /\ Head(queue) \in Entry
    BY <1>4, HeadTailProperties DEF PumpCore, QueueInv
  <2>2. IF Head(queue).life # {} THEN Announce(Head(queue).life) ELSE Record(Head(queue)) /\ UNCHANGED dims
    BY <1>4 DEF PumpCore
  <2>3. /\ DOMAIN history' \subseteq Handles /\ dims' \subseteq Handles
        /\ \A h \in DOMAIN history' : history'[h] \in Seq(Nat \ {0}) /\ Len(history'[h]) > 0
        /\ \A h \in Handles :
             /\ Picture(h)' = IF Head(queue) \in DOMAIN Sampling(h) THEN Sampling(h)[Head(queue)] ELSE Picture(h)
             /\ dims' \cap {h} = IF Head(queue) \in DOMAIN Naming(h) THEN Naming(h)[Head(queue)] ELSE dims \cap {h}
    BY <1>4, <2>1, <2>2, EntryApplied DEF QueueInv
  <2>4. ASSUME NEW h \in Handles PROVE Leads(queue, Sampling(h), Picture(h), Reference(h))'
    <3>1. Leads(Tail(queue), Sampling(h), Picture(h)', Reference(h))
      BY <1>4, <2>1, <2>3, ReadEntry DEF QueueInv
    <3>2. Reference(h)' = Reference(h)
      BY <1>2, <2>0 DEF Reference
    <3>3. Leads(queue', Sampling(h), Picture(h)', Reference(h)')
      BY <2>1, <3>1, <3>2
    <3> QED BY <3>3 DEF Leads, Settles, Sampling, Entry
  <2>5. ASSUME NEW h \in Handles PROVE Leads(queue, Naming(h), dims \cap {h}, known \cap {h})'
    <3>0. Leads(queue, Naming(h), dims \cap {h}, known \cap {h})
      BY <1>4 DEF QueueInv
    <3>1. Leads(Tail(queue), Naming(h), dims' \cap {h}, known \cap {h})
      <4>1. PICK now, v, next : now = dims \cap {h} /\ v = known \cap {h} /\ next = dims' \cap {h}
        OBVIOUS
      <4>2. next = IF Head(queue) \in DOMAIN Naming(h) THEN Naming(h)[Head(queue)] ELSE now
        BY <2>3, <4>1
      <4>3. Leads(Tail(queue), Naming(h), next, v)
        BY <2>1, <3>0, <4>1, <4>2, ReadEntry
      <4> QED BY <4>1, <4>3
    <3>2. Leads(queue', Naming(h), dims' \cap {h}, known' \cap {h})
      BY <1>2, <2>0, <2>1, <3>1
    <3> QED BY <3>2 DEF Leads, Settles, Naming, Entry
  <2>6. queue' \in Seq(Entry)
    BY <2>1
  <2> QED BY <1>0, <1>2, <1>4, <2>0, <2>1, <2>3, <2>4, <2>5, <2>6 DEF QueueInv
<1>5. CASE ~setup.dds /\ ~PublishStep /\ ~PumpCore
  <2>1. UNCHANGED <<queue, frames, pumping, unread, dims, history>>
    BY <1>5 DEF Next, PumpLifecycle, PumpVehicles, LoseFrame, Join, vars, transport, subscriber, QueueInv
  <2>2. \A h \in Handles : /\ Leads(queue, Sampling(h), Picture(h), Reference(h))'
                          /\ Leads(queue, Naming(h), dims \cap {h}, known \cap {h})'
    <3> TAKE h \in Handles
    <3>1. /\ Leads(queue, Sampling(h), Picture(h), Reference(h))
          /\ Leads(queue, Naming(h), dims \cap {h}, known \cap {h})
      BY <1>5 DEF QueueInv
    <3>2. Leads(queue, Sampling(h), Picture(h), Reference(h))'
      <4>1. Picture(h)' = Picture(h) /\ Reference(h)' = Reference(h) /\ queue' = queue
        BY <1>2, <1>5, <2>1 DEF Picture, Reference
      <4>2. Leads(queue', Sampling(h), Picture(h)', Reference(h)')
        BY <3>1, <4>1
      <4> QED BY <4>2 DEF Leads, Settles, Sampling, Entry
    <3>3. Leads(queue, Naming(h), dims \cap {h}, known \cap {h})'
      <4>1. dims' = dims /\ known' = known /\ queue' = queue
        BY <1>2, <1>5, <2>1
      <4>2. Leads(queue', Naming(h), dims' \cap {h}, known' \cap {h})
        BY <3>1, <4>1
      <4> QED BY <4>2 DEF Leads, Settles, Naming, Entry
    <3> QED BY <3>2, <3>3
  <2> QED BY <1>0, <1>2, <1>5, <2>1, <2>2 DEF QueueInv
<1> QED BY <1>1, <1>3, <1>4, <1>5

\* With the queue read, the picture is the publisher's.
LEMMA QueueRead ==
  ASSUME QueueInv, ~setup.dds, queue = <<>>, NEW h \in Handles
  PROVE  Picture(h) = Reference(h) /\ dims \cap {h} = known \cap {h}
<1>1. /\ Leads(queue, Sampling(h), Picture(h), Reference(h))
      /\ Leads(queue, Naming(h), dims \cap {h}, known \cap {h})
  BY DEF QueueInv
<1>2. \A W, now, v : Leads(queue, W, now, v) => now = v
  BY DEF Leads
<1> QED BY <1>1, <1>2

\* A source that has read all of the queue has samples of just the vehicles on
\* the road.
THEOREM FollowsTheFleet == ASSUME FiniteFleet PROVE Spec => []HistoryFollowsTheFleet
<1>1. QueueInv => HistoryFollowsTheFleet
  <2> SUFFICES ASSUME QueueInv, ~setup.dds, queue = <<>>
               PROVE  DOMAIN history = known
    BY DEF HistoryFollowsTheFleet
  <2>1. \A h \in Handles : h \in known <=> Reference(h) # 0
    BY DEF QueueInv, Published, Reference
  <2>2. \A h \in Handles : h \in DOMAIN history <=> Picture(h) # 0
    BY LastOfSeq DEF QueueInv, Picture
  <2> QED BY <2>1, <2>2, QueueRead DEF QueueInv, Published
<1> QED BY <1>1, QueueInit, QueueStep, PTL DEF Spec

\* What such a source extrapolates from is the publisher's own reference, and
\* never older than a heartbeat.
THEOREM SharedReference == ASSUME FiniteFleet PROVE Spec => []ReferenceIsShared
<1>1. QueueInv => ReferenceIsShared
  <2> SUFFICES ASSUME QueueInv, ~setup.dds, queue = <<>>, NEW h \in known
               PROVE  Last(history[h]) = lastSent[h] /\ step - lastSent[h] < MaxInterval
    BY DEF ReferenceIsShared
  <2>1. h \in Handles /\ lastSent[h] \in 1..step /\ step - lastSent[h] < MaxInterval
    BY DEF QueueInv, Published
  <2>2. Picture(h) = lastSent[h] /\ lastSent[h] # 0
    BY <2>1, QueueRead DEF Reference
  <2> QED BY <2>1, <2>2 DEF Picture
<1> QED BY <1>1, QueueInit, QueueStep, PTL DEF Spec
=============================================================================
