--------------------------- MODULE MCReplication ---------------------------
(* The deployments the runs of Replication look at.                        *)
EXTENDS Replication

\* The queue with recycled vehicle slots, and DDS without.
Deployments == {[dds |-> FALSE, generations |-> 2], [dds |-> TRUE, generations |-> 1]}
Dds         == {[dds |-> TRUE, generations |-> 1]}
DdsRecycled == {[dds |-> TRUE, generations |-> 2]}
=============================================================================
