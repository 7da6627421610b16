--------------------------- MODULE MCReplicaStream ---------------------------
(* The configurations replica_*.cfg bound ReplicaStream to two entities. *)
EXTENDS ReplicaStream
==============================================================================
