---------------------------- MODULE MCReplicaFleet ----------------------------
(* Instances of ReplicaFleet for TLC. *)
EXTENDS ReplicaFleet

TwoDevices == 1..2
=============================================================================
