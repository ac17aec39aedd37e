---------------------------- MODULE MCReplicaStore ----------------------------
(***************************************************************************)
(* ReplicaStore for TLC: the threads of one device and one peer are        *)
(* interchangeable within their kind.                                      *)
(***************************************************************************)
EXTENDS ReplicaStoreInvariant

Symmetry == Permutations(Writer) \cup Permutations(Poller)
=============================================================================
