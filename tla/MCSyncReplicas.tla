--------------------------- MODULE MCSyncReplicas ---------------------------
(* SyncReplicas for TLC: payloads are 1 and 2, ordered as numbers. *)
EXTENDS SyncReplicas, TLC

IsAbove(x, y) == x > y

(* Replicas are interchangeable; only invariants are checked. *)
ReplicaSymmetry == Permutations(Replica)
=============================================================================
