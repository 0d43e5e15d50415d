--------------------------- MODULE MCWalRetention ---------------------------
(***************************************************************************)
(* Instances of WalRetention.  The replicas are interchangeable.           *)
(***************************************************************************)
EXTENDS WalRetention

ReplicaSymmetry == Permutations(Replicas)
=============================================================================
