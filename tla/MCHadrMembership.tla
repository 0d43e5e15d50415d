-------------------------- MODULE MCHadrMembership --------------------------
(***************************************************************************)
(* Instances of HadrMembership.  The nodes are interchangeable.            *)
(***************************************************************************)
EXTENDS HadrMembership, TLC

NodeSymmetry == Permutations(Nodes)
=============================================================================
