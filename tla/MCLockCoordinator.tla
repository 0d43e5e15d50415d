------------------------- MODULE MCLockCoordinator -------------------------
(* Instances of LockCoordinator and of Savepoints for TLC.  The savepoint   *)
(* stack and the write set of a transaction share no state with the rest,   *)
(* so each of the two specifications is explored from the initial state of  *)
(* the other.                                                               *)
EXTENDS LockCoordinator, Savepoints, TLC

TransactionInit == CoordInit /\ SavepointInit

TransactionNext ==
  \/ CoordNext /\ SavepointInit /\ UNCHANGED savepointVars
  \/ SavepointNext /\ CoordInit /\ last_issued = 0 /\ UNCHANGED coordVars

TransactionSpec ==
  TransactionInit /\ [][TransactionNext]_<<coordVars, savepointVars>>

\* No thread and no name is special.
Interchangeable == Permutations(Thread) \cup Permutations(Name) \cup Permutations(SavepointName)
=============================================================================
