----------------------------- MODULE MCMvccGc --------------------------------
(* An instance of MvccGc for TLC.                                             *)
EXTENDS MvccGc, TLC

\* Transaction ids are interchangeable: the code only compares them for equality.
Symmetry == Permutations(Tx)
==============================================================================
