------------------------- MODULE MCDeadlockDetector ------------------------
(* An instance of DeadlockDetector for TLC.                                 *)
EXTENDS DeadlockDetector, TLC

CONSTANTS r1, r2

\* The start order is not the order of the ids, and two transactions tie.
Orders == (1 :> 2 @@ 2 :> 1) @@ (3 :> 2)

\* All but two requests: 1 does not read r2 and 3 does not read r1.
Requests == (Tx \X Resource \X Mode)
              \ {<<1, r2, "Shared">>, <<3, r1, "Shared">>}
=============================================================================
