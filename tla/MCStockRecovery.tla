-------------------------- MODULE MCStockRecovery --------------------------
(* Instances of StockRecovery, which runs on any durable log, and of        *)
(* FileWal, which implements one, for TLC.  They share no state: each is    *)
(* explored from the initial states of the other.                           *)
EXTENDS FileWal, StockRecovery

SliceInit == Init /\ WalInit

SliceNext ==
  \/ Next /\ WalInit /\ UNCHANGED fileWalVars
  \/ WalNext /\ Init /\ UNCHANGED vars

SliceSpec == SliceInit /\ [][SliceNext]_<<vars, fileWalVars>>
=============================================================================
