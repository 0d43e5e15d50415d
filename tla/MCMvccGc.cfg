SPECIFICATION GcSpec
CONSTANTS
  Tx = {t1, t2, t3}
  Seeder = seeder
  NoTx = none
  Stock = 2
  Quantity = {1}
  MaxTs = 4
  MaxHeld = 2
SYMMETRY Symmetry
INVARIANTS
  GarbageIsUnseen
  OneLiveChain
  SnapshotsAddUp
PROPERTY
  RepeatableReads
CHECK_DEADLOCK FALSE
