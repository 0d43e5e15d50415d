SPECIFICATION Spec
CONSTANTS
  Stock = 4
  Quantity = {1, 2}
  MaxTx = 3
  MaxCrashes = 2
CHECK_DEADLOCK FALSE
INVARIANT CommittedIsReconstructed
