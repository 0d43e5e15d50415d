SPECIFICATION CoordSpec
CONSTANTS
  MaxId = 1
  MaxLsn = 1
  Name = {a}
  Thread = {t1, t2}
  Resource = {r1}
  Mode = {"Shared", "Exclusive"}
  MaxSequence = 1
INVARIANT CleanedHoldsNothing
CHECK_DEADLOCK FALSE
