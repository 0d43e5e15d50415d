SPECIFICATION DetectorSpec
CONSTANTS
  Tx = {1, 2, 3}
  r1 = r1
  r2 = r2
  Resource = {r1, r2}
  Mode = {"Shared", "Exclusive"}
  MaxSequence = 3
  StartOrder <- Orders
  Asked <- Requests
  victim_policy = "YoungestTransactionStartOrder"
INVARIANTS MutualExclusion NoLostWakeup LockInv DecisionIsRight
PROPERTIES NoBarging OnlyMembersOpenCircles EveryTransactionEnds
CHECK_DEADLOCK FALSE
