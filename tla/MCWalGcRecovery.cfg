\* The same instance, asked whether recovery keeps its log.
SPECIFICATION Spec
CONSTANTS
  r1 = r1
  r2 = r2
  NotJoined = NotJoined
  Replicas = {r1, r2}
  Bases = {0, 1}
  MaxLsn = 4
  SegmentSize = 2
SYMMETRY ReplicaSymmetry
INVARIANT RecoveryWalKept
CHECK_DEADLOCK FALSE
