\* Two replicas, two segments of two records; replicas start at the beginning
\* or from a snapshot in the first segment.
SPECIFICATION Spec
CONSTANTS
  r1 = r1
  r2 = r2
  NotJoined = NotJoined
  Replicas = {r1, r2}
  Bases = {0, 1}
  MaxLsn = 4
  SegmentSize = 2
SYMMETRY ReplicaSymmetry
INVARIANTS
  SafeLsnIsEvidenced
  RemovedWasShipped
CHECK_DEADLOCK FALSE
