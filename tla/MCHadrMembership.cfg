\* Four nodes, an empty store or one with three members, one operator,
\* three commands and two faults.  A store of three is full of nodes, and of
\* records after two changes.
SPECIFICATION Spec
CONSTANTS
  n1 = n1
  n2 = n2
  n3 = n3
  n4 = n4
  op = op
  Absent = Absent
  Torn = Torn
  Nodes = {n1, n2, n3, n4}
  Operators = {op}
  Lsns = {1, 2}
  Founders = {0, 3}
  HADR_MEMBERSHIP_MAX_NODES = 3
  HADR_MEMBERSHIP_MAX_RECORDS = 10
  MaxCommands = 3
  MaxSkip = 2
  MaxFaults = 2
SYMMETRY NodeSymmetry
INVARIANTS
  AckedSurvives
  MarkerBeforePrimary
  OnePrimaryPerEpoch
  JournalReplaysChanges
CHECK_DEADLOCK FALSE
