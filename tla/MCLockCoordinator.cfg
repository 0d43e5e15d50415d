SPECIFICATION TransactionSpec
CONSTANTS
  MaxId = 2
  MaxLsn = 2
  Name = {a, b}
  SavepointName = {x, y, z}
  Thread = {t1, t2}
  Resource = {r1}
  Mode = {"Shared", "Exclusive"}
  MaxSequence = 2
  MaxSavepointId = 4
  MaxOrdinal = 5
SYMMETRY Interchangeable
INVARIANTS OnlyOvertakenReturn StatusMirrorsMachine IdsAreFresh MarkersWithinWriteSet
PROPERTIES LocksKeptWhileGrowing OutcomeIsFinal ImplementsNested
CHECK_DEADLOCK FALSE
