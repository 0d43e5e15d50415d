SPECIFICATION Spec
CONSTANTS
  Tx = {t1, t2}
  MaxLsn = 5
INVARIANTS DurableBeforeVisible OneOutcome RefusedOnlyAfterRetry
PROPERTY AckedIsFinal
