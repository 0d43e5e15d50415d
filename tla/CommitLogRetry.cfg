SPECIFICATION Spec
CONSTANTS
  Tx = {t1, t2}
  MaxLsn = 5
INVARIANT RetryIsSafe
