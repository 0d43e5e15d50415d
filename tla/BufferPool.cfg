CONSTANTS
  Page = {1, 2, 3}
  FrameCount = 2
  MaxPins = 1
  MaxLsn = 2
  Changed = {1, 2}
  Stamped = {2}
  AllocLsn = {1}
SPECIFICATION Spec
INVARIANTS
  TablesAgree
  WalBeforePage
  NoLostUpdate
  FirstDirtyLsnCoversMissing
