SPECIFICATION SliceSpec
CONSTANTS
  Record = {a, b}
  Torn = torn
  MaxLsn = 3
  Stock = 3
  Quantity = {1, 2}
  MaxTx = 3
  MaxCrashes = 2
INVARIANTS
  ReportedSurvives OpenFindsAllClaimed
  PublishedManifestSurvives PublishedIsDurable StockAddsUp RefusedOnlyAfterLateFailure
PROPERTIES ImplementsDurableLog ObservedOutsideFlushSurvives
CHECK_DEADLOCK FALSE
