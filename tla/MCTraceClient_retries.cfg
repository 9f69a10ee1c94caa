SPECIFICATION FairSpec
CONSTANTS
  k1 = k1
  k2 = k2
  d1 = d1
  d2 = d2
  d3 = d3
  Calls <- TwoCalls
  Documents <- SomeDocuments
  Leaky <- OneLeaks
  Counts <- UpToCap
  MaxAttempts = 3
  MaxUpdates = 1
  MaxVersion = 2
  MaxFaults = 2
CHECK_DEADLOCK FALSE
INVARIANTS ConflictHasRival
PROPERTIES ClaimsOnce EventuallyAnswered
