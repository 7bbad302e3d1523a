SPECIFICATION FairSpec
CONSTANTS
  Options <- MCOptions
  Resumers = {"r1"}
  MaxCrashes = 1
  EarlyCompletion = FALSE
  Overlap = FALSE
INVARIANTS CpusExclusive ForkNeedsLoss GuestKept FinishKeepsJob NoStaleAutoDestroy Answered
PROPERTY JobsEnd
CHECK_DEADLOCK FALSE
