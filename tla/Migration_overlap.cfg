SPECIFICATION Spec
CONSTANTS
  Options <- MCOptions
  Resumers = {"r1"}
  MaxCrashes = 0
  EarlyCompletion = FALSE
  Overlap = TRUE
INVARIANT NoStaleAutoDestroy
CHECK_DEADLOCK FALSE
