SPECIFICATION FairSpec
CONSTANTS
  Workers = {w1, w2}
  PrioWorkers = {p1, p2}
  Jobs = {j1, j2, j3}
  PrioJobs = {j2, j3}
  NoJob = NoJob
  MinWorkers0 = 1
  MaxWorkers0 = 2
  PrioWorkers0 = 1
  Params <- AllParams
  MaxSets = 2
INVARIANTS
  CountersExact
  FirstPrioExact
  NoJobLeftToSleepers
  ShrinkReached
  FreedAlone
PROPERTIES
  JobsRun
  DrainReturns
  PrioJobsStarted
CHECK_DEADLOCK FALSE
