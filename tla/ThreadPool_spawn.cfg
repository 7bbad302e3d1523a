SPECIFICATION Spec
CONSTANTS
  Workers = {w1, w2, w3}
  PrioWorkers = {p1}
  Jobs = {j1, j2, j3}
  PrioJobs = {j2, j3}
  NoJob = NoJob
  MinWorkers0 = 1
  MaxWorkers0 = 3
  PrioWorkers0 = 1
  Params <- NoParams
  MaxSets = 0
INVARIANT SpawnsUpToMax
CHECK_DEADLOCK FALSE
