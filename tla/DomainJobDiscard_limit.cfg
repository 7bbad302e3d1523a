SPECIFICATION SpecDiscard
CONSTANTS
  Threads = {t1, t2}
  NoThread = NoThread
  Jobs = {"modify", "destroy"}
  AgentJobs = {}
  AsyncJobs = {"migration_in"}
  Flags = {0}
  PostcopyFailed = 1
  MaxQueuedJobs = 1
  MaxCrashes = 0
  MaxConflicts = 0
  MaxDiscards = 1
SYMMETRY Symmetry
INVARIANTS RefusedOnlyOverLimit
CHECK_DEADLOCK FALSE
