SPECIFICATION SpecDiscard
CONSTANTS
  Threads = {t1, t2}
  NoThread = NoThread
  Jobs = {"modify", "destroy"}
  AgentJobs = {}
  AsyncJobs = {"migration_in", "snapshot"}
  Flags = {0, 1}
  PostcopyFailed = 1
  MaxQueuedJobs = 0
  MaxCrashes = 1
  MaxConflicts = 1
  MaxDiscards = 1
SYMMETRY Symmetry
INVARIANTS SavedStatus SavedFlags
CHECK_DEADLOCK FALSE
