SPECIFICATION Spec
CONSTANTS
  Threads = {t1, t2, t3}
  NoThread = NoThread
  Jobs = {"modify", "destroy"}
  AgentJobs = {"modify"}
  AsyncJobs = {"migration_in", "backup", "snapshot"}
  Flags = {0}
  PostcopyFailed = 2
  MaxQueuedJobs = 2
  MaxCrashes = 1
  MaxConflicts = 1
SYMMETRY Symmetry
INVARIANTS
  JobExclusive
  AsyncExclusive
  QueueAccounting
  NoLostWakeup
  DestroyNotMasked
  SavedStatus
  RecoveryUndisturbed
  IInv
PROPERTIES
  NoJobOnRemoved
CHECK_DEADLOCK FALSE
