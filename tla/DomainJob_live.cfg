SPECIFICATION LiveSpec
CONSTANTS
  Threads = {t1, t2, t3}
  NoThread = NoThread
  Jobs = {"modify", "query"}
  AgentJobs = {"modify"}
  AsyncJobs = {"snapshot"}
  Flags = {0}
  PostcopyFailed = 1
  MaxQueuedJobs = 0
  MaxCrashes = 0
  MaxConflicts = 0
  MaxRequests = 2
PROPERTY AllServed
CHECK_DEADLOCK FALSE
