CONSTANTS
  ReplyCalls = {"a", "b"}
  Messages = {"m"}
  KeepAliveCount = 1
  Reasons = {"client"}
SPECIFICATION FairSpec
INVARIANTS
  BuckHeld
  WaitersKept
  Framing
PROPERTIES
  DeadAfterCount
  ImplementsRpc
  CallsReturn
  QueuedSent
CHECK_DEADLOCK FALSE
