CONSTANTS
  ReplyCalls = {"a", "b"}
  Messages = {}
  KeepAliveCount = 0
  Reasons = {"client"}
SPECIFICATION SilentSpec
PROPERTIES
  CloseReturns
CHECK_DEADLOCK FALSE
