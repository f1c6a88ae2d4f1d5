CONSTANTS
  Op = {"add", "send", "get", "async"}
  MaxCalls = 3
  MaxConn = 3
  MaxRules = 1

SPECIFICATION Spec
CHECK_DEADLOCK FALSE
INVARIANT FramesWhole
INVARIANT OwnAnswer
INVARIANT ListsSafe
