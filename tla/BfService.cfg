CONSTANTS
  in1 = in1
  in2 = in2
  out1 = out1
  pin = pin
  pout = pout
  Rule = {in1, in2, out1}
  Policies <- MCPolicies
  ChainOf <- MCChainOf
  UsersAt = {"off", "running"}
  CrashAt = {"sending", "listing", "running"}
  LossAt = {"sending", "listing", "running"}
  Slow = TRUE
  NoSocket = TRUE
  Changes = 4
  Starts = 3

SPECIFICATION Spec
CHECK_DEADLOCK FALSE
INVARIANT Restored
INVARIANT SavedInputInForce
