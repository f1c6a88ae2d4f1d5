CONSTANTS
  u1 = u1
  u2 = u2
  p1 = p1
  p2 = p2
  Cpu = {u1}
  Process = {p1, p2}
  Packets = 4
  NoProcess = NoProcess

SPECIFICATION LogFairSpec
CHECK_DEADLOCK FALSE
INVARIANT LogInOrder
INVARIANT FreedOnce
INVARIANT UnloadQuiet
PROPERTY UnloadEnds
