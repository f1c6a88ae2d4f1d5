CONSTANTS
  c1 = c1
  c2 = c2
  Client = {c1, c2}
  NoClient = NoClient
  Kinds <- Changes
  Number <- SameNumbers
  Calls = 2
  Fails = {}
  Impatient = {}
  Expires = {}
  Killed = {}

SPECIFICATION Spec
CHECK_DEADLOCK FALSE
INVARIANT ResponseIsTheCommands
