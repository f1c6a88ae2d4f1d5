CONSTANTS
  c1 = c1
  c2 = c2
  Client = {c1, c2}
  NoClient = NoClient
  Kinds <- ManyKinds
  Number <- SameNumbers
  Calls = 2
  Fails = {"list", "flush"}
  Impatient = {"change", "policyadd"}
  Expires = {c2}
  Killed = {c1}

SPECIFICATION FairSpec
CHECK_DEADLOCK FALSE
INVARIANT RoutesToOpen
INVARIANT AnsweredInTurn
PROPERTY ServerSurvives
PROPERTY ServerComesBack
