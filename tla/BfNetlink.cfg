CONSTANTS
  c1 = c1
  c2 = c2
  t1 = t1
  t2 = t2
  all = all
  some = some
  r1 = r1
  r2 = r2
  pin = pin
  pout = pout
  Pattern = {all, some}
  Rule = {r1, r2, pin, pout}
  Listing <- MCListing
  Policies <- MCPolicies
  NULL = NULL
  WILD = WILD
  Client = {c1, c2}
  Thread = {t1, t2}
  Kinds = {"change", "policyadd", "flush", "list"}
  AckEvery = 2
  QueueMax = 4
  Expires = {c1}
  AckExpires = TRUE
  Calls = 2

SPECIFICATION FairSpec
CHECK_DEADLOCK FALSE
INVARIANT OwnAnswer
INVARIANT FullList
INVARIANT NothingLost
INVARIANT FilledOnlyInCall
PROPERTY ThreadsEnd
