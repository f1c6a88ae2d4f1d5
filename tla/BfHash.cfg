CONSTANTS
  t1 = t1
  t2 = t2
  e1 = e1
  e2 = e2
  e3 = e3
  b1 = b1
  b2 = b2
  Thread = {t1, t2}
  Entry = {e1, e2}
  Bucket = {b1, b2}
  Key <- MCKey
  Hash <- MCHash
  NoThread = NoThread
  NoKey = NoKey
  NoEntry = NoEntry

SPECIFICATION FairSpec
INVARIANT IInv
INVARIANT ListsWhole
PROPERTY Atomic
PROPERTY CallsReturn
