CONSTANTS
  n1 = n1
  n2 = n2
  h1 = h1
  c1 = c1
  kin1 = kin1
  kin2 = kin2
  kout = kout
  kall = kall
  kpol = kpol
  p1 = p1
  Node = {n1, n2}
  Hook = {h1}
  Client = {c1}
  Key = {kin1, kin2, kout, kall, kpol}
  PolicyKey = {kpol}
  ChainOf <- MCChainOf
  Packet = {p1}
  Matches <- MCMatches
  Msg <- MCMsg
  InHead = InHead
  OutHead = OutHead
  NoNode = NoNode
  NoReply = NoReply


SPECIFICATION FairSpec
INVARIANT IInv
INVARIANT HookOnLiveRule
INVARIANT HookOnItsChain
INVARIANT StoreConsistent
PROPERTY AnswerTellsEffect
PROPERTY CallReturns
PROPERTY RetiredIsFreed
