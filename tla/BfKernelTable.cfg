CONSTANTS
  n1 = n1
  n2 = n2
  n3 = n3
  h1 = h1
  c1 = c1
  kin1 = kin1
  kin2 = kin2
  kpol = kpol
  p1 = p1
  Node = {n1, n2, n3}
  Hook = {h1}
  Client = {c1}
  Key = {kin1, kin2, kpol}
  PolicyKey = {kpol}
  ChainOf <- MCChainOf
  Packet = {p1}
  Matches <- MCMatches
  Msg <- MCMsg
  InHead = InHead
  OutHead = OutHead
  NoNode = NoNode
  NoReply = NoReply

SYMMETRY Symm

SPECIFICATION HSpec
PROPERTY TableSpec
