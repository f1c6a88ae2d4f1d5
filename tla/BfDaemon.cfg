CONSTANTS
  p1 = p1
  p2 = p2
  c1 = c1
  c2 = c2
  Proc = {p1, p2}
  Ctl = {c1, c2}
  NoProc = NoProc
  Command = {"run", "terminate", "pause", "controllerStart", "exec", "install", "uninstall"}
  Flags = {}
  Sig = {"TERM", "INT"}
  Calls = 3

SPECIFICATION FairSpec
CHECK_DEADLOCK FALSE
INVARIANT IInv
INVARIANT ListIsLive
INVARIANT OneService
INVARIANT StopSavesAll
PROPERTY StopGoesThrough
PROPERTY CommandsReturn
PROPERTY StopEnds
