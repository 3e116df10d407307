SPECIFICATION FairSpec
CONSTANTS
  a1 = a1
  a2 = a2
  a3 = a3
  a4 = a4
  a5 = a5
  b2 = b2
  b3 = b3
  b4 = b4
  b5 = b5
  c3 = c3
  c4 = c4
  w1 = w1
  w2 = w2
  w3 = w3
  Genesis = Genesis
  None = None
  Blocks <- MCBlocks
  Prev <- MCPrev
  Num <- MCNum
  Wit <- MCWit
  Witnesses = {w1, w2, w3}
  Environments <- Distance
  DefaultSize = 8
  Threshold = 75
INVARIANTS
  TypeOK
  LogAgrees
  BetweenPushes
PROPERTIES
  OpenResumesAtLog
  PushEnds
