SPECIFICATION Spec
CONSTANTS
  Peers = {peer1, peer2}
  Blocks = {b1, b2, b3, b4, b5, c2, c3}
  Genesis = genesis
  b1 = b1
  b2 = b2
  b3 = b3
  b4 = b4
  b5 = b5
  c2 = c2
  c3 = c3
  peer1 = peer1
  peer2 = peer2
  Prev <- MCPrev
  Invalid = {c3}
  Batch = 3
  MinPrefetch = 2
  MaxPerPeer = 1
  MaxHandled = 1
  MaxPrefetched = 1
  Limits <- MCLimits
INVARIANTS RequestsConsistent OnlyBadPeersBlamed
PROPERTIES SyncFinishes
CHECK_DEADLOCK FALSE
