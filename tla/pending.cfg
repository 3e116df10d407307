SPECIFICATION FairSpec
CONSTANTS
  t1 = t1
  t2 = t2
  t3 = t3
  Txs <- MCTxs
  Expiration <- MCExpiration
  RefBlock <- MCRefBlock
  TxSize <- MCTxSize
  Needs <- MCNeeds
  Conflicts <- MCConflicts
  MaxTime = 6
  MaxUntilExpiration = 4
  HeaderSize = 1
  Reserve = 1
  Extras = {1, 4}
  MaxBlockSize = 6
  VotedSizes = {5}
  MaxDelivered = 1
INVARIANTS
  QueueConsistent
  NoReplay
  GeneratedBlockIsValid
PROPERTIES
  NothingLost
  NoneStaysPending
