SPECIFICATION Spec
CONSTANTS
  ann = ann  bob = bob  cat = cat  eve = eve  ini = ini  nul = nul  wit = wit
  Null = nul  Self = Self  Producer = bob  Witnesses = {wit}  MaxProxyDepth = 2
  DailyRate = 20  DaysPerYear = 1  BlocksPerDay = 3
  MaxTime = 4  MaxGap = 2
  Amounts = {1, 2}  Signed <- MCSigned  Intervals = 2  IntervalTime = 1  RewardBlocks = 2
  SavingsRate = 20  MaxOrders = 2  Percents = {0, 100}
  Shares = {0, 10, 12, 10000}  NewNames <- MCNewNames  CreationFee = 1  UserRate = 10
  DelegationTime = 2  ReturnTime = 1  DeclineTime = 1
  BurnBlock = 3  InitMiner = ini  InitRep = 10000
  Posts <- MCPosts  NoPost = NoPost  Rshares <- MCRshares  MaxCommentDepth = 2  MaxVoteChanges = 1
  RootInterval = 1  ReplyInterval = 1  VoteInterval = 1  CashoutTime = 2
  SecondCashout = 2  UpvoteLockout = 0  AuctionTime = 2  FirstPayout = 1
  DecayTime = 4  MinPayout = 2  PostRate = 10  CommentRate = 4  VoteRate = 2
  WeightRange = 1000000  HighestBit = 29
  Symbols = {wit, eve}  Rates = {100}  Steps = {1}  EmissionsPerYear = 2  EmissionStart = 1
  Owned = {ann}  Partners = {bob, cat}  NoPartner = NoPartner  TopWitnesses = {cat, wit}  Authorities = {ann, bob}  NoRequest = NoRequest
  UpdateLimit = 0  RecoveryPeriod = 2  RequestPeriod = 1  TrackingStart = 1
  Scenarios <- MCScenarios  Ids = {1}
INVARIANTS TotalsExact NothingOverdue ContentExact RecoverySafe
PROPERTIES LedgerSound StakeExact
CHECK_DEADLOCK FALSE
