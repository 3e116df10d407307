SPECIFICATION Spec
CONSTANTS
  initminer = initminer
  w1 = w1
  w2 = w2
  Witnesses = {initminer, w1, w2}
  Rank <- MCRank
  InitMiner = initminer
  MaxVotes = 2
  FirstVotes <- MCFirstVotes
  MaxWitnesses = 2
  MaxVoted = 1
  Lap = 12
  Cycle = 2
  Day = 1
  Window = 3
  MaxMissed = 3
  MaxChanges = 2
  Required = 2
  KnownHardforks = 1
  Versions = {0, 1}
  Ballots <- MCBallots
  MaxClock = 6
  Scenarios <- MCKeys
INVARIANT EnoughWitnesses
CHECK_DEADLOCK FALSE
