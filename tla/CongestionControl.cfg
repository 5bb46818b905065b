SPECIFICATION FairSpec
CONSTANTS
  Strategies = {"tcp", "aggressive", "delay", "vegas"}
  CWND_MIN = 1
  CWND_MAX = 4
  UintModulus = 1000
  MaxSeq = 5
INVARIANT TypeOK
INVARIANT WindowInRange
INVARIANT MarkCounted
INVARIANT InflightExact
PROPERTY OneCutPerFlight
PROPERTY NeverStuck
CHECK_DEADLOCK FALSE
PROPERTY KeepsContract
