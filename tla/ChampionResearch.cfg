SPECIFICATION AdaptiveSpec
CONSTANTS
  a = a
  b = b
  c = c
  None = None
  Tickers <- MCTickers
  Multiple <- MCMultiple
  Rankings <- MCRankings
  Year <- MCYear
  Thresholds <- MCThresholds
  Worlds <- MCWorlds
  RuinAt <- MCRuinAt
  Hurdle = 1
  LossAt <- MCLossAt
  P50Tol = 250
  RuinTol = 250
  MeanTol = 250
  Recent <- MCRecent
  RecentMax = 90
  RuinMax = 20
  Horizon = 2
  Embargo = 2
  MinGap = 4
  NFolds = 2
  MinTrain = 1
  LastSession = 12
  MinDiscordant = 2
  MinYear = 1
  MaxHoles = 2
  Bucket <- MCBucket
  Momentum <- MCMomentum
  MinScenarios = 2
  RuinFloor <- MCRuinFloor
  Bound = 1
  MaxBehind = 3
INVARIANTS
  PurgedLabels
  PairsAreOutOfSample
  PromotionEarned
PROPERTIES
  EvidenceCountedOnce
CHECK_DEADLOCK FALSE
