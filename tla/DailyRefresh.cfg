SPECIFICATION FairSpec
CONSTANTS
  MaxSession = 3
  Backfilled = 1
  Lookback = 0
  HistoryMax = 2
  Vehicles = {A}
  Cash = Cash
  Listings <- MCListings
  Refresh = Refresh
  Operators = {op}
  ManualKinds = {"recover", "redecide", "override"}
  Serial = TRUE
  MaxManual = 1
  MaxFaults = 1
INVARIANTS
  ChainContinuity
  CardsNeverOvertaken
PROPERTIES
  NeverRewinds
  NoWitnessedSkip
  LedgerCatchesUp
