SPECIFICATION Spec
CONSTANTS
  N = 2
  Mult <- Leverage
  Capital = 21
  WDen = 20
  WLim = 19
  GLim = 28
  CLim = 1
  FeeNum = 1
  FeeDen = 20
  Carries = TRUE
  Quotes <- AnyRows
  Targets <- Wishes
  Budgets <- Volumes
  MaxSession = 3
CHECK_DEADLOCK FALSE
INVARIANTS
  TypeOK
  Reconciles
  WithinVolume
  NoRoundTrip
PROPERTIES
  PurchasesKeepLimits
