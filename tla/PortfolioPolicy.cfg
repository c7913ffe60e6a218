SPECIFICATION Spec
CONSTANTS
  Tickers <- ETFs
  Family <- FamilyOf
  Theme <- ThemeName
  Multiple <- LeverageOf
  Order <- Listing
  Doubtful = {}
  MaxPerTheme = 2
  MaxPerFamily = 1
  SizedNames = 3
  Unit = 1000
  MaxGross = 1600
  OverlayGross = 2000
  Sessions <- MCSessions
  Overlays <- OverlaySets
  MinDelta = 100
  RankLimit = 2
  Cooldown = 3
  MaxBlocked = 1
  NoAdv <- Unlisted
  None = None
PROPERTIES
  CapsOnTrades
  NoUngatedEntry
  ReEntryIsEarned
