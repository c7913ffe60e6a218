SPECIFICATION UniverseSpec
CONSTANTS
  a = a
  b = b
  Funds <- MCFunds
  LastDate = 4
  Files <- MCFiles
  MaxUnread = 1
  WarmupSessions = 2
  AdvWindow = 2
  Capital = 1
  MinAdv = 1
  Anyone = Anyone
  Sponsors <- MCSponsors
  Filters <- MCFilters
INVARIANTS
  IncrementalIsFull
  LaterRowsInvisible
  BoundedAgrees
