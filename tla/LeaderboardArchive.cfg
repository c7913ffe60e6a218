SPECIFICATION ArchiveSpec
CONSTANTS
  Archivers = {timer, operator}
  NoBody = NoBody
  MaxPublication = 1
  MaxClock = 2
  MaxCrashes = 2
INVARIANTS
  StoredOnce
PROPERTIES
  AppendOnly
