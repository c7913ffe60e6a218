SPECIFICATION ReplaySpec
CONSTANTS
  a = a
  b = b
  None = None
  Products <- MCProducts
  Asked <- MCAsked
  Worlds <- MCWorlds
  LastSession = 7
  FirstSession = 2
  Horizon = 3
  Lock = 2
  MinHold = 2
  MinGap = 2
  MaxIncidents = 2
INVARIANTS
  FastIsSlow
  OneshotIsRolling
CHECK_DEADLOCK FALSE
