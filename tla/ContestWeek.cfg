SPECIFICATION Spec
CONSTANTS
  Vehicles = {"HY2", "HY2I", "SS2"}
  Base = "HY2"
  Inverse = "HY2I"
  Candidates = {"HY2", "SS2"}
  Modes = {"close_return", "open_only"}
  LastSession = 3
  WeekEnds = {2}
  EndDate = 3
  Endgame = 1
  Timers = 2
  MaxManual = 2
  MaxFaults = 1
INVARIANTS
  WeekendDecides
PROPERTIES
  CurrentIsHeld
  FadeOnHeldBase
CHECK_DEADLOCK FALSE
