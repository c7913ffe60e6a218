SPECIFICATION SimulationSpec
CONSTANTS
  Vehicles = {"up2", "down2"}
  Longs = {"up2"}
  Gaps = {0, 1}
  IntradayMoves = {1}
  Profiles <- AgentProfiles
  Crowd = 2
  Realized = 2
  Horizon = 3
  Values = {1, 2}
  Listed = 2
INVARIANTS
  FieldIsRanking
  StandingReproduced
CHECK_DEADLOCK FALSE
