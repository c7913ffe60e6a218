SPECIFICATION Spec
CONSTANTS
  LastSession = 3
  EndDate = 3
  StartSession = 1
  GateSession = 3
  Segment <- MCSegment
  G1Window = 1
  G1MinDays = 1
  G3MaxNoData = 1
  Moves <- MCMoves
  Identified = {TRUE}
  Anchors = TRUE
  MaxCrashes = 1
INVARIANTS
  EstimateIsHonest
  RowsFollowCards
