SPECIFICATION RaceSpec
CONSTANTS
  Launches <- RaceLaunches
  FlagId = {1, 2}
  Mode = {"ALL"}
  Lock = {1}
  MaxBlocks = 3
  Byte = {1}
  NumPipes = 2
  None = None
INVARIANTS
  RaceTypeOK
  ReportsAreRaces
  ClocksOrderNothingElse
  RacesAreReported
CHECK_DEADLOCK FALSE
