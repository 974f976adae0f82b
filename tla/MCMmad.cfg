SPECIFICATION MmadSpec
CONSTANTS
  NumPipes = 4
  Key <- MCKey
  Instr <- MCInstr
  MaxAddr = 1
  CheckSync = TRUE
  CheckRaw = FALSE
  ScanDepth = 2
  MaxMarkers = 3
  MaxIssue = 4
  M = 1
  Mte1 = 2
  Mte2 = 3
  Macro <- MCMacro
INVARIANTS
  MmadTypeOK
  FlagConservation
  FlagOrder
  TilesMatchProgramOrder
  LazyMatchesProgramOrder
  ParksEmptyHanded
CHECK_DEADLOCK FALSE
