SPECIFICATION Spec
CONSTANTS
  NumPipes = 3
  Key <- MCKey
  Instr <- MCInstr
  MaxAddr = 3
  CheckSync = TRUE
  CheckRaw = FALSE
  ScanDepth = 2
  MaxMarkers = 3
  MaxIssue = 4
INVARIANTS
  TypeOK
  FlagConservation
  FlagOrder
  ParksOnlyWhenUnset
  LazyMatchesProgramOrder
  MarkersExact
CHECK_DEADLOCK FALSE
