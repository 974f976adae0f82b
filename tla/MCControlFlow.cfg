SPECIFICATION Spec
CONSTANTS
  Programs <- AllPrograms
  Capacity = 12
  Align = 4
  Poison = 7
  Half = 8
  MaxSteps = 500
  Depth = 3
INVARIANTS
  FlowTypeOK
  NestedOnOwners
  SitesApart
  MeansWhatItSays
  LoopsDoNotExhaust
CHECK_DEADLOCK FALSE
