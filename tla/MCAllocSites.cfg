SPECIFICATION Spec
CONSTANTS
  Programs <- CarriedPrograms
  Capacity = 12
  Align = 4
  Poison = 7
  Half = 8
  MaxSteps = 500
  Depth = 1
INVARIANT
  MeansWhatItSays
CHECK_DEADLOCK FALSE
