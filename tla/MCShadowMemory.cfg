SPECIFICATION MCSpec
CONSTANTS
  Record <- MCRecord
  None = None
  Size = 3
  MaxCalls = 4
INVARIANTS
  TypeOK
  Disjoint
  OneReadPerCore
PROPERTIES
  ImplementsBytes
CHECK_DEADLOCK FALSE
