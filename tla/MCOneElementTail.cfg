SPECIFICATION Spec
CONSTANTS
  MaxRanges = 4
  IntBits = 4
  MaxChain = 2
  Capacity <- MCCapacity
  Memory <- MCMemory
  Bindings <- MCBindings
  Derivations <- MCDerivations
  Requests <- MCRequests
  Instance = "tails"
INVARIANT PadsOutsideTheSource
CHECK_DEADLOCK FALSE
