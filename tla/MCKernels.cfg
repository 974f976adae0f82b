SPECIFICATION Spec
CONSTANTS
  MaxRanges = 4
  IntBits = 4
  MaxChain = 2
  Capacity <- MCCapacity
  Memory <- MCMemory
  Bindings <- MCBindings
  Derivations <- MCDerivations
  Requests <- MCRequests
  Instance = "sound"
INVARIANTS KernelTypeOK ViewsKeepElements RangesExact Footprint ResultMeetsSpec OutsideIndexIsAnError
CHECK_DEADLOCK FALSE
