SPECIFICATION Spec
CONSTANTS
  Block = {0, 1}
  Arena = {"gm", "ub0", "ub1"}
  OwnerOf <- MCOwner
  Shared = Shared
  Capacity <- MCCapacity
  Gm = "gm"
  ArgBytes = 1
  Poison = 2
  MaxByte = 2
  LockAt = 0
  DebugCores = {0, Nobody, AIV7}
  Nobody = Nobody
  PatchBytes = 2
  MaxTurns = 3
INVARIANTS
  ReplayShowsMemory
CHECK_DEADLOCK FALSE
