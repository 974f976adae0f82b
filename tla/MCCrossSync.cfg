SPECIFICATION FairSpec
CONSTANTS
  Launches <- SyncLaunches
  FlagId = {1}
  Mode = {"ALL", "ALL_CUBE", "ALL_SUB_VECTOR"}
  Lock = {1}
  MaxBlocks = 3
INVARIANTS
  TypeOK
  NoLostWakeup
  GenuineDeadlock
  RoundRobinFair
  DiagnosisFits
  LockExcludes
PROPERTIES
  SitesImplementRendezvous
  Terminates
CHECK_DEADLOCK FALSE
