CONSTANTS
  Cores = {0, 1}
  NumThreads = 3
  Booted = 2
  CoreOf <- RemoteCores
  BasePrio <- ThreeLevels
  Mutexes = {m1}
  TryLockers = {0, 1, 2}
  IrqCores = {0, 1}
SPECIFICATION FairSpec
INVARIANTS TypeOK MutualExclusion BoostJustified
PROPERTIES HolderReachesUnlock
CHECK_DEADLOCK FALSE
