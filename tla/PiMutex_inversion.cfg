CONSTANTS
  Cores = {0}
  NumThreads = 2
  Booted = 1
  CoreOf <- PairOnOneCore
  BasePrio <- LowThenHigh
  Mutexes = {m1}
  TryLockers = {}
  IrqCores = {}
SPECIFICATION FairSpec
PROPERTIES UrgentlyAskedIsReleased
CHECK_DEADLOCK FALSE
