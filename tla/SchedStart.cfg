CONSTANTS
  Cores = {0}
  StartCore = 0
  MaxThreads = 3
  Prios = {0, 1}
  MaxDepth = 3
SPECIFICATION StartSpec
INVARIANTS BootStaysInFirstSlot
PROPERTIES StartReachesEntries
CHECK_DEADLOCK FALSE
