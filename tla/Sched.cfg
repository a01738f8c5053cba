CONSTANTS
  Cores = {0, 1}
  BootCore = 0
  MaxThreads = 3
  Prios = {0, 1}
SPECIFICATION TurnsSpec
INVARIANTS TypeOK CurrentIsPinned ContextsOwned NobodyGoesTwice
PROPERTIES BestThreadsKeepRunning ReturnedThreadsRetire
CHECK_DEADLOCK FALSE
