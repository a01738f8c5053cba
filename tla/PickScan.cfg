CONSTANTS
  Cores = {0, 2}
  Self = 0
  MaxThreads = 4
  Prios = {0, 1}
SPECIFICATION ScanSpec
INVARIANTS OldThreadsNotHidden AnswerIsRunnable
CHECK_DEADLOCK FALSE
