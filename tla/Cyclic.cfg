CONSTANTS
  Period = 2
  each = each
  second = second
  Tasks <- BothTasks
  Asked <- ZeroAndTwo
  soft = soft
  Loops <- SoftOnly
  LoopPeriod <- TwoLong
  MaxTime = 8
SPECIFICATION Spec
INVARIANTS TypeOK CadenceIsAbsolute CyclesAnswerTheirTick TasksKeepTheirPeriod LongCyclesAreCounted LoopsKeepPace
CHECK_DEADLOCK FALSE
