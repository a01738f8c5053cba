CONSTANTS
  Cores = {0, 1}
  NumThreads = 3
  CoreOf <- TwoOfThree
  Prio <- Equal
  Initial = 1
  Users = {2}
  Producers = {1}
  Consumers = {0}
  IrqCores = {1}
  MaxCount = 2
SPECIFICATION FairSpec
INVARIANTS TokensConserved
PROPERTIES WaiterIsServed
CHECK_DEADLOCK FALSE
