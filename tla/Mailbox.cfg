CONSTANTS
  NumCores = 2
  N = 3
  a = a
  b = b
  Messages <- AOrB
  Says <- PTellsQ
  Senders = {"p", "q"}
  CoreOf <- TwoCores
  Links <- TwoLinks
  Receivers = {1}
  MaxDropped = 1
  Reorders = {TRUE, FALSE}
SPECIFICATION FairSpec
INVARIANTS NoSlotShared MessagesIntact
PROPERTIES ImplementsFifo ScanReachesQuietestSource
CHECK_DEADLOCK FALSE
