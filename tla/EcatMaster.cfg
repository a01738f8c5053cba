CONSTANTS
  IndexMod = 9
  MaxPolls = 2
  RxRing = 2
  MaxLate = 2
SPECIFICATION EcatSpec
INVARIANTS EcatTypeOK AcceptedIsOwn
PROPERTIES NoStateSkipped CycleGoesOn RecoversAfterLoss
CHECK_DEADLOCK FALSE
