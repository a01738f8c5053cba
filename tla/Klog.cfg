CONSTANTS
  NumCores = 2
  N = 3
  a = a
  b = b
  Entries <- AOrB
  Says <- OneEach
  Budget = 1
  Fields = 2
  NumThreads = 2
  MaxDropped = 1
SPECIFICATION FairSpec
PROPERTIES LogIsFifo PassEnds QuietRingsAreDrained PrintersFinish
CHECK_DEADLOCK FALSE
