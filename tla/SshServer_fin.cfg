CONSTANTS
  Pcb = {p1, p2}
  NoPcb = NoPcb
  RxRing = 2
  TxRing = 2
  SndBuf = 1
  Reads = 2
  MaxPackets = 3
SPECIFICATION FairSpec
PROPERTIES HandshakeGivenUp
