SPECIFICATION FairSpec
CONSTANTS
  Bytes = {b1, b2}
  BufSz = 4
  ValueMax = 3
INVARIANT NoByteWaits
PROPERTIES IsLossyQueue InputHandled
