CONSTANTS
  TxFrames = {f1, f2, control}
  RxFrames = {g1}
  NumRxEntries = 2
  controlFrame = control
  numStrobes = 2
  NULL = NULL
SPECIFICATION MacSpec
INVARIANT
  NothingUnexpected
