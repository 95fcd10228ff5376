CONSTANTS
  TxFrames = {f1, f2, control}
  RxFrames = {g1, g2}
  NumRxEntries = 2
  controlFrame = control
  numStrobes = 2
  NULL = NULL
SPECIFICATION MacFairSpec
INVARIANTS
  BufferIsTheClients
PROPERTIES
  ReportsWhatWasSent
  SuccessMeansSent
  EveryFrameIsAnswered
