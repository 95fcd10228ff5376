CONSTANTS
  TxFrames = {f1, f2}
  RxFrames = {g1}
  NumRxEntries = 2
  NULL = NULL
SPECIFICATION Spec
INVARIANT
  RXDoneCheckHolds
