CONSTANTS
  Frames = {f1, f2}
  QueueSize = 1
  Slots = {s1}
  SpecPoolSize = 2
  FrameKinds <- AnyFragments
  Values = {0, 1}
  Timeout = 1
  ClockSize = 1
  MayRefuse = FALSE
  NULL = NULL
SPECIFICATION FairSpec
INVARIANTS
  DeliveredIsWhole
  NothingLost
  PiecesStayApart
  CompleteIsDelivered
PROPERTIES
  ConflictsAreDropped
  ReceptionResumes
