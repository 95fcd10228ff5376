CONSTANTS
  Frames = {f1, f2, f3}
  QueueSize = 2
  Slots = {s1, s2}
  SpecPoolSize = 1
  FrameKinds <- AllKinds
  Values = {0}
  Timeout = 2
  ClockSize = 6
  MayRefuse = TRUE
  NULL = NULL
SPECIFICATION Spec
SYMMETRY FrameSymmetry
INVARIANTS
  TypeOK
  NothingLeaks
  OneReassemblyPerKey
  StagesMatchFrames
  StaleIsDropped
