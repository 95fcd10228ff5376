CONSTANTS
  Tokens = {0, 1}
  Packets = {1, 2}
  PacketLength <- Lengths
  FrameRoom = 93
  NULL = NULL
  MaxStaged = 2
  Broadcast = bcast
  MaxRetransmissions = 0
  SeqNos = 2
  a1 = a1
  Routes <- AddrsOf
  Frames = {1, 2}
  AllocationFails = FALSE
SPECIFICATION FairSpec
PROPERTIES
  StagedIsTakenUp
