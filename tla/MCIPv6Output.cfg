CONSTANTS
  NumSockets = 2
  IcmpClients = {c1, c2}
  Incoming = {x1, x2}
  Nodes <- CompetingNodes
  ForwardedLength = 2
  RoutedLength = 1
  NumInterfaces = 2
  Selectors = {1}
  MaxPieces = 1
SPECIFICATION FairSpec
INVARIANTS
  NothingWaitsForNobody
  ReportsWhatHappened
PROPERTIES
  EveryPacketIsFinished
