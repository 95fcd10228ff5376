CONSTANTS
  Clients = {c1, c2, c3, c4}
  NO_ENTRY = NO_ENTRY
  default_owner_id = default_owner_id
  NO_RES = NO_RES
  Wirings = {"managed", "direct", "simple"}
  ImmediateFrom <- Immediates
SPECIFICATION FairSpec
INVARIANTS
  TypeOK
  OwnerHasDevice
  LineIsServed
  PowerFollowsOwner
PROPERTIES
  ImplementsFcfs
  EveryRequestGranted
