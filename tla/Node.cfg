SPECIFICATION FairSpec
CONSTANTS
  UpdateCapacity = 1
  MaxPeers = 1
INVARIANTS
  TypeOK
  TransmittersFollowMode
PROPERTIES
  ImplementsNodeRoles
  SendersAreHeard
  HandlersEnd
