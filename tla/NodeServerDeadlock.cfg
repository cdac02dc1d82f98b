SPECIFICATION Spec
CONSTANTS
  UpdateCapacity = 3
  MaxPeers = 1
INVARIANT NoServerDeadlock
