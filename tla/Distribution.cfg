SPECIFICATION FairSpec
CONSTANTS
  Master = 1
  Slaves = {0, 2}
  HallCalls = {c1, c2}
INVARIANTS
  TypeOK
  CallsCovered
PROPERTIES
  ImplementsCallService
  BusyMasterDistributes
