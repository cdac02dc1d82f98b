SPECIFICATION FairSpec
CONSTANTS
  Slaves = {s1}
  HallCalls = {c1}
  MaxMessages = 2
  WireCapacity = 1
  TimeoutCapacity = 1
  UpdateCapacity = 1
INVARIANTS
  TypeOK
  OneResendAhead
  OnlyLatestActive
  AcknowledgedIsAccepted
PROPERTIES
  ImplementsOrderChannel
  AssignmentsSettle
