SPECIFICATION FairSpec
CONSTANTS
  Slaves = {s1}
  HallCalls = {c1}
  BufferSize = 2
  MaxMessages = 2
  WireCapacity = 2
INVARIANTS
  TypeOK
  RemembersRecent
  NothingForgotten
  ResendDue
PROPERTIES
  ImplementsReportChannel
  CompletionsSettle
