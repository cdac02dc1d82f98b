SPECIFICATION FairSpec
CONSTANTS
  Others = {n1, n2}
  CabCalls = {c1}
  NoNode = NoNode
INVARIANTS
  TypeOK
  BackupKept
PROPERTY OwedCallsReturn
