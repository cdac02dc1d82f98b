SPECIFICATION Spec
CONSTANTS
  Master = 1
  Slaves = {0, 2}
  HallCalls = {c1, c2}
INVARIANT BroadcastIsCurrent
