SPECIFICATION FairSpec
CONSTANTS
  Nodes = {1, 2, 3}
  DecisionTicks = 4
  ContactTicks = 4
  MaxFaults = 2
PROPERTY OneMasterInTheEnd
