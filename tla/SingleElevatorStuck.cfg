SPECIFICATION FairSpec
CONSTANTS
  NumFloors = 3
  HallOrders <- MCNone
  CabOrders <- MCNone
  LightStates <- MCNone
  ButtonCalls <- MCEndCabs
PROPERTY StuckDoorReported
