SPECIFICATION Spec
CONSTANTS
  NumFloors = 3
  HallOrders <- MCTurningOrders
  CabOrders <- MCNone
  LightStates <- MCNone
  ButtonCalls <- MCEndCabs
PROPERTY ServedHallCallsReported
