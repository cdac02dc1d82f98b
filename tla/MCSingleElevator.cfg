SPECIFICATION FairSpec
CONSTANTS
  NumFloors = 3
  HallOrders <- MCHallOrders
  CabOrders <- MCCabOrders
  LightStates <- MCLightStates
  ButtonCalls <- MCButtonCalls
CHECK_DEADLOCK TRUE
INVARIANTS
  TypeOK
  CabInShaft
  DoorsOnlyAtFloor
  NeverParksWithWork
  LampsTruthful
  CompletionIsService
  Consistent
PROPERTIES
  CabCallsServed
  CallsLeaveServed
  LiftSafety
