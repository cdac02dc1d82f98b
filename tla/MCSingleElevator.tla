-------------------------- MODULE MCSingleElevator --------------------------
(* Instances of SingleElevator for TLC: three floors and a few orders.     *)
EXTENDS SingleElevator

\* Orders for an end floor, for the middle floor, and one that withdraws everything.
MCHallOrders  == {{}, {<<2, "HallDown">>}, {<<0, "HallUp">>, <<1, "HallDown">>}}
MCCabOrders   == {{<<0, "Cab">>, <<2, "Cab">>}}
MCLightStates == {{}, {<<1, "HallUp">>, <<1, "HallDown">>}}
MCButtonCalls == CabCalls \cup {<<1, "HallUp">>}

\* For the temporal runs: hall orders that come and go at the middle floor.
MCTurningOrders == {{}, {<<1, "HallUp">>}, {<<1, "HallDown">>, <<2, "HallDown">>}}
MCEndCabs       == {<<0, "Cab">>, <<2, "Cab">>}
MCNone          == {}
=============================================================================
