--------------------------- MODULE SingleElevator ---------------------------
(***************************************************************************)
(* One elevator: the state machine of elevator_fsm.go driven by the select *)
(* loop of singleelevator/elevatorprogram.go, against the hardware         *)
(* (elevator/elevio.go) and against the node it belongs to.                *)
(*                                                                         *)
(* ElevatorProgram is one goroutine.  It serves a select case only when    *)
(* the previous one is finished: no call of an order is left to apply      *)
(* (todo = {}) and no event is waiting for the node to take it             *)
(* (toNode = {}; the channel is unbuffered, so the send blocks the loop).  *)
(* The loop over the calls of an order is one step per call, because       *)
(* transmitElevatorState and the hardware run in between.                  *)
(***************************************************************************)
EXTENDS Requests

CONSTANTS HallOrders,    \* the hall assignments the node may send
          CabOrders,     \* the cab assignments the node may send after a restart
          LightStates,   \* the hall light states the node may send
          ButtonCalls    \* the buttons passengers press

ASSUME InputsAssumption == /\ HallOrders  \subseteq SUBSET HallCalls
                           /\ CabOrders   \subseteq SUBSET CabCalls
                           /\ LightStates \subseteq SUBSET HallCalls
                           /\ ButtonCalls \subseteq Calls

VARIABLES
  elev,                  \* the global elev of elevator_fsm.go
  todo, assigned,        \* calls the current order has yet to apply; those it assigns
  toNode,                \* events of the current handler the node has not taken
  doorOpenTimer, doorStuckTimer,     \* armed?
  doorStuckTimerActive,  \* the local flag of ElevatorProgram
  motor, doorLamp, lamps,            \* what the hardware was last told
  cab,                   \* where the cab is: at floor, or between floor and floor + 1
  seen, floorEvent       \* PollFloorSensor: prev, and the value it is sending (or NoFloor)

timers   == <<doorOpenTimer, doorStuckTimer, doorStuckTimerActive>>
shaft    == <<cab, seen, floorEvent>>
vars     == <<elev, todo, assigned, toNode, timers, motor, doorLamp, lamps, shaft>>

HallButtonEvent(call)        == [EventType |-> "HallButton", ButtonEvent |-> call]
HallAssignmentComplete(call) == [EventType |-> "LocalHallAssignmentComplete", ButtonEvent |-> call]
DoorStuck(isStuck)           == [EventType |-> "DoorStuck", DoorIsStuck |-> isStuck]

Events == {HallButtonEvent(c) : c \in HallCalls}
     \cup {HallAssignmentComplete(c) : c \in HallCalls}
     \cup {DoorStuck(b) : b \in BOOLEAN}

Selecting == todo = {} /\ toNode = {}

AllLights(e) == (e.Requests \cap CabCalls) \cup e.HallLightStates

\* A faulty variant for mutation checks: reports the last floor even between floors.
SensedFloor_Latched == cab.floor

\* The floor the sensor shows, NoFloor between floors.
SensedFloor == IF cab.between THEN NoFloor ELSE cab.floor

-----------------------------------------------------------------------------
(* The state machine: pure cores, then their application.                  *)

\* What one more call does: the new state, the hall calls answered on the spot, and whether
\* the door is (re)opened.
HandleButtonEvent(e, call) ==
  LET added  == [e EXCEPT !.Requests = @ \cup {call}]
      pair   == RequestsChooseDirection(added)
      turned == [added EXCEPT !.Dir = pair.Dir, !.Behavior = pair.Behavior]
      result(new, cleared, reset) == [elev |-> new, cleared |-> cleared, resetDoorTimer |-> reset]
  IN  CASE e.Behavior = "doorOpen" /\ RequestsShouldClearImmediately(e, call) ->
             result(e, {call} \cap HallCalls, TRUE)
        [] e.Behavior = "idle" /\ pair.Behavior = "doorOpen" ->
             result(RequestsClearAtCurrentFloor(turned), HallCallsCleared(turned), TRUE)
        [] e.Behavior = "idle" /\ pair.Behavior # "doorOpen" -> result(turned, {}, FALSE)
        [] OTHER -> result(added, {}, FALSE)

\* Faulty variants: the new state is stored before the old behaviour is compared with it, or
\* only after the lamps are set.
OnRequestButtonPress_StoresFirst(r) ==
  /\ elev' = r.elev
  /\ doorOpenTimer' = (doorOpenTimer \/ r.resetDoorTimer)
  /\ doorLamp' = (doorLamp \/ r.resetDoorTimer)
  /\ lamps' = AllLights(r.elev)
  /\ UNCHANGED <<motor, doorStuckTimer, doorStuckTimerActive>>

OnRequestButtonPress_LampsFirst(r) ==
  /\ elev' = r.elev
  /\ doorOpenTimer' = (doorOpenTimer \/ r.resetDoorTimer)
  /\ doorLamp' = (doorLamp \/ r.resetDoorTimer)
  /\ motor' = IF r.elev.Behavior = "moving" /\ elev.Behavior # "moving" THEN r.elev.Dir ELSE motor
  /\ lamps' = AllLights(elev)
  /\ UNCHANGED <<doorStuckTimer, doorStuckTimerActive>>

\* Applies r = HandleButtonEvent(elev, call).
OnRequestButtonPress(r) ==
  /\ elev' = r.elev
  /\ doorOpenTimer' = (doorOpenTimer \/ r.resetDoorTimer)
  /\ doorLamp' = (doorLamp \/ r.resetDoorTimer)
  /\ motor' = IF r.elev.Behavior = "moving" /\ elev.Behavior # "moving" THEN r.elev.Dir ELSE motor
  /\ lamps' = AllLights(r.elev)
  /\ UNCHANGED <<doorStuckTimer, doorStuckTimerActive>>

\* The door timer went off: stay open while obstructed; otherwise shut and go on, rest, or
\* serve a call that came in at this floor.
HandleDoorTimeout(e) ==
  LET pair   == RequestsChooseDirection(e)
      turned == [e EXCEPT !.Dir = pair.Dir, !.Behavior = pair.Behavior]
      reopen == ~e.IsObstructed /\ pair.Behavior = "doorOpen"
  IN  IF e.Behavior # "doorOpen"
      THEN [elev |-> e, resetDoorOpenTimer |-> FALSE, stopDoorStuckTimer |-> FALSE,
            resetDoorStuckTimer |-> FALSE]
      ELSE [elev |-> CASE e.IsObstructed -> e
                       [] reopen         -> RequestsClearAtCurrentFloor(turned)
                       [] OTHER          -> turned,
            resetDoorOpenTimer  |-> e.IsObstructed \/ reopen,
            stopDoorStuckTimer  |-> ~e.IsObstructed,
            resetDoorStuckTimer |-> reopen]

-----------------------------------------------------------------------------
(* The select loop.                                                        *)

\* A cab call is handled locally; a hall call only goes to the node.
ButtonPressed(call) ==
  /\ Selecting
  /\ \/ /\ call \in CabCalls
        /\ OnRequestButtonPress(HandleButtonEvent(elev, call))
        /\ UNCHANGED toNode
     \/ /\ call \in HallCalls
        /\ toNode' = {HallButtonEvent(call)}
        /\ UNCHANGED <<elev, timers, motor, doorLamp, lamps>>
  /\ UNCHANGED <<todo, assigned, shaft>>

\* A faulty variant: the loop over the buttons runs on to the cab button.
ReceiveHallOrder_AllButtons(calls) ==
  /\ Selecting
  /\ assigned' = calls
  /\ todo' = calls \cup elev.Requests
  /\ UNCHANGED <<elev, toNode, timers, motor, doorLamp, lamps, shaft>>

\* A HallOrder visits every hall call; those it neither assigns nor finds in the table are
\* untouched, so only the others are left to do.
ReceiveHallOrder(calls) ==
  /\ Selecting
  /\ assigned' = calls
  /\ todo' = calls \cup (elev.Requests \cap HallCalls)
  /\ UNCHANGED <<elev, toNode, timers, motor, doorLamp, lamps, shaft>>

ReceiveCabOrder(calls) ==
  /\ Selecting
  /\ assigned' = calls
  /\ todo' = calls
  /\ UNCHANGED <<elev, toNode, timers, motor, doorLamp, lamps, shaft>>

\* The order in which the loops visit the calls: floors upwards, HallUp before HallDown.
VisitedBefore(c, d) == c[1] < d[1] \/ (c[1] = d[1] /\ c[2] = "HallUp" /\ d[2] = "HallDown")

RemoveRequest(call) ==
  /\ elev' = [elev EXCEPT !.Requests = @ \ {call}]
  /\ lamps' = lamps \ {call}
  /\ UNCHANGED <<toNode, timers, motor, doorLamp>>

\* One iteration of the loop of a HallOrder or CabOrder.
ApplyOrder ==
  /\ toNode = {}
  /\ \E call \in todo :
       /\ \A other \in todo \ {call} : VisitedBefore(call, other)
       /\ todo' = todo \ {call}
       /\ LET r == HandleButtonEvent(elev, call) IN
          \/ /\ call \in assigned
             /\ OnRequestButtonPress(r)
             /\ toNode' = {HallAssignmentComplete(c) : c \in {d \in r.cleared : d[1] = call[1]}}
          \/ call \notin assigned /\ RemoveRequest(call)
  /\ UNCHANGED <<assigned, shaft>>

ReceiveLightUpdate(states) ==
  /\ Selecting
  /\ elev' = [elev EXCEPT !.HallLightStates = states]
  /\ lamps' = AllLights(elev')
  /\ UNCHANGED <<todo, assigned, toNode, timers, motor, doorLamp, shaft>>

OnFloorArrival ==
  /\ Selecting
  /\ floorEvent # NoFloor
  /\ floorEvent' = NoFloor
  /\ LET here == [elev EXCEPT !.Floor = floorEvent] IN
     \/ /\ here.Behavior = "moving" /\ RequestsShouldStop(here)
        /\ elev' = [RequestsClearAtCurrentFloor(here) EXCEPT !.Behavior = "doorOpen"]
        /\ toNode' = {HallAssignmentComplete(c) : c \in HallCallsCleared(here)}
        /\ motor' = "stop" /\ doorLamp' = TRUE /\ doorOpenTimer' = TRUE
        /\ lamps' = AllLights(elev')
     \/ /\ ~(here.Behavior = "moving" /\ RequestsShouldStop(here))
        /\ elev' = here
        /\ UNCHANGED <<toNode, motor, doorLamp, doorOpenTimer, lamps>>
  /\ UNCHANGED <<todo, assigned, doorStuckTimer, doorStuckTimerActive, cab, seen>>

SetObstruction ==
  /\ Selecting
  /\ elev' = [elev EXCEPT !.IsObstructed = ~@]
  /\ UNCHANGED <<todo, assigned, toNode, timers, motor, doorLamp, lamps, shaft>>

\* A faulty variant: the door lamp is not switched off.
OnDoorTimeout_LampStays ==
  /\ Selecting
  /\ doorOpenTimer
  /\ doorStuckTimerActive' = TRUE
  /\ LET r == HandleDoorTimeout(elev) IN
     /\ elev' = r.elev
     /\ doorOpenTimer' = r.resetDoorOpenTimer
     /\ motor' = IF r.elev.Behavior = "moving" /\ elev.Behavior # "moving" THEN r.elev.Dir ELSE motor
     /\ lamps' = AllLights(r.elev)
  /\ UNCHANGED <<todo, assigned, toNode, shaft, doorLamp, doorStuckTimer>>

\* The stuck timer is started here unless the flag says it was, then OnDoorTimeout stops it
\* if the door can shut and may start it again.
OnDoorTimeout ==
  /\ Selecting
  /\ doorOpenTimer
  /\ doorStuckTimerActive' = TRUE
  /\ LET r == HandleDoorTimeout(elev) IN
     /\ elev' = r.elev
     /\ doorOpenTimer' = r.resetDoorOpenTimer
     /\ doorStuckTimer' = \/ r.resetDoorStuckTimer
                          \/ ~r.stopDoorStuckTimer /\ (doorStuckTimer \/ ~doorStuckTimerActive)
     /\ doorLamp' = (doorLamp /\ ~r.stopDoorStuckTimer)
     /\ motor' = IF r.elev.Behavior = "moving" /\ elev.Behavior # "moving" THEN r.elev.Dir ELSE motor
     /\ lamps' = AllLights(r.elev)
  /\ UNCHANGED <<todo, assigned, toNode, shaft>>

DoorStuckTimeout ==
  /\ Selecting
  /\ doorStuckTimer
  /\ doorStuckTimer' = FALSE
  /\ toNode' = {DoorStuck(TRUE)}
  /\ UNCHANGED <<elev, todo, assigned, doorOpenTimer, doorStuckTimerActive, motor, doorLamp, lamps, shaft>>

-----------------------------------------------------------------------------
(* The node and the hardware.                                              *)

\* The node takes an event from the unbuffered channel.
NodeTakesEvent ==
  /\ \E event \in toNode : toNode' = toNode \ {event}
  /\ UNCHANGED <<elev, todo, assigned, timers, motor, doorLamp, lamps, shaft>>

\* The poller blocks while its last event is not taken.
PollFloorSensor ==
  /\ floorEvent = NoFloor
  /\ seen # SensedFloor
  /\ seen' = SensedFloor
  /\ floorEvent' = SensedFloor
  /\ UNCHANGED <<elev, todo, assigned, toNode, timers, motor, doorLamp, lamps, cab>>

\* The cab travels half a floor.  Timing assumption: the cab needs longer to leave a sensor
\* region than the 20 ms poll and the handling of its event take.  Nothing here stops it at
\* the end floors.
CabMoves ==
  /\ seen = SensedFloor /\ floorEvent = NoFloor
  /\ cab.floor \in Floors
  /\ \/ motor = "up" /\ cab' = [floor   |-> IF cab.between THEN cab.floor + 1 ELSE cab.floor,
                                between |-> ~cab.between]
     \/ motor = "down" /\ cab' = [floor   |-> IF cab.between THEN cab.floor ELSE cab.floor - 1,
                                  between |-> ~cab.between]
  /\ UNCHANGED <<elev, todo, assigned, toNode, timers, motor, doorLamp, lamps, seen, floorEvent>>

-----------------------------------------------------------------------------
\* InitFSM has switched the lamps off and started the motor downwards, wherever the cab is;
\* ElevatorProgram is about to tell the node that the door is not stuck.
Init ==
  /\ elev = [NewElevator EXCEPT !.Dir = "down", !.Behavior = "moving"]
  /\ motor = "down" /\ doorLamp = FALSE /\ lamps = {}
  /\ todo = {} /\ assigned = {}
  /\ toNode = {DoorStuck(FALSE)}
  /\ doorOpenTimer = FALSE /\ doorStuckTimer = FALSE /\ doorStuckTimerActive = FALSE
  /\ cab \in {p \in [floor : Floors, between : BOOLEAN] : p.between => p.floor + 1 \in Floors}
  /\ seen = NoFloor /\ floorEvent = NoFloor

Next ==
  \/ \E call \in ButtonCalls : ButtonPressed(call)
  \/ \E calls \in HallOrders : ReceiveHallOrder(calls)
  \/ \E calls \in CabOrders : ReceiveCabOrder(calls)
  \/ ApplyOrder
  \/ \E states \in LightStates : ReceiveLightUpdate(states)
  \/ OnFloorArrival
  \/ SetObstruction
  \/ OnDoorTimeout
  \/ DoorStuckTimeout
  \/ NodeTakesEvent
  \/ PollFloorSensor
  \/ CabMoves

Spec == Init /\ [][Next]_vars

\* What Go gives the loop: select chooses at random among its ready cases, so a case that is
\* ready again and again is served; the other goroutines and the node keep running.  While the
\* door is obstructed nothing resets an armed stuck timer.  Of the door timer nothing is
\* promised: every press or order at the open floor resets it.
LoopFairness ==
  /\ WF_vars(ApplyOrder) /\ WF_vars(NodeTakesEvent)
  /\ WF_vars(PollFloorSensor) /\ WF_vars(CabMoves)
  /\ SF_vars(OnFloorArrival) /\ WF_vars(elev.IsObstructed /\ DoorStuckTimeout)

FairSpec == Spec /\ LoopFairness

-----------------------------------------------------------------------------
(* Properties.                                                             *)

\* Every variable keeps its type; the cab may be one position past an end floor.
TypeOK ==
  /\ elev \in Elevator
  /\ todo \subseteq Calls /\ assigned \subseteq Calls
  /\ toNode \subseteq Events
  /\ doorOpenTimer \in BOOLEAN /\ doorStuckTimer \in BOOLEAN /\ doorStuckTimerActive \in BOOLEAN
  /\ motor \in Directions /\ doorLamp \in BOOLEAN /\ lamps \subseteq Calls
  /\ cab \in [floor : -1 .. NumFloors, between : BOOLEAN]
  /\ seen \in Floors \cup {NoFloor} /\ floorEvent \in Floors \cup {NoFloor}

CabAt(floor) == cab.floor = floor /\ ~cab.between

\* The cab never runs past an end floor, though the code never tests for one: it relies on
\* choosing a direction only towards a call and on stopping when nothing is left ahead, with
\* orders that withdraw calls while the cab is on its way.
CabInShaft == cab.floor \in Floors /\ (cab.between => cab.floor + 1 \in Floors)

\* Whenever the door is open, by the lamp or by the state machine, the motor stands still and
\* the cab is level with the very floor the state machine thinks it is at.
DoorsOnlyAtFloor ==
  doorLamp \/ elev.Behavior = "doorOpen" => motor = "stop" /\ CabAt(elev.Floor)

\* An elevator with calls in its table is never stranded: the motor runs, or the door timer
\* is armed and its timeout will choose where to go.  (OnRequestButtonPress and OnDoorTimeout
\* start the motor from a comparison of two copies of the state.)
NeverParksWithWork == elev.Requests # {} => motor # "stop" \/ doorOpenTimer

\* The cab lamps show exactly the cab calls still to be served, and no hall lamp burns that
\* the node has not asked for (SetAllLights against the lamp writes of RemoveRequest).
LampsTruthful == /\ lamps \cap CabCalls = elev.Requests \cap CabCalls
                 /\ lamps \cap HallCalls \subseteq elev.HallLightStates

\* While the node has yet to take a completion, the elevator still stands at that floor with
\* its door open: a hall order is reported complete by serving it, never by losing it.
CompletionIsService ==
  \A c \in HallCalls : HallAssignmentComplete(c) \in toNode =>
                          CabAt(c[1]) /\ elev.Behavior = "doorOpen" /\ motor = "stop"

\* The state machine, its timers, the hardware and the cab tell one story.  This is what makes
\* the four invariants above inductive.
MotorFollowsState == IF elev.Behavior = "moving" THEN motor = elev.Dir /\ motor # "stop"
                                                 ELSE motor = "stop"
DoorFollowsState  == /\ elev.Behavior = "doorOpen" <=> doorOpenTimer
                     /\ doorLamp => doorOpenTimer
RestsWithoutWork  == elev.Behavior = "idle" => elev.Requests = {} /\ elev.Dir = "stop"

\* The cab stands at floor; the poller has reported nothing, or is about to report that floor.
Reported(floor)   == CabAt(floor) /\ seen = floor /\ floorEvent = NoFloor
Arriving(floor)   == CabAt(floor) /\ \/ seen = NoFloor /\ floorEvent = NoFloor
                                     \/ seen = floor   /\ floorEvent = floor
\* The cab is on the way from floor to the next one, floor + 1 or floor - 1.
Leaving(floor, next) == LET lower == IF floor < next THEN floor ELSE next IN
                        /\ cab = [floor |-> lower, between |-> TRUE]
                        /\ seen \in {floor, NoFloor} /\ floorEvent = NoFloor
Travelling(floor, next) == /\ floor \in Floors /\ next \in Floors
                           /\ Reported(floor) \/ Leaving(floor, next) \/ Arriving(next)
\* Driving down from power-up, until the first floor is reached.
Homing == /\ elev.Floor = NoFloor /\ elev.Dir = "down" /\ CabInShaft
          /\ \/ Arriving(cab.floor)
             \/ cab.between /\ seen = NoFloor /\ floorEvent = NoFloor

PositionKnown ==
  IF elev.Behavior # "moving" THEN elev.Floor \in Floors /\ Reported(elev.Floor)
  ELSE \/ Homing
       \/ elev.Dir = "up"   /\ Travelling(elev.Floor, elev.Floor + 1)
       \/ elev.Dir = "down" /\ Travelling(elev.Floor, elev.Floor - 1)

OnlyHallCallsWithdrawn == todo \ assigned \subseteq HallCalls

Consistent == /\ MotorFollowsState /\ DoorFollowsState /\ RestsWithoutWork /\ PositionKnown
              /\ OnlyHallCallsWithdrawn
              /\ LampsTruthful /\ CompletionIsService

\* A call leaves the table only when the cab is at its floor with the door open, or, a hall
\* call only, because the order being applied no longer assigns it.
CallsLeaveServed ==
  [][\A c \in elev.Requests \ elev'.Requests :
        \/ CabAt(c[1]) /\ elev'.Behavior = "doorOpen" /\ doorOpenTimer'
        \/ c \in HallCalls /\ c \in todo \ assigned]_vars

\* What passengers and node must give: the door timer is not kept armed for ever without going
\* off on a free doorway.  Obstructions, cab presses at the open floor and orders for it, each of
\* which resets the timer, leave now and then a pause of DOOR_OPEN_DURATION.
DoorGetsToShut == \/ []<>(~doorOpenTimer)
                  \/ []<><<~elev.IsObstructed /\ OnDoorTimeout>>_vars

\* If the door gets to shut again and again, every cab call is served, whatever hall orders the
\* node gives and withdraws on the way.
CabCallsServed ==
  DoorGetsToShut =>
     \A f \in Floors : <<f, "Cab">> \in elev.Requests ~> <<f, "Cab">> \notin elev.Requests

\* The elevator is a safe lift.
Lift == INSTANCE SafeLift WITH doorsOpen <- doorLamp
LiftSafety == Lift!LiftSpec

\* "When a slave finishes an assigned hall order, it sends this message"
\* (Network/messages/messagetypes.go:61): a hall call that leaves the table by being served
\* is reported in the same step.
ServedHallCallsReported ==
  [][\A c \in (elev.Requests \ elev'.Requests) \cap HallCalls :
        c \in todo \ assigned \/ HallAssignmentComplete(c) \in toNode']_vars

\* "Start the door stuck timer, which is stopped by OnDoorTimeout if the doors are able to
\* close" (singleelevator/elevatorprogram.go:131): a door that is obstructed for good, and whose
\* timer is left to go off, is reported to the node as stuck, at least once.
StuckDoorReported ==
  WF_vars(OnDoorTimeout) /\ <>[](elev.IsObstructed /\ elev.Behavior = "doorOpen")
     => <>(DoorStuck(TRUE) \in toNode)
=============================================================================
