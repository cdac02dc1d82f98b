------------------------ MODULE SingleElevatorProofs ------------------------
(***************************************************************************)
(* Proofs about SingleElevator for every number of floors and every set of *)
(* orders: the inductive invariant TypeOK /\ Consistent, the safety        *)
(* invariants and the action property that follow from it, and that one    *)
(* elevator implements SafeLift.                                           *)
(***************************************************************************)
EXTENDS SingleElevator, TLAPS

USE NumFloorsAssumption DEF Floors, NoFloor

-----------------------------------------------------------------------------
(* The request algorithm.                                                  *)

\* A direction for which there is a floor to go to.
Room(dir, floor) == \/ dir = "up"   /\ floor + 1 \in Floors
                    \/ dir = "down" /\ floor - 1 \in Floors

GoodChoice(e, pair) ==
  /\ pair.Dir \in Directions /\ pair.Behavior \in Behaviors
  /\ pair.Behavior = "moving" => Room(pair.Dir, e.Floor)
  /\ pair.Behavior = "idle" => pair.Dir = "stop" /\ e.Requests = {}

\* RequestsChooseDirection drives only towards a floor that exists, and rests only when the
\* table is empty.
LEMMA ChooseDirection ==
  ASSUME NEW e \in Elevator, e.Floor \in Floors
  PROVE  GoodChoice(e, RequestsChooseDirection(e))
<1>1. /\ e.Requests \subseteq Calls /\ e.Floor \in 0 .. NumFloors - 1
      /\ \A r \in e.Requests : r[1] \in 0 .. NumFloors - 1
  BY DEF Elevator, Calls
<1>2. RequestsAbove(e) => e.Floor + 1 \in Floors
  BY <1>1 DEF RequestsAbove
<1>3. RequestsBelow(e) => e.Floor - 1 \in Floors
  BY <1>1 DEF RequestsBelow
<1>4. ~RequestsAbove(e) /\ ~RequestsHere(e) /\ ~RequestsBelow(e) => e.Requests = {}
  BY <1>1 DEF RequestsAbove, RequestsHere, RequestsBelow
<1>5. e.Dir \in Directions
  BY DEF Elevator
<1> QED
  BY <1>2, <1>3, <1>4, <1>5
  DEF GoodChoice, Room, RequestsChooseDirection, DirBehaviorPair, Directions, Behaviors

ClearEffect(e, new) ==
  /\ new \in Elevator
  /\ new.Floor = e.Floor /\ new.Dir = e.Dir /\ new.Behavior = e.Behavior
  /\ new.HallLightStates = e.HallLightStates
  /\ new.Requests \subseteq e.Requests
  /\ \A c \in e.Requests \ new.Requests : c[1] = e.Floor
  /\ HallCallsCleared(e) \subseteq HallCalls
  /\ \A c \in HallCallsCleared(e) : c[1] = e.Floor

\* Clearing the current floor touches nothing but calls at that floor.
LEMMA ClearAtCurrentFloor ==
  ASSUME NEW e \in Elevator
  PROVE  ClearEffect(e, RequestsClearAtCurrentFloor(e))
  BY DEF ClearEffect, RequestsClearAtCurrentFloor, HallCallsCleared, Elevator

-----------------------------------------------------------------------------
(* The pure cores of the state machine.                                    *)

\* What a handler may rely on: the floor is known unless the cab drives, and at rest the
\* table is empty.
Settled(e) == /\ e.Behavior # "moving" => e.Floor \in Floors
              /\ e.Behavior = "idle" => e.Requests = {} /\ e.Dir = "stop"

ButtonEffect(e, call, r) ==
  /\ r.elev \in Elevator /\ r.resetDoorTimer \in BOOLEAN /\ r.cleared \subseteq HallCalls
  /\ r.elev.Floor = e.Floor /\ r.elev.HallLightStates = e.HallLightStates
  /\ e.Behavior \in {"moving", "doorOpen"} => r.elev.Behavior = e.Behavior /\ r.elev.Dir = e.Dir
  /\ e.Behavior = "idle" => \/ r.elev.Behavior = "doorOpen" /\ r.resetDoorTimer
                            \/ r.elev.Behavior = "moving" /\ Room(r.elev.Dir, e.Floor)
  /\ r.resetDoorTimer => r.elev.Behavior = "doorOpen"
  /\ r.cleared # {} => r.elev.Behavior = "doorOpen"
  /\ \A c \in r.cleared : c[1] = e.Floor
  /\ e.Requests \subseteq r.elev.Requests

\* One more call never stops a driving cab nor shuts a door, and leaves idle only for an open
\* door or for a direction there is a floor in; no call in the table gets lost.
LEMMA ButtonEvent ==
  ASSUME NEW e \in Elevator, NEW call \in Calls, Settled(e)
  PROVE  ButtonEffect(e, call, HandleButtonEvent(e, call))
<1> DEFINE added  == [e EXCEPT !.Requests = @ \cup {call}]
           pair   == RequestsChooseDirection(added)
           turned == [added EXCEPT !.Dir = pair.Dir, !.Behavior = pair.Behavior]
           r      == HandleButtonEvent(e, call)
<1>1. added \in Elevator /\ added.Requests # {} /\ added.Floor = e.Floor
  BY DEF Elevator
<1>2. e.Behavior \in Behaviors
  BY DEF Elevator
<1>3. CASE e.Behavior = "doorOpen" /\ RequestsShouldClearImmediately(e, call)
  <2>1. r = [elev |-> e, cleared |-> {call} \cap HallCalls, resetDoorTimer |-> TRUE]
    BY <1>3 DEF HandleButtonEvent
  <2> QED  BY <1>3, <2>1 DEF ButtonEffect, RequestsShouldClearImmediately
<1>4. CASE e.Behavior = "idle"
  <2>1. GoodChoice(added, pair)
    BY <1>1, <1>4, ChooseDirection DEF Settled
  <2>2. /\ turned \in Elevator /\ turned.Floor = e.Floor
        /\ turned.HallLightStates = e.HallLightStates
        /\ turned.Dir = pair.Dir /\ turned.Behavior = pair.Behavior
    BY <1>1, <2>1 DEF Elevator, GoodChoice
  <2> HIDE DEF turned, pair, added
  <2>3. CASE pair.Behavior = "doorOpen"
    <3>1. r = [elev |-> RequestsClearAtCurrentFloor(turned), cleared |-> HallCallsCleared(turned),
               resetDoorTimer |-> TRUE]
      BY <1>4, <2>3 DEF HandleButtonEvent, turned, pair, added
    <3>2. ClearEffect(turned, RequestsClearAtCurrentFloor(turned))
      BY <2>2, ClearAtCurrentFloor
    <3> QED  BY <1>4, <2>2, <2>3, <3>1, <3>2 DEF ButtonEffect, ClearEffect, Settled
  <2>4. CASE pair.Behavior # "doorOpen"
    <3>1. r = [elev |-> turned, cleared |-> {}, resetDoorTimer |-> FALSE]
      BY <1>4, <2>4 DEF HandleButtonEvent, turned, pair, added
    <3>2. pair.Behavior = "moving" /\ Room(pair.Dir, e.Floor)
      BY <1>1, <2>1, <2>4 DEF GoodChoice, Behaviors
    <3> QED  BY <1>4, <2>2, <3>1, <3>2 DEF ButtonEffect, Settled
  <2> QED  BY <2>3, <2>4
<1>5. CASE /\ ~(e.Behavior = "doorOpen" /\ RequestsShouldClearImmediately(e, call))
           /\ e.Behavior # "idle"
  <2>1. r = [elev |-> added, cleared |-> {}, resetDoorTimer |-> FALSE]
    BY <1>5 DEF HandleButtonEvent
  <2> QED  BY <1>1, <1>5, <2>1 DEF ButtonEffect, Elevator
<1> QED  BY <1>3, <1>4, <1>5

TimeoutEffect(e, r) ==
  /\ r.elev \in Elevator /\ r.elev.Floor = e.Floor /\ r.elev.HallLightStates = e.HallLightStates
  /\ r.elev.Behavior = "doorOpen" <=> r.resetDoorOpenTimer
  /\ r.elev.Behavior # "doorOpen" => r.stopDoorStuckTimer
  /\ r.elev.Behavior = "moving" => Room(r.elev.Dir, e.Floor)
  /\ r.elev.Behavior = "idle" => r.elev.Requests = {} /\ r.elev.Dir = "stop"
  /\ \A c \in e.Requests \ r.elev.Requests : c[1] = e.Floor /\ r.elev.Behavior = "doorOpen"
  /\ r.resetDoorOpenTimer \in BOOLEAN /\ r.stopDoorStuckTimer \in BOOLEAN
  /\ r.resetDoorStuckTimer \in BOOLEAN

\* When the door timer goes off, the door stays open with its timer armed, or it shuts and
\* the cab drives towards a floor that exists or rests with nothing left to do.
LEMMA DoorTimeout ==
  ASSUME NEW e \in Elevator, e.Behavior = "doorOpen", e.Floor \in Floors
  PROVE  TimeoutEffect(e, HandleDoorTimeout(e))
<1> DEFINE pair   == RequestsChooseDirection(e)
           turned == [e EXCEPT !.Dir = pair.Dir, !.Behavior = pair.Behavior]
           r      == HandleDoorTimeout(e)
<1>1. GoodChoice(e, pair)
  BY ChooseDirection
<1>2. /\ turned \in Elevator /\ turned.Floor = e.Floor /\ turned.Requests = e.Requests
      /\ turned.HallLightStates = e.HallLightStates
      /\ turned.Behavior = pair.Behavior /\ turned.Dir = pair.Dir
  BY <1>1 DEF Elevator, GoodChoice
<1> HIDE DEF turned, pair
<1>3. CASE e.IsObstructed
  <2>1. r = [elev |-> e, resetDoorOpenTimer |-> TRUE, stopDoorStuckTimer |-> FALSE,
             resetDoorStuckTimer |-> FALSE]
    BY <1>3 DEF HandleDoorTimeout, turned, pair
  <2> QED  BY <2>1 DEF TimeoutEffect
<1>4. CASE ~e.IsObstructed /\ pair.Behavior = "doorOpen"
  <2>1. r = [elev |-> RequestsClearAtCurrentFloor(turned), resetDoorOpenTimer |-> TRUE,
             stopDoorStuckTimer |-> TRUE, resetDoorStuckTimer |-> TRUE]
    BY <1>4 DEF HandleDoorTimeout, turned, pair
  <2>2. ClearEffect(turned, RequestsClearAtCurrentFloor(turned))
    BY <1>2, ClearAtCurrentFloor
  <2> QED  BY <1>2, <1>4, <2>1, <2>2 DEF TimeoutEffect, ClearEffect
<1>5. CASE ~e.IsObstructed /\ pair.Behavior # "doorOpen"
  <2>1. r = [elev |-> turned, resetDoorOpenTimer |-> FALSE, stopDoorStuckTimer |-> TRUE,
             resetDoorStuckTimer |-> FALSE]
    BY <1>5 DEF HandleDoorTimeout, turned, pair
  <2> QED  BY <1>1, <1>2, <1>5, <2>1 DEF TimeoutEffect, GoodChoice
<1> QED  BY <1>3, <1>4, <1>5

-----------------------------------------------------------------------------
(* The inductive invariant.                                                *)

IInv == TypeOK /\ Consistent

\* Completions name the call they complete, and only they are completions.
LEMMA EventIdentity ==
  /\ \A c, d : HallAssignmentComplete(c) = HallAssignmentComplete(d) => c = d
  /\ \A c, d : HallAssignmentComplete(c) # HallButtonEvent(d)
  /\ \A c, b : HallAssignmentComplete(c) # DoorStuck(b)
  BY DEF HallAssignmentComplete, HallButtonEvent, DoorStuck

\* What the handlers send are events.
LEMMA EventType ==
  /\ \A c \in HallCalls : HallButtonEvent(c) \in Events /\ HallAssignmentComplete(c) \in Events
  /\ \A b \in BOOLEAN : DoorStuck(b) \in Events
  BY Zenon DEF Events

\* Power-up establishes the invariant wherever the cab is.
LEMMA InitInv == Init => IInv
<1> SUFFICES ASSUME Init PROVE IInv
  OBVIOUS
<1>1. elev = [NewElevator EXCEPT !.Dir = "down", !.Behavior = "moving"]
  BY DEF Init
<1>2. /\ elev \in Elevator /\ elev.Floor = NoFloor /\ elev.Dir = "down"
      /\ elev.Behavior = "moving" /\ elev.Requests = {} /\ elev.HallLightStates = {}
  BY <1>1 DEF NewElevator, Elevator, Directions, Behaviors
<1>3. TypeOK
  <2>1. toNode \subseteq Events
    BY EventType, Zenon DEF Init
  <2>2. cab \in [floor : -1 .. NumFloors, between : BOOLEAN]
    BY DEF Init
  <2> QED  BY <1>2, <2>1, <2>2 DEF Init, TypeOK, Directions
<1>4. CabInShaft /\ Homing
  BY <1>2 DEF Init, CabInShaft, Homing, Arriving, CabAt
<1>5. CompletionIsService
  BY EventIdentity DEF Init, CompletionIsService
<1> QED
  BY <1>2, <1>3, <1>4, <1>5
  DEF Init, IInv, Consistent, MotorFollowsState, DoorFollowsState, RestsWithoutWork,
      PositionKnown, OnlyHallCallsWithdrawn, LampsTruthful

\* The invariant in two halves: the machine with its hardware, and what is queued for it and
\* for the node.
MachineOK ==
  /\ elev \in Elevator
  /\ doorOpenTimer \in BOOLEAN /\ doorStuckTimer \in BOOLEAN /\ doorStuckTimerActive \in BOOLEAN
  /\ motor \in Directions /\ doorLamp \in BOOLEAN /\ lamps \subseteq Calls
  /\ cab \in [floor : -1 .. NumFloors, between : BOOLEAN]
  /\ seen \in Floors \cup {NoFloor} /\ floorEvent \in Floors \cup {NoFloor}
  /\ MotorFollowsState /\ DoorFollowsState /\ RestsWithoutWork /\ PositionKnown
  /\ LampsTruthful

QueuesOK == /\ todo \subseteq Calls /\ assigned \subseteq Calls /\ toNode \subseteq Events
            /\ OnlyHallCallsWithdrawn /\ CompletionIsService

\* The invariant in two halves: what the machine is doing, and what it still has to tell or apply.
LEMMA IInvParts == IInv <=> MachineOK /\ QueuesOK
  BY DEF IInv, TypeOK, Consistent, MachineOK, QueuesOK

\* A step that keeps floor, direction, behaviour, motor and shaft keeps the position known.
LEMMA PositionFrame ==
  ASSUME MotorFollowsState, PositionKnown, UNCHANGED <<motor, shaft>>,
         elev'.Floor = elev.Floor, elev'.Dir = elev.Dir, elev'.Behavior = elev.Behavior
  PROVE  MotorFollowsState' /\ PositionKnown'
  BY DEF MotorFollowsState, PositionKnown, Homing, Travelling, Leaving, Arriving, Reported,
         CabAt, CabInShaft, shaft

\* The lamps that SetAllLights writes are truthful.
LEMMA AllLightsTruthful ==
  ASSUME NEW e \in Elevator
  PROVE  /\ AllLights(e) \subseteq Calls
         /\ AllLights(e) \cap CabCalls = e.Requests \cap CabCalls
         /\ AllLights(e) \cap HallCalls \subseteq e.HallLightStates
  BY DEF AllLights, Elevator, Calls, CabCalls, HallCalls, Buttons, HallButtons

\* Leaving a floor for a floor that exists is the start of a journey.
LEMMA Departure ==
  ASSUME elev.Floor \in Floors, Reported(elev.Floor), UNCHANGED shaft,
         elev'.Floor = elev.Floor, elev'.Behavior = "moving", Room(elev'.Dir, elev.Floor)
  PROVE  PositionKnown'
  BY DEF PositionKnown, Travelling, Reported, CabAt, shaft, Room

\* While the last events are with the node, completions stay true.
LEMMA NothingReported ==
  ASSUME toNode' = {} PROVE CompletionIsService'
  BY DEF CompletionIsService

\* OnRequestButtonPress keeps the machine consistent, and what it clears is at this floor.
LEMMA PressInv ==
  ASSUME MachineOK, NEW call \in Calls, UNCHANGED shaft,
         OnRequestButtonPress(HandleButtonEvent(elev, call))
  PROVE  /\ MachineOK' /\ elev'.Floor = elev.Floor
         /\ HandleButtonEvent(elev, call).cleared \subseteq HallCalls
         /\ HandleButtonEvent(elev, call).cleared # {} =>
               elev'.Behavior = "doorOpen" /\ CabAt(elev.Floor)' /\ motor' = "stop"
         /\ \A c \in HandleButtonEvent(elev, call).cleared : c[1] = elev.Floor
         /\ elev.Requests \subseteq elev'.Requests
<1> DEFINE r == HandleButtonEvent(elev, call)
<1>1. Settled(elev) /\ elev \in Elevator
  BY DEF MachineOK, Settled, RestsWithoutWork, PositionKnown
<1>2. ButtonEffect(elev, call, r)
  BY <1>1, ButtonEvent
<1>3. /\ elev' = r.elev /\ lamps' = AllLights(r.elev)
      /\ doorOpenTimer' = (doorOpenTimer \/ r.resetDoorTimer)
      /\ doorLamp' = (doorLamp \/ r.resetDoorTimer)
      /\ motor' = IF r.elev.Behavior = "moving" /\ elev.Behavior # "moving"
                  THEN r.elev.Dir ELSE motor
      /\ UNCHANGED <<doorStuckTimer, doorStuckTimerActive>>
  BY DEF OnRequestButtonPress
<1> HIDE DEF r
<1>4. /\ elev' \in Elevator /\ elev'.Floor = elev.Floor
      /\ elev'.HallLightStates = elev.HallLightStates
  BY <1>2, <1>3 DEF ButtonEffect
<1>5. elev.Behavior \in {"idle", "doorOpen", "moving"} /\ elev.Dir \in Directions
  BY <1>1 DEF Elevator, Behaviors
<1>6. MotorFollowsState' /\ PositionKnown'
  <2>1. CASE elev.Behavior # "idle"
    BY <1>2, <1>3, <1>4, <1>5, <2>1, PositionFrame DEF ButtonEffect, MachineOK, MotorFollowsState
  <2>2. CASE elev.Behavior = "idle" /\ elev'.Behavior = "moving"
    BY <1>2, <1>3, <1>4, <1>5, <2>2, Departure
    DEF ButtonEffect, MachineOK, MotorFollowsState, PositionKnown, Room
  <2>3. CASE elev.Behavior = "idle" /\ elev'.Behavior # "moving"
    BY <1>2, <1>3, <1>4, <1>5, <2>3
    DEF ButtonEffect, MachineOK, MotorFollowsState, PositionKnown, Reported, CabAt, shaft
  <2> QED  BY <2>1, <2>2, <2>3
<1>7. DoorFollowsState'
  BY <1>2, <1>3, <1>5 DEF ButtonEffect, MachineOK, DoorFollowsState
<1>8. RestsWithoutWork'
  BY <1>2, <1>3, <1>5 DEF ButtonEffect, RestsWithoutWork
<1>9. LampsTruthful' /\ lamps' \subseteq Calls
  BY <1>3, <1>4, AllLightsTruthful DEF LampsTruthful
<1>10. doorOpenTimer' \in BOOLEAN /\ doorLamp' \in BOOLEAN
  BY <1>2, <1>3, Zenon DEF ButtonEffect, MachineOK
<1>11. motor' \in Directions
  BY <1>3, <1>4 DEF MachineOK, Elevator
<1>12. MachineOK'
  BY <1>3, <1>4, <1>6, <1>7, <1>8, <1>9, <1>10, <1>11 DEF MachineOK, shaft
<1>13. r.cleared # {} => elev'.Behavior = "doorOpen" /\ CabAt(elev.Floor)' /\ motor' = "stop"
  BY <1>2, <1>3, <1>4, <1>6
  DEF ButtonEffect, MotorFollowsState, PositionKnown, Reported, CabAt
<1> QED  BY <1>2, <1>3, <1>4, <1>12, <1>13 DEF ButtonEffect, r

\* An arrival either stops the cab at the floor it has reached, or there is a call ahead and
\* so a floor to go on to.
LEMMA ArrivalInv ==
  ASSUME MachineOK, QueuesOK, OnFloorArrival
  PROVE  MachineOK' /\ QueuesOK'
<1> DEFINE here == [elev EXCEPT !.Floor = floorEvent]
<1>1. /\ floorEvent \in Floors /\ elev \in Elevator /\ floorEvent' = NoFloor
      /\ UNCHANGED <<todo, assigned, doorStuckTimer, doorStuckTimerActive, cab, seen>>
  BY DEF OnFloorArrival, MachineOK
<1>2. /\ elev.Behavior = "moving" /\ CabAt(floorEvent) /\ seen = floorEvent
      /\ elev.Dir \in {"up", "down"} /\ motor = elev.Dir
      /\ ~doorOpenTimer /\ ~doorLamp
  BY <1>1 DEF MachineOK, MotorFollowsState, DoorFollowsState, PositionKnown, Homing, Travelling,
      Leaving, Arriving, Reported, Directions
<1>3. /\ here \in Elevator /\ here.Floor = floorEvent /\ here.Dir = elev.Dir
      /\ here.Behavior = "moving" /\ here.Requests = elev.Requests
      /\ here.HallLightStates = elev.HallLightStates
  BY <1>1, <1>2 DEF Elevator
<1>4. toNode = {}
  BY DEF OnFloorArrival, Selecting
<1> HIDE DEF here
<1>5. CASE RequestsShouldStop(here)
  <2> DEFINE cleared == RequestsClearAtCurrentFloor(here)
  <2>1. /\ elev' = [cleared EXCEPT !.Behavior = "doorOpen"]
        /\ toNode' = {HallAssignmentComplete(c) : c \in HallCallsCleared(here)}
        /\ motor' = "stop" /\ doorLamp' = TRUE /\ doorOpenTimer' = TRUE
        /\ lamps' = AllLights(elev')
    BY <1>3, <1>5 DEF OnFloorArrival, here
  <2>2. ClearEffect(here, cleared)
    BY <1>3, ClearAtCurrentFloor
  <2> HIDE DEF cleared
  <2>3. /\ elev' \in Elevator /\ elev'.Floor = floorEvent /\ elev'.Behavior = "doorOpen"
        /\ elev'.HallLightStates = elev.HallLightStates
    BY <1>3, <2>1, <2>2 DEF ClearEffect, Elevator, Behaviors
  <2>4. MotorFollowsState' /\ DoorFollowsState' /\ RestsWithoutWork' /\ PositionKnown'
    BY <1>1, <1>2, <2>1, <2>3
    DEF MotorFollowsState, DoorFollowsState, RestsWithoutWork, PositionKnown, Reported, CabAt
  <2>5. LampsTruthful' /\ lamps' \subseteq Calls
    BY <2>1, <2>3, AllLightsTruthful DEF LampsTruthful
  <2>6. MachineOK'
    BY <1>1, <2>1, <2>3, <2>4, <2>5 DEF MachineOK, Directions
  <2>7. toNode' \subseteq Events
    BY <2>1, <2>2, EventType DEF ClearEffect
  <2>8. CompletionIsService'
    BY <1>1, <1>2, <1>3, <2>1, <2>2, <2>3, EventIdentity DEF CompletionIsService, ClearEffect, CabAt
  <2> QED  BY <1>1, <2>6, <2>7, <2>8 DEF QueuesOK, OnlyHallCallsWithdrawn
<1>6. CASE ~RequestsShouldStop(here)
  <2>1. elev' = here /\ UNCHANGED <<toNode, motor, doorLamp, doorOpenTimer, lamps>>
    BY <1>3, <1>6 DEF OnFloorArrival, here
  <2>2. Room(elev.Dir, floorEvent)
    BY <1>2, <1>3, <1>6
    DEF RequestsShouldStop, RequestsAbove, RequestsBelow, Room, Elevator, Calls
  <2>3. PositionKnown'
    BY <1>1, <1>2, <1>3, <2>1, <2>2 DEF PositionKnown, Travelling, Reported, CabAt, Room
  <2>4. MachineOK'
    BY <1>1, <1>2, <1>3, <2>1, <2>3
    DEF MachineOK, MotorFollowsState, DoorFollowsState, RestsWithoutWork, LampsTruthful
  <2> QED
    BY <1>1, <1>4, <2>1, <2>4, NothingReported DEF QueuesOK, OnlyHallCallsWithdrawn
<1> QED  BY <1>5, <1>6

\* The door timer's handler finds the door open, so it keeps it open or goes where a floor is.
LEMMA DoorTimeoutInv ==
  ASSUME MachineOK, QueuesOK, OnDoorTimeout
  PROVE  MachineOK' /\ QueuesOK'
<1> DEFINE r == HandleDoorTimeout(elev)
<1>1. /\ elev.Behavior = "doorOpen" /\ elev.Floor \in Floors /\ elev \in Elevator
      /\ Reported(elev.Floor) /\ motor = "stop"
  BY DEF OnDoorTimeout, MachineOK, DoorFollowsState, MotorFollowsState, PositionKnown
<1>2. TimeoutEffect(elev, r)
  BY <1>1, DoorTimeout
<1>3. /\ elev' = r.elev /\ doorOpenTimer' = r.resetDoorOpenTimer
      /\ doorLamp' = (doorLamp /\ ~r.stopDoorStuckTimer)
      /\ motor' = IF r.elev.Behavior = "moving" /\ elev.Behavior # "moving" THEN r.elev.Dir ELSE motor
      /\ lamps' = AllLights(r.elev)
      /\ toNode = {} /\ UNCHANGED <<todo, assigned, toNode, shaft>>
  BY DEF OnDoorTimeout, Selecting
<1>4. doorStuckTimer' \in BOOLEAN /\ doorStuckTimerActive' \in BOOLEAN
  BY Zenon DEF OnDoorTimeout
<1> HIDE DEF r
<1>5. /\ elev' \in Elevator /\ elev'.Floor = elev.Floor
      /\ elev'.HallLightStates = elev.HallLightStates
  BY <1>2, <1>3 DEF TimeoutEffect
<1>6. MotorFollowsState'
  BY <1>1, <1>2, <1>3 DEF TimeoutEffect, MotorFollowsState, Room
<1>7. PositionKnown'
  <2>1. CASE elev'.Behavior = "moving"
    BY <1>1, <1>2, <1>3, <1>5, <2>1, Departure DEF TimeoutEffect
  <2>2. CASE elev'.Behavior # "moving"
    BY <1>1, <1>3, <1>5, <2>2 DEF PositionKnown, Reported, CabAt, shaft
  <2> QED  BY <2>1, <2>2
<1>8. DoorFollowsState' /\ RestsWithoutWork'
  BY <1>2, <1>3 DEF TimeoutEffect, DoorFollowsState, RestsWithoutWork, MachineOK
<1>9. LampsTruthful' /\ lamps' \subseteq Calls
  BY <1>3, <1>5, AllLightsTruthful DEF LampsTruthful
<1>10. doorOpenTimer' \in BOOLEAN /\ doorLamp' \in BOOLEAN
  BY <1>2, <1>3, Zenon DEF TimeoutEffect
<1>11. motor' \in Directions
  BY <1>3, <1>5 DEF MachineOK, Elevator
<1> QED
  BY <1>3, <1>4, <1>5, <1>6, <1>7, <1>8, <1>9, <1>10, <1>11, NothingReported
  DEF MachineOK, QueuesOK, OnlyHallCallsWithdrawn, shaft

\* One iteration of an order adds a call or withdraws a hall call; the machine keeps going.
LEMMA ApplyInv ==
  ASSUME MachineOK, QueuesOK, ApplyOrder
  PROVE  MachineOK' /\ QueuesOK'
<1>1. PICK call \in todo :
        /\ todo' = todo \ {call}
        /\ LET r == HandleButtonEvent(elev, call) IN
           \/ /\ call \in assigned
              /\ OnRequestButtonPress(r)
              /\ toNode' = {HallAssignmentComplete(c) : c \in {d \in r.cleared : d[1] = call[1]}}
           \/ call \notin assigned /\ RemoveRequest(call)
  BY DEF ApplyOrder
<1>2. call \in Calls /\ toNode = {} /\ UNCHANGED <<assigned, shaft>>
  BY DEF ApplyOrder, QueuesOK
<1>3. todo' \subseteq Calls /\ assigned' \subseteq Calls /\ OnlyHallCallsWithdrawn'
  BY <1>1, <1>2 DEF QueuesOK, OnlyHallCallsWithdrawn
<1>4. CASE call \in assigned
  <2> DEFINE r == HandleButtonEvent(elev, call)
  <2>1. /\ OnRequestButtonPress(r)
        /\ toNode' = {HallAssignmentComplete(c) : c \in {d \in r.cleared : d[1] = call[1]}}
    BY <1>1, <1>4
  <2>2. /\ MachineOK' /\ elev'.Floor = elev.Floor /\ r.cleared \subseteq HallCalls
        /\ r.cleared # {} => elev'.Behavior = "doorOpen" /\ CabAt(elev.Floor)' /\ motor' = "stop"
        /\ \A c \in r.cleared : c[1] = elev.Floor
    BY <1>2, <2>1, PressInv
  <2> DEFINE sent == {d \in r.cleared : d[1] = call[1]}
  <2>3. /\ toNode' = {HallAssignmentComplete(c) : c \in sent}
        /\ sent \subseteq HallCalls /\ \A c \in sent : c \in r.cleared
    BY <2>1, <2>2
  <2> HIDE DEF r, sent
  <2>4. toNode' \subseteq Events
    BY <2>3, EventType
  <2>5. CompletionIsService'
    BY <2>2, <2>3, EventIdentity DEF CompletionIsService, CabAt
  <2> QED  BY <1>3, <2>2, <2>4, <2>5 DEF QueuesOK
<1>5. CASE call \notin assigned
  <2>1. /\ elev' = [elev EXCEPT !.Requests = @ \ {call}] /\ lamps' = lamps \ {call}
        /\ UNCHANGED <<toNode, timers, motor, doorLamp>>
    BY <1>1, <1>5 DEF RemoveRequest
  <2>2. /\ elev' \in Elevator /\ elev'.Floor = elev.Floor /\ elev'.Dir = elev.Dir
        /\ elev'.Behavior = elev.Behavior /\ elev'.HallLightStates = elev.HallLightStates
        /\ elev'.Requests = elev.Requests \ {call}
    BY <2>1 DEF MachineOK, Elevator
  <2>3. MotorFollowsState' /\ PositionKnown'
    BY <1>2, <2>1, <2>2, PositionFrame DEF MachineOK
  <2>4. MachineOK'
    BY <1>2, <2>1, <2>2, <2>3
    DEF MachineOK, timers, shaft, DoorFollowsState, RestsWithoutWork, LampsTruthful
  <2> QED  BY <1>2, <1>3, <2>1, <2>4, NothingReported DEF QueuesOK
<1> QED  BY <1>4, <1>5

\* The cab moves only towards a floor that exists, and the poller tells where it is.
LEMMA CabInv ==
  ASSUME MachineOK, QueuesOK, CabMoves \/ PollFloorSensor
  PROVE  MachineOK' /\ QueuesOK'
<1>1. /\ UNCHANGED <<elev, todo, assigned, toNode, timers, motor, doorLamp, lamps>>
      /\ seen' \in Floors \cup {NoFloor} /\ floorEvent' \in Floors \cup {NoFloor}
      /\ cab' \in [floor : -1 .. NumFloors, between : BOOLEAN]
  <2>1. CASE CabMoves
    <3>1. \E f \in {cab.floor - 1, cab.floor, cab.floor + 1} :
             cab' = [floor |-> f, between |-> ~cab.between] /\ cab.floor \in Floors
      BY <2>1 DEF CabMoves
    <3>2. cab' \in [floor : -1 .. NumFloors, between : BOOLEAN]
      BY <3>1
    <3> QED  BY <2>1, <3>2 DEF CabMoves, MachineOK
  <2>2. CASE PollFloorSensor
    <3>1. CabInShaft
      BY DEF MachineOK, PositionKnown, Homing, Travelling, Leaving, Arriving, Reported, CabAt,
             CabInShaft
    <3> QED  BY <2>2, <3>1 DEF PollFloorSensor, MachineOK, SensedFloor, CabInShaft
  <2> QED  BY <2>1, <2>2
<1>2. elev.Behavior = "moving" /\ toNode \subseteq Events
  BY DEF MachineOK, QueuesOK, MotorFollowsState, PositionKnown, Reported, CabAt, CabMoves,
         PollFloorSensor, SensedFloor
<1>3. PositionKnown'
  <2>1. CASE CabMoves
    BY <1>1, <1>2, <2>1
    DEF CabMoves, MachineOK, MotorFollowsState, PositionKnown, Homing, Travelling, Leaving,
        Arriving, Reported, CabAt, CabInShaft, SensedFloor
  <2>2. CASE PollFloorSensor
    BY <1>1, <1>2, <2>2
    DEF PollFloorSensor, MachineOK, PositionKnown, Homing, Travelling, Leaving, Arriving, Reported,
        CabAt, CabInShaft, SensedFloor
  <2> QED  BY <2>1, <2>2
<1>4. MachineOK'
  BY <1>1, <1>3
  DEF MachineOK, timers, MotorFollowsState, DoorFollowsState, RestsWithoutWork, LampsTruthful
<1>5. CompletionIsService'
  BY <1>1, <1>2 DEF QueuesOK, CompletionIsService
<1> QED  BY <1>1, <1>4, <1>5 DEF QueuesOK, OnlyHallCallsWithdrawn


\* Steps that leave the state machine's motion alone: a new obstruction or new hall lights.
LEMMA LightsInv ==
  ASSUME MachineOK, QueuesOK, NEW states,
         (states \in LightStates /\ ReceiveLightUpdate(states)) \/ SetObstruction
  PROVE  MachineOK' /\ QueuesOK'
<1>1. /\ elev' \in Elevator /\ elev'.Floor = elev.Floor /\ elev'.Dir = elev.Dir
      /\ elev'.Behavior = elev.Behavior /\ elev'.Requests = elev.Requests
  <2>1. CASE states \in LightStates /\ ReceiveLightUpdate(states)
    BY <2>1, InputsAssumption DEF ReceiveLightUpdate, MachineOK, Elevator
  <2>2. CASE SetObstruction
    BY <2>2 DEF SetObstruction, MachineOK, Elevator
  <2> QED  BY <2>1, <2>2
<1>2. UNCHANGED <<todo, assigned, toNode, timers, motor, doorLamp, shaft>> /\ toNode = {}
  BY DEF ReceiveLightUpdate, SetObstruction, Selecting
<1>3. LampsTruthful' /\ lamps' \subseteq Calls
  <2>1. CASE ReceiveLightUpdate(states)
    BY <1>1, <2>1, AllLightsTruthful DEF ReceiveLightUpdate, LampsTruthful
  <2>2. CASE SetObstruction
    BY <1>1, <2>2 DEF SetObstruction, MachineOK, LampsTruthful, Elevator
  <2> QED  BY <2>1, <2>2
<1>4. MotorFollowsState' /\ PositionKnown'
  BY <1>1, <1>2, PositionFrame DEF MachineOK
<1>5. MachineOK'
  BY <1>1, <1>2, <1>3, <1>4 DEF MachineOK, timers, shaft, DoorFollowsState, RestsWithoutWork
<1> QED  BY <1>2, <1>5, NothingReported DEF QueuesOK, OnlyHallCallsWithdrawn

\* A step that keeps the machine and sends no completion keeps the machine consistent.
LEMMA MachineFrame ==
  ASSUME MachineOK, UNCHANGED <<elev, doorOpenTimer, motor, doorLamp, lamps, shaft>>,
         doorStuckTimer' \in BOOLEAN, doorStuckTimerActive' \in BOOLEAN
  PROVE  MachineOK'
<1>1. MotorFollowsState' /\ PositionKnown'
  BY PositionFrame DEF MachineOK
<1> QED
  BY <1>1 DEF MachineOK, shaft, DoorFollowsState, RestsWithoutWork, LampsTruthful

\* A button press either goes through OnRequestButtonPress or only to the node.
LEMMA ButtonInv ==
  ASSUME MachineOK, QueuesOK, NEW call \in ButtonCalls, ButtonPressed(call)
  PROVE  MachineOK' /\ QueuesOK'
<1>1. call \in Calls /\ toNode = {} /\ UNCHANGED <<todo, assigned, shaft>>
  BY InputsAssumption DEF ButtonPressed, Selecting
<1>2. CASE OnRequestButtonPress(HandleButtonEvent(elev, call)) /\ UNCHANGED toNode
  BY <1>1, <1>2, PressInv, NothingReported DEF QueuesOK, OnlyHallCallsWithdrawn
<1>3. CASE /\ call \in HallCalls /\ toNode' = {HallButtonEvent(call)}
           /\ UNCHANGED <<elev, timers, motor, doorLamp, lamps>>
  <2>1. MachineOK'
    BY <1>1, <1>3, MachineFrame DEF timers, MachineOK
  <2>2. toNode' \subseteq Events /\ CompletionIsService'
    BY <1>3, EventType, EventIdentity DEF CompletionIsService
  <2> QED  BY <1>1, <2>1, <2>2 DEF QueuesOK, OnlyHallCallsWithdrawn
<1> QED  BY <1>2, <1>3 DEF ButtonPressed

\* An order that comes in only fills the list of calls to apply; what it withdraws are hall calls.
LEMMA OrderInv ==
  ASSUME MachineOK, QueuesOK, NEW calls,
         \/ calls \in HallOrders /\ ReceiveHallOrder(calls)
         \/ calls \in CabOrders /\ ReceiveCabOrder(calls)
  PROVE  MachineOK' /\ QueuesOK'
<1>1. UNCHANGED <<elev, toNode, timers, motor, doorLamp, lamps, shaft>> /\ toNode = {}
  BY DEF ReceiveHallOrder, ReceiveCabOrder, Selecting
<1>2. MachineOK'
  BY <1>1, MachineFrame DEF timers, MachineOK
<1>3. todo' \subseteq Calls /\ assigned' \subseteq Calls /\ OnlyHallCallsWithdrawn'
  BY InputsAssumption
  DEF ReceiveHallOrder, ReceiveCabOrder, MachineOK, Elevator, OnlyHallCallsWithdrawn, Calls,
      HallCalls, CabCalls, Buttons
<1> QED  BY <1>1, <1>2, <1>3, NothingReported DEF QueuesOK

\* The stuck timer's report, the node's taking an event and stuttering leave the machine alone.
LEMMA EventInv ==
  ASSUME MachineOK, QueuesOK, DoorStuckTimeout \/ NodeTakesEvent \/ UNCHANGED vars
  PROVE  MachineOK' /\ QueuesOK'
<1>1. /\ UNCHANGED <<elev, todo, assigned, doorOpenTimer, doorStuckTimerActive, motor, doorLamp,
                     lamps, shaft>>
      /\ doorStuckTimer' \in BOOLEAN
  BY DEF DoorStuckTimeout, NodeTakesEvent, vars, timers, MachineOK
<1>2. MachineOK'
  BY <1>1, MachineFrame DEF MachineOK
<1>3. toNode' \subseteq Events /\ CompletionIsService'
  <2>1. CASE DoorStuckTimeout
    <3>1. toNode' = {DoorStuck(TRUE)} /\ DoorStuck(TRUE) \in Events
      BY <2>1, EventType, Zenon DEF DoorStuckTimeout
    <3>2. \A c : HallAssignmentComplete(c) # DoorStuck(TRUE)
      BY EventIdentity, Zenon
    <3> QED  BY <3>1, <3>2 DEF CompletionIsService
  <2>2. CASE NodeTakesEvent \/ UNCHANGED vars
    <3>1. toNode' \subseteq toNode
      BY <2>2 DEF NodeTakesEvent, vars
    <3> QED  BY <1>1, <3>1 DEF QueuesOK, CompletionIsService, shaft, CabAt
  <2> QED  BY <2>1, <2>2
<1> QED  BY <1>1, <1>2, <1>3 DEF QueuesOK, OnlyHallCallsWithdrawn

-----------------------------------------------------------------------------
(* The theorems.                                                           *)

\* Every step of the loop, of the node and of the hardware preserves the invariant.
LEMMA StepInv == IInv /\ [Next]_vars => IInv'
<1> SUFFICES ASSUME MachineOK, QueuesOK, [Next]_vars PROVE MachineOK' /\ QueuesOK'
  BY IInvParts DEF IInv, TypeOK, Consistent, MachineOK, QueuesOK
<1>1. ASSUME NEW call \in ButtonCalls, ButtonPressed(call) PROVE MachineOK' /\ QueuesOK'
  BY <1>1, ButtonInv
<1>2. ASSUME NEW calls \in HallOrders, ReceiveHallOrder(calls) PROVE MachineOK' /\ QueuesOK'
  BY <1>2, OrderInv
<1>3. ASSUME NEW calls \in CabOrders, ReceiveCabOrder(calls) PROVE MachineOK' /\ QueuesOK'
  BY <1>3, OrderInv
<1>4. ASSUME ApplyOrder PROVE MachineOK' /\ QueuesOK'
  BY <1>4, ApplyInv
<1>5. ASSUME NEW states \in LightStates, ReceiveLightUpdate(states) PROVE MachineOK' /\ QueuesOK'
  BY <1>5, LightsInv
<1>6. ASSUME OnFloorArrival PROVE MachineOK' /\ QueuesOK'
  BY <1>6, ArrivalInv
<1>7. ASSUME SetObstruction PROVE MachineOK' /\ QueuesOK'
  BY <1>7, LightsInv
<1>8. ASSUME OnDoorTimeout PROVE MachineOK' /\ QueuesOK'
  BY <1>8, DoorTimeoutInv
<1>9. ASSUME DoorStuckTimeout \/ NodeTakesEvent \/ UNCHANGED vars PROVE MachineOK' /\ QueuesOK'
  BY <1>9, EventInv
<1>10. ASSUME PollFloorSensor \/ CabMoves PROVE MachineOK' /\ QueuesOK'
  BY <1>10, CabInv
<1> QED
  BY <1>1, <1>2, <1>3, <1>4, <1>5, <1>6, <1>7, <1>8, <1>9, <1>10 DEF Next

\* The invariant holds in every state of every behaviour of the loop.
LEMMA Invariance == Spec => []IInv
  BY InitInv, StepInv, PTL DEF Spec

\* Every variable keeps its type, for any number of floors and any orders.
THEOREM TypeCorrect == Spec => []TypeOK
<1>1. IInv => TypeOK
  BY DEF IInv
<1> QED  BY <1>1, Invariance, PTL

\* State machine, timers, lamps, hardware and the position of the cab agree in every state.
THEOREM ConsistentAlways == Spec => []Consistent
<1>1. IInv => Consistent
  BY DEF IInv
<1> QED  BY <1>1, Invariance, PTL

\* The cab never runs past an end floor, without any test for one in the code: whatever the
\* node withdraws, the cab stops where nothing is left ahead.
THEOREM StaysInShaft == Spec => []CabInShaft
<1>1. IInv => CabInShaft
  BY DEF IInv, Consistent, PositionKnown, Homing, Travelling, Leaving, Arriving, Reported, CabAt,
         CabInShaft
<1> QED  BY <1>1, Invariance, PTL

\* The door is open only at the floor the state machine believes in, with the motor stopped.
THEOREM DoorsSafe == Spec => []DoorsOnlyAtFloor
<1>1. IInv => DoorsOnlyAtFloor
  BY DEF IInv, Consistent, MotorFollowsState, DoorFollowsState, PositionKnown, Reported,
         DoorsOnlyAtFloor
<1> QED  BY <1>1, Invariance, PTL

\* An elevator with calls to serve is driving or has its door timer running.
THEOREM NeverParks == Spec => []NeverParksWithWork
<1>1. IInv => NeverParksWithWork
  BY DEF IInv, TypeOK, Consistent, MotorFollowsState, DoorFollowsState, RestsWithoutWork, Elevator,
         Behaviors, NeverParksWithWork
<1> QED  BY <1>1, Invariance, PTL

\* The cab lamps show exactly the cab calls to be served.
THEOREM LampsAlwaysTruthful == Spec => []LampsTruthful
<1>1. IInv => LampsTruthful
  BY DEF IInv, Consistent
<1> QED  BY <1>1, Invariance, PTL

\* A completion reaches the node only from an elevator standing at that floor, door open.
THEOREM CompletionsHonest == Spec => []CompletionIsService
<1>1. IInv => CompletionIsService
  BY DEF IInv, Consistent
<1> QED  BY <1>1, Invariance, PTL

\* A call leaves the table by being served at its floor, or a hall call by being withdrawn.
LEMMA LeavesServed ==
  ASSUME IInv, [Next]_vars, NEW c \in elev.Requests, c \notin elev'.Requests
  PROVE  \/ CabAt(c[1]) /\ elev'.Behavior = "doorOpen" /\ doorOpenTimer'
         \/ c \in HallCalls /\ c \in todo \ assigned
<1>1. MachineOK /\ QueuesOK /\ elev \in Elevator
  BY IInvParts DEF MachineOK
<1>2. \A call \in Calls : OnRequestButtonPress(HandleButtonEvent(elev, call)) =>
                             elev.Requests \subseteq elev'.Requests
  <2> SUFFICES ASSUME NEW call \in Calls, OnRequestButtonPress(HandleButtonEvent(elev, call))
               PROVE  elev.Requests \subseteq elev'.Requests
    OBVIOUS
  <2>1. Settled(elev)
    BY <1>1 DEF MachineOK, Settled, RestsWithoutWork, PositionKnown
  <2> QED  BY <1>1, <2>1, ButtonEvent DEF OnRequestButtonPress, ButtonEffect
<1>3. CASE ApplyOrder
  <2>1. PICK call \in todo :
          \/ OnRequestButtonPress(HandleButtonEvent(elev, call))
          \/ call \notin assigned /\ RemoveRequest(call)
    BY <1>3 DEF ApplyOrder
  <2>2. call \notin assigned /\ RemoveRequest(call)
    BY <1>1, <1>2, <2>1 DEF QueuesOK
  <2>3. c = call
    BY <1>1, <2>2 DEF RemoveRequest, Elevator
  <2> QED  BY <1>1, <2>2, <2>3 DEF QueuesOK, OnlyHallCallsWithdrawn
<1>4. CASE OnFloorArrival
  <2> DEFINE here == [elev EXCEPT !.Floor = floorEvent]
  <2>1. /\ floorEvent \in Floors /\ CabAt(floorEvent)
    BY <1>1, <1>4
    DEF OnFloorArrival, MachineOK, PositionKnown, Homing, Travelling, Leaving, Arriving, Reported
  <2>2. here \in Elevator /\ here.Requests = elev.Requests /\ here.Floor = floorEvent
    BY <1>1, <2>1 DEF Elevator
  <2>3. ClearEffect(here, RequestsClearAtCurrentFloor(here))
    BY <2>2, ClearAtCurrentFloor
  <2> HIDE DEF here
  <2>4. /\ elev' = [RequestsClearAtCurrentFloor(here) EXCEPT !.Behavior = "doorOpen"]
        /\ doorOpenTimer'
    BY <1>4, <2>2 DEF OnFloorArrival, here
  <2>5. /\ elev'.Behavior = "doorOpen"
        /\ elev'.Requests = RequestsClearAtCurrentFloor(here).Requests
    BY <2>3, <2>4 DEF ClearEffect, Elevator
  <2> QED  BY <2>1, <2>2, <2>3, <2>4, <2>5 DEF ClearEffect
<1>5. CASE OnDoorTimeout
  <2>1. elev.Behavior = "doorOpen" /\ elev.Floor \in Floors /\ CabAt(elev.Floor)
    BY <1>1, <1>5 DEF OnDoorTimeout, MachineOK, DoorFollowsState, PositionKnown, Reported
  <2>2. TimeoutEffect(elev, HandleDoorTimeout(elev))
    BY <1>1, <2>1, DoorTimeout
  <2> QED  BY <1>5, <2>1, <2>2 DEF OnDoorTimeout, TimeoutEffect
<1>6. CASE \E call \in ButtonCalls : ButtonPressed(call)
  <2>1. PICK call \in ButtonCalls : ButtonPressed(call)
    BY <1>6
  <2>2. call \in Calls
    BY InputsAssumption
  <2> QED  BY <1>2, <2>1, <2>2 DEF ButtonPressed
<1>7. CASE (\E states \in LightStates : ReceiveLightUpdate(states)) \/ SetObstruction
  <2>1. elev'.Requests = elev.Requests
    BY <1>1, <1>7 DEF ReceiveLightUpdate, SetObstruction, Elevator
  <2> QED  BY <2>1
<1>8. CASE \/ \E calls \in HallOrders : ReceiveHallOrder(calls)
           \/ \E calls \in CabOrders : ReceiveCabOrder(calls)
           \/ DoorStuckTimeout \/ NodeTakesEvent \/ PollFloorSensor \/ CabMoves
           \/ UNCHANGED vars
  BY <1>8 DEF ReceiveHallOrder, ReceiveCabOrder, DoorStuckTimeout, NodeTakesEvent,
              PollFloorSensor, CabMoves, vars
<1> QED  BY <1>3, <1>4, <1>5, <1>6, <1>7, <1>8 DEF Next

\* RequestsClearAtCurrentFloor and RemoveRequest are the only ways out of the table: no call is
\* lost without being served or withdrawn.
THEOREM CallsOnlyLeaveServed == Spec => CallsLeaveServed
<1>1. IInv /\ [Next]_vars =>
        [\A c \in elev.Requests \ elev'.Requests :
            \/ CabAt(c[1]) /\ elev'.Behavior = "doorOpen" /\ doorOpenTimer'
            \/ c \in HallCalls /\ c \in todo \ assigned]_vars
  BY LeavesServed
<1> QED  BY <1>1, Invariance, PTL DEF Spec, CallsLeaveServed

-----------------------------------------------------------------------------
(* One elevator implements SafeLift.                                       *)

\* Power-up is an initial state of the lift: shut, somewhere in the shaft.
LEMMA LiftInit == Init => Lift!LiftInit
  BY DEF Init, Lift!LiftInit, Lift!Positions

\* A step that does not move the cab, and stops a running motor only to open the door, opens,
\* shuts, starts or stutters.
LEMMA StandingStep ==
  ASSUME MachineOK, MachineOK', UNCHANGED cab, motor = "stop" \/ motor' = motor \/ doorLamp'
  PROVE  [Lift!LiftNext]_Lift!liftVars
<1>1. doorLamp \in BOOLEAN /\ doorLamp' \in BOOLEAN /\ motor' \in {"up", "down", "stop"}
  BY DEF MachineOK, Directions
<1>2. CASE doorLamp'
  <2>1. motor' = "stop" /\ ~cab.between
    BY <1>2 DEF MachineOK, DoorFollowsState, MotorFollowsState, PositionKnown, Reported, CabAt
  <2> QED  BY <1>1, <1>2, <2>1 DEF Lift!LiftNext, Lift!Open
<1>3. CASE ~doorLamp' /\ doorLamp
  BY <1>1, <1>3 DEF Lift!LiftNext, Lift!Close
<1>4. CASE ~doorLamp' /\ ~doorLamp /\ motor' # motor
  BY <1>1, <1>4 DEF Lift!LiftNext, Lift!Start
<1>5. CASE ~doorLamp' /\ ~doorLamp /\ motor' = motor
  BY <1>1, <1>5 DEF Lift!liftVars
<1> QED  BY <1>2, <1>3, <1>4, <1>5

\* The cab travels with the doors shut, between the end floors.
LEMMA TravellingStep ==
  ASSUME MachineOK, MachineOK', CabMoves
  PROVE  Lift!Travel
<1>1. ~doorLamp /\ motor \in {"up", "down"}
  BY DEF CabMoves, MachineOK, DoorFollowsState, MotorFollowsState
<1>2. CabInShaft'
  BY DEF MachineOK, PositionKnown, Homing, Travelling, Leaving, Arriving, Reported, CabAt, CabInShaft
<1>3. cab' \in Lift!Positions
  BY <1>2 DEF MachineOK, CabInShaft, Lift!Positions
<1>4. cab'.between = ~cab.between
  BY DEF CabMoves
<1> QED  BY <1>1, <1>3, <1>4 DEF CabMoves, Lift!Travel

\* Every step of the elevator is a step of the lift, or changes nothing a passenger could see.
LEMMA LiftStep == IInv /\ IInv' /\ [Next]_vars => [Lift!LiftNext]_Lift!liftVars
<1> SUFFICES ASSUME MachineOK, MachineOK', [Next]_vars PROVE [Lift!LiftNext]_Lift!liftVars
  BY IInvParts DEF IInv, TypeOK, Consistent, MachineOK
<1>1. CASE CabMoves
  BY <1>1, TravellingStep DEF Lift!LiftNext
<1>2. CASE [Next]_vars /\ ~CabMoves
  <2>1. UNCHANGED cab
    BY <1>2 DEF Next, ButtonPressed, ReceiveHallOrder, ReceiveCabOrder, ApplyOrder,
       ReceiveLightUpdate, OnFloorArrival, SetObstruction, OnDoorTimeout, DoorStuckTimeout,
       NodeTakesEvent, PollFloorSensor, shaft, vars
  <2>2. motor = "stop" \/ motor' = motor \/ doorLamp'
    <3>1. elev.Behavior # "moving" => motor = "stop"
      BY DEF MachineOK, MotorFollowsState
    <3> QED
      BY <1>2, <3>1 DEF Next, ButtonPressed, ReceiveHallOrder, ReceiveCabOrder, ApplyOrder,
         ReceiveLightUpdate, OnFloorArrival, SetObstruction, OnDoorTimeout, DoorStuckTimeout,
         NodeTakesEvent, PollFloorSensor, OnRequestButtonPress, RemoveRequest, vars
  <2> QED  BY <2>1, <2>2, StandingStep
<1> QED  BY <1>1, <1>2

\* One elevator implements SafeLift: whatever it is told, it drives with its doors shut, opens
\* only at a floor and stays between the end floors.
THEOREM ImplementsSafeLift == Spec => LiftSafety
<1>1. Lift!LiftInit /\ [][Lift!LiftNext]_Lift!liftVars => LiftSafety
  BY DEF LiftSafety, Lift!LiftSpec
<1> QED
  BY <1>1, LiftInit, LiftStep, Invariance, PTL DEF Spec

\* SafeLift is promise enough: a lift that keeps it (the handlers of elevator_fsm.go) has its doors
\* open with the cab standing at a floor only, and the cab between the end floors.
THEOREM PromiseIsSafe == Lift!LiftSpec => []Lift!SafeDoors
<1>1. Lift!LiftInit => Lift!SafeDoors
  BY DEF Lift!LiftInit, Lift!SafeDoors
<1>2. Lift!SafeDoors /\ [Lift!LiftNext]_(Lift!liftVars) => Lift!SafeDoors'
  BY DEF Lift!SafeDoors, Lift!LiftNext, Lift!Open, Lift!Close, Lift!Start, Lift!Travel, Lift!liftVars
<1> QED  BY <1>1, <1>2, PTL DEF Lift!LiftSpec
=============================================================================
