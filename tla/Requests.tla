------------------------------ MODULE Requests ------------------------------
(***************************************************************************)
(* The request algorithm of one elevator: elevator/requests.go over the    *)
(* types of elevator/elevator_sys.go.  Pure operators, no state.           *)
(*                                                                         *)
(* The boolean matrices of the code are sets of calls, a call being a      *)
(* <<floor, button>> pair: <<f, b>> is in the set iff matrix[f][b] is true *)
(***************************************************************************)
EXTENDS Integers

CONSTANT NumFloors                              \* config.NUM_FLOORS

ASSUME NumFloorsAssumption == NumFloors \in Nat \ {0}

Floors      == 0 .. NumFloors - 1
NoFloor     == -1                               \* what NewElevator and GetFloor use
HallButtons == {"HallUp", "HallDown"}
Buttons     == HallButtons \cup {"Cab"}
Calls       == Floors \X Buttons
HallCalls   == Floors \X HallButtons
CabCalls    == Floors \X {"Cab"}
Directions  == {"up", "down", "stop"}
Behaviors   == {"idle", "doorOpen", "moving"}

Elevator == [Floor : Floors \cup {NoFloor}, Dir : Directions, Behavior : Behaviors,
             Requests : SUBSET Calls, HallLightStates : SUBSET HallCalls,
             IsObstructed : BOOLEAN]

NewElevator == [Floor |-> NoFloor, Dir |-> "stop", Behavior |-> "idle",
                Requests |-> {}, HallLightStates |-> {}, IsObstructed |-> FALSE]

\* The three queries answer no while the floor is unknown.
RequestsAbove(e) == e.Floor \in Floors /\ \E r \in e.Requests : r[1] > e.Floor
RequestsBelow(e) == e.Floor \in Floors /\ \E r \in e.Requests : r[1] < e.Floor
RequestsHere(e)  == e.Floor \in Floors /\ \E r \in e.Requests : r[1] = e.Floor

DirBehaviorPair(dir, behavior) == [Dir |-> dir, Behavior |-> behavior]

\* A faulty variant for mutation checks: never turns back.
RequestsChooseDirection_NoTurn(e) ==
  LET dir   == IF e.Dir = "stop" THEN "up" ELSE e.Dir
      ahead == IF dir = "up" THEN RequestsAbove(e) ELSE RequestsBelow(e)
  IN  IF ahead THEN DirBehaviorPair(dir, "moving")
      ELSE IF RequestsHere(e) THEN DirBehaviorPair("stop", "doorOpen")
      ELSE DirBehaviorPair("stop", "idle")

\* Keep going while there is work ahead, then answer this floor (turned round), then turn
\* back; an elevator at rest answers its own floor first and prefers up.
RequestsChooseDirection(e) ==
  LET ahead(d) == IF d = "up" THEN RequestsAbove(e) ELSE RequestsBelow(e)
      resting  == e.Dir = "stop"
      first    == IF resting THEN "up" ELSE e.Dir
      second   == IF first = "up" THEN "down" ELSE "up"
  IN  IF ~resting /\ ahead(first) THEN DirBehaviorPair(first, "moving")
      ELSE IF RequestsHere(e)     THEN DirBehaviorPair(IF resting THEN "stop" ELSE second, "doorOpen")
      ELSE IF ahead(first)        THEN DirBehaviorPair(first, "moving")
      ELSE IF ahead(second)       THEN DirBehaviorPair(second, "moving")
      ELSE DirBehaviorPair("stop", "idle")

\* A faulty variant: drives on when nothing is left ahead.
RequestsShouldStop_OnlyForCalls(e) ==
  \/ e.Dir = "stop"
  \/ <<e.Floor, "Cab">> \in e.Requests
  \/ e.Dir = "down" /\ <<e.Floor, "HallDown">> \in e.Requests
  \/ e.Dir = "up"   /\ <<e.Floor, "HallUp">>   \in e.Requests

\* Asked on arrival at a known floor.
RequestsShouldStop(e) ==
  \/ e.Dir = "stop"
  \/ <<e.Floor, "Cab">> \in e.Requests
  \/ e.Dir = "down" /\ (<<e.Floor, "HallDown">> \in e.Requests \/ ~RequestsBelow(e))
  \/ e.Dir = "up"   /\ (<<e.Floor, "HallUp">>   \in e.Requests \/ ~RequestsAbove(e))

\* A faulty variant: answers calls for other floors too.
RequestsShouldClearImmediately_AnyFloor(e, call) ==
  \/ e.Dir = "stop"
  \/ call[2] = "Cab"
  \/ e.Dir = "up"   /\ call[2] = "HallUp"
  \/ e.Dir = "down" /\ call[2] = "HallDown"

RequestsShouldClearImmediately(e, call) ==
  /\ e.Floor = call[1]
  /\ \/ e.Dir = "stop"
     \/ call[2] = "Cab"
     \/ e.Dir = "up"   /\ call[2] = "HallUp"
     \/ e.Dir = "down" /\ call[2] = "HallDown"

\* A faulty variant: returns the cab call among the events.
HallCallsCleared_WithCab(e) == {r \in e.Requests : r[1] = e.Floor}

\* The hall calls RequestsClearAtCurrentFloor answers, which it returns as events: the one
\* in the travel direction, and the opposite one too when nothing is left ahead.
HallCallsCleared(e) ==
  {r \in e.Requests \cap HallCalls :
      /\ r[1] = e.Floor
      /\ \/ e.Dir = "stop"
         \/ e.Dir = "up"   /\ (r[2] = "HallUp"   \/ ~RequestsAbove(e))
         \/ e.Dir = "down" /\ (r[2] = "HallDown" \/ ~RequestsBelow(e))}

\* A faulty variant: forgets the cab call.
RequestsClearAtCurrentFloor_NotCab(e) == [e EXCEPT !.Requests = @ \ HallCallsCleared(e)]

RequestsClearAtCurrentFloor(e) ==
  [e EXCEPT !.Requests = @ \ (HallCallsCleared(e) \cup {<<e.Floor, "Cab">>})]
=============================================================================
