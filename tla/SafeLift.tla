------------------------------ MODULE SafeLift ------------------------------
(***************************************************************************)
(* What a lift promises its passengers, whatever it is asked to do: it     *)
(* moves only with the doors shut, its doors open only at a floor, and it  *)
(* stays between the end floors.  SingleElevator implements it.            *)
(***************************************************************************)
EXTENDS Integers

CONSTANT NumFloors

VARIABLES cab,        \* [floor, between]: at floor, or between floor and floor + 1
          doorsOpen,  \* BOOLEAN
          motor       \* "up", "down" or "stop"

liftVars == <<cab, doorsOpen, motor>>

Positions == {p \in [floor : 0 .. NumFloors - 1, between : BOOLEAN] :
                p.between => p.floor < NumFloors - 1}

LiftInit == cab \in Positions /\ doorsOpen = FALSE /\ motor \in {"up", "down", "stop"}

\* Stop where the cab is and open, or only open: at a floor.
Open == ~cab.between /\ doorsOpen' = TRUE /\ motor' = "stop" /\ UNCHANGED cab

\* Shut the doors; the motor may start in the same instant.
Close == /\ doorsOpen
         /\ doorsOpen' = FALSE
         /\ motor' \in {"up", "down", "stop"}
         /\ UNCHANGED cab

Start == /\ ~doorsOpen /\ motor = "stop"
         /\ motor' \in {"up", "down"}
         /\ UNCHANGED <<cab, doorsOpen>>

\* Half a floor in the direction of the motor, never past the end floors.
Travel == /\ ~doorsOpen /\ motor # "stop"
          /\ cab' \in Positions
          /\ \/ motor = "up"   /\ cab'.floor = (IF cab.between THEN cab.floor + 1 ELSE cab.floor)
             \/ motor = "down" /\ cab'.floor = (IF cab.between THEN cab.floor ELSE cab.floor - 1)
          /\ cab'.between = ~cab.between
          /\ UNCHANGED <<doorsOpen, motor>>

LiftNext == Open \/ Close \/ Start \/ Travel

LiftSpec == LiftInit /\ [][LiftNext]_liftVars

\* What follows: nobody falls, neither down the shaft nor out of a moving cab.
SafeDoors == cab \in Positions /\ (doorsOpen => motor = "stop" /\ ~cab.between)
=============================================================================
