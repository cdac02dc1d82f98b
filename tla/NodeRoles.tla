----------------------------- MODULE NodeRoles -----------------------------
(***************************************************************************)
(* What a node promises the others, however its goroutines get there: it   *)
(* goes over to a new role only when it has fallen silent, in a role it    *)
(* sends nothing but what is the role's to send, no master becomes a slave *)
(* or the reverse without being Disconnected in between, and a node that   *)
(* has dropped out does not come back.  NodeProgram implements it.         *)
(***************************************************************************)

VARIABLES
  role,   \* the mode the node is in
  fresh,  \* the node has not begun yet
  sends   \* the transmitters that are on

roleVars == <<role, fresh, sends>>

Transmitters == {"broadcast", "assigner", "complete"}

Right(r) == IF r = "Master" THEN {"broadcast", "assigner"}
            ELSE IF r = "Slave" THEN {"complete"} ELSE {}

\* Where a node in role r may go to.
Ways(r) == IF r = "Inactive" THEN {"Disconnected"}
           ELSE IF r = "Disconnected" THEN {"Master", "Slave", "Inactive"}
           ELSE {"Disconnected", "Inactive"}

RoleInit == role = "Inactive" /\ fresh = TRUE /\ sends = {}

ChangeRole ==
  /\ sends = {}
  /\ role = "Inactive" => fresh
  /\ role' \in Ways(role)
  /\ fresh' = FALSE
  /\ UNCHANGED sends

SwitchOn  == /\ \E t \in Right(role) \ sends : sends' = sends \cup {t}
             /\ UNCHANGED <<role, fresh>>

SwitchOff == /\ \E t \in sends : sends' = sends \ {t}
             /\ UNCHANGED <<role, fresh>>

RoleNext == ChangeRole \/ SwitchOn \/ SwitchOff

RoleSpec == RoleInit /\ [][RoleNext]_roleVars

\* What follows: nobody but a master broadcasts or assigns, and nobody but a slave completes.
SendsItsOwn == sends \subseteq Right(role)
=============================================================================
