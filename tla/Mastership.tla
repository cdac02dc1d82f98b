----------------------------- MODULE Mastership -----------------------------
(***************************************************************************)
(* What the election promises, whatever timers, requests and answers bring *)
(* it about: a node that runs is Disconnected, Master or Slave; it becomes *)
(* slave only when a master within its hearing takes it in, and, until the *)
(* network changes, master only when no master is within its hearing.      *)
(* Election implements it.                                                 *)
(***************************************************************************)

CONSTANT Nodes

VARIABLES
  role,    \* the mode of each node
  near,    \* the nodes each node hears
  steady   \* the network is what it was at the start

mastershipVars == <<role, near, steady>>

Roles == {"Inactive", "Disconnected", "Master", "Slave"}

\* Who hears is heard.
Hearings == {h \in [Nodes -> SUBSET Nodes] :
               \A n, p \in Nodes : n \notin h[n] /\ (p \in h[n] => n \in h[p])}

MastershipInit ==
  role = [n \in Nodes |-> "Inactive"] /\ near \in Hearings /\ steady = TRUE

\* The nodes ns take a role.
Become(ns, r) ==
  /\ role' = [n \in Nodes |-> IF n \in ns THEN r ELSE role[n]]
  /\ UNCHANGED <<near, steady>>

Join(n)  == role[n] = "Inactive" /\ Become({n}, "Disconnected")
Leave(n) == role[n] # "Inactive" /\ Become({n}, "Inactive")

\* Nobody to lead or to follow any more.
StandAlone(n) == role[n] \in {"Master", "Slave"} /\ Become({n}, "Disconnected")

Elect(n) ==
  /\ role[n] = "Disconnected"
  /\ steady => \A p \in near[n] : role[p] # "Master"
  /\ Become({n}, "Master")

\* The answer of a master reaches all that hear it.
TakeIn(m) ==
  role[m] = "Master" /\ Become({n \in near[m] : role[n] = "Disconnected"}, "Slave")

Rewire == near' \in Hearings /\ steady' = FALSE /\ UNCHANGED role

MastershipNext ==
  \/ Rewire
  \/ \E n \in Nodes : Join(n) \/ Leave(n) \/ StandAlone(n) \/ Elect(n) \/ TakeIn(n)

MastershipSpec == MastershipInit /\ [][MastershipNext]_mastershipVars

\* What follows: two masters within each other's hearing are the network's doing.
MastersApart ==
  steady => \A n, p \in Nodes : role[n] = "Master" /\ role[p] = "Master" => p \notin near[n]
=============================================================================
