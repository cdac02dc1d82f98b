------------------------------ MODULE Election ------------------------------
(***************************************************************************)
(* How several nodes find a master and lose it again: DisconnectedProgram  *)
(* and the parts of SlaveProgram, MasterProgram and NodeElevStateServer    *)
(* that notice who is there.                                               *)
(*                                                                         *)
(* Time passes in ticks of 500 ms, the period of connectionRequestTicker;  *)
(* every timer of the election is a multiple of it.  What takes            *)
(* milliseconds (a message, its answer, a timer that has gone off) happens *)
(* between two ticks, in any order.  Nodes hear each other when they are   *)
(* on the same side of the network, which may be cut in two and healed.    *)
(* Whether node and server block each other is the business of NodeProgram *)
(* and left out.                                                           *)
(***************************************************************************)
EXTENDS Integers, FiniteSets

CONSTANTS Nodes,          \* the ids of the nodes
          DecisionTicks,  \* DISCONNECTED_DECISION_INTERVAL: 4 ticks
          ContactTicks,   \* NODE_CONNECTION_TIMEOUT: 4 ticks
          MaxFaults       \* bound: nodes that stop and changes of the network

\* A node asks at least twice before it decides; the code's three times.
ASSUME ElectionAssumption ==
  /\ Nodes \subseteq Nat /\ IsFiniteSet(Nodes)
  /\ DecisionTicks \in Nat /\ DecisionTicks > 2
  /\ ContactTicks \in Nat \ {0}
  /\ MaxFaults \in Nat

VARIABLES
  mode,         \* node.State; a process that is down or has a stuck door is Inactive
  tolc,         \* node.TOLC: 0 when zero, else its rank among those of all nodes
  heard,        \* Disconnected: the keys of incomingConnRequests
  rivals,       \* those of them whose request forbids to be master
  due,          \* nodes whose connectionRequestTicker has gone off
  timer,        \* ticks left of decisionTimer, or else of connectionTimeoutTimer
  masterTimer,  \* Slave: masterConnectionTimeoutTimer
  asked,        \* masters with a request in activeConnReq
  away,         \* nodes on the other side of a cut network
  changed,      \* history: the network has changed since the start
  faults        \* history: how many faults there were

network == <<away, changed, faults>>
vars == <<mode, tolc, heard, rivals, due, timer, masterTimer, asked, network>>

Modes        == {"Inactive", "Disconnected", "Master", "Slave"}
MasterTimers == {"stopped", "running", "expired"}

In(m) == {n \in Nodes : mode[n] = m}

\* The sides are named so that the node with the highest id is never away.
Movable == {n \in Nodes : \E p \in Nodes : p > n}

\* The others on n's side of the network.
Near(n) == {p \in Nodes \ {n} : (p \in away) = (n \in away)}

\* Only masters and slaves pass NodeElevState on, many times in a tick.
InContact(n)   == Near(n) \cap (In("Master") \cup In("Slave")) # {}
HearsMaster(n) == Near(n) \cap In("Master") # {}

-----------------------------------------------------------------------------
(* Time of last contact.                                                   *)

\* The times kept by their order only.
Ranked(times) == [n \in Nodes |-> Cardinality({times[p] : p \in Nodes} \cap 1..times[n])]

\* node.TOLC = time.Now(): later than every other.
ContactNow(n) == Ranked([tolc EXCEPT ![n] = Cardinality(Nodes) + 1])

\* Faulty variants: ids are not compared; only ids are; a later contact is required.
Outranks_NoIDs(p, n)    == IF tolc[n] = 0 THEN tolc[p] # 0 ELSE tolc[n] < tolc[p]
Outranks_OnlyIDs(p, n)  == p > n
Outranks_NotAfter(p, n) == tolc[n] <= tolc[p]

\* The request of p keeps ShouldBeMaster of n from being true.
Outranks(p, n) ==
  IF tolc[n] = 0 THEN p > n \/ tolc[p] # 0 ELSE tolc[n] < tolc[p]

-----------------------------------------------------------------------------
(* Entering and leaving a mode.                                            *)

Init ==
  /\ mode = [n \in Nodes |-> "Inactive"]
  /\ tolc = [n \in Nodes |-> 0]
  /\ heard = [n \in Nodes |-> {}] /\ rivals = [n \in Nodes |-> {}]
  /\ timer = [n \in Nodes |-> 0]
  /\ masterTimer = [n \in Nodes |-> "stopped"]
  /\ due = {} /\ asked = {} /\ away \in SUBSET Movable
  /\ changed = FALSE /\ faults = 0

\* A faulty variant: connectionRequestTicker goes on after the mode is left.
Enter_TickerRuns(ns, m) ==
  /\ mode' = [n \in Nodes |-> IF n \in ns THEN m ELSE mode[n]]
  /\ heard' = [n \in Nodes |-> IF n \in ns THEN {} ELSE heard[n]]
  /\ rivals' = [n \in Nodes |-> IF n \in ns THEN {} ELSE rivals[n]]
  /\ masterTimer' = [n \in Nodes |-> IF n \in ns THEN "stopped" ELSE masterTimer[n]]
  /\ timer' = [n \in Nodes |-> IF n \in ns THEN ContactTicks ELSE timer[n]]
  /\ due' = due

\* The nodes ns go over to mode m; whatever the program of the old mode kept is gone.
Enter(ns, m) ==
  /\ mode' = [n \in Nodes |-> IF n \in ns THEN m ELSE mode[n]]
  /\ heard' = [n \in Nodes |-> IF n \in ns THEN {} ELSE heard[n]]
  /\ rivals' = [n \in Nodes |-> IF n \in ns THEN {} ELSE rivals[n]]
  /\ masterTimer' = [n \in Nodes |-> IF n \in ns THEN "stopped" ELSE masterTimer[n]]
  /\ timer' = [n \in Nodes |->
       IF n \notin ns THEN timer[n]
       ELSE CASE m = "Inactive" -> 0 [] m = "Disconnected" -> DecisionTicks [] OTHER -> ContactTicks]
  /\ due' = due \ ns

\* The elevator of a new process reports its door free.
Start(n) ==
  /\ mode[n] = "Inactive"
  /\ Enter({n}, "Disconnected")
  /\ UNCHANGED <<tolc, asked, network>>

\* The process ends, or its door is stuck; what starts again is a new process.
Stop(n) ==
  /\ mode[n] # "Inactive" /\ faults < MaxFaults
  /\ Enter({n}, "Inactive")
  /\ tolc' = Ranked([tolc EXCEPT ![n] = 0])
  /\ asked' = asked \ {n}
  /\ faults' = faults + 1
  /\ UNCHANGED <<away, changed>>

NetworkChanges ==
  /\ faults < MaxFaults
  /\ away' \in SUBSET Movable \ {away}
  /\ changed' = TRUE
  /\ faults' = faults + 1
  /\ UNCHANGED <<mode, tolc, heard, rivals, due, timer, masterTimer, asked>>

-----------------------------------------------------------------------------
(* Disconnected nodes.                                                     *)

\* A faulty variant: a master answers only nodes that never had contact.
SendConnectionReq_NewOnly(n) ==
  /\ n \in due
  /\ due' = due \ {n}
  /\ LET hearers == Near(n) \cap In("Disconnected") IN
       /\ heard' = [p \in Nodes |-> IF p \in hearers THEN heard[p] \cup {n} ELSE heard[p]]
       /\ rivals' = [p \in Nodes |->
            IF p \notin hearers THEN rivals[p]
            ELSE IF Outranks(n, p) THEN rivals[p] \cup {n} ELSE rivals[p] \ {n}]
  /\ asked' = IF tolc[n] = 0 THEN asked \cup (Near(n) \cap In("Master")) ELSE asked
  /\ UNCHANGED <<mode, tolc, timer, masterTimer, network>>

SendConnectionReq(n) ==
  /\ n \in due
  /\ due' = due \ {n}
  /\ LET hearers == Near(n) \cap In("Disconnected") IN
       /\ heard' = [p \in Nodes |-> IF p \in hearers THEN heard[p] \cup {n} ELSE heard[p]]
       /\ rivals' = [p \in Nodes |->
            IF p \notin hearers THEN rivals[p]
            ELSE IF Outranks(n, p) THEN rivals[p] \cup {n} ELSE rivals[p] \ {n}]
  /\ asked' = asked \cup (Near(n) \cap In("Master"))
  /\ UNCHANGED <<mode, tolc, timer, masterTimer, network>>

\* The master has got the states from the server and sends CabRequestInfo: whoever
\* is Disconnected and gets one, for itself or not, has found a master.
AnswerConnectionReq(m) ==
  /\ m \in asked
  /\ asked' = asked \ {m}
  /\ Enter(Near(m) \cap In("Disconnected"), "Slave")
  /\ UNCHANGED <<tolc, network>>

DecisionTimeout(n) ==
  /\ mode[n] = "Disconnected" /\ timer[n] = 0
  /\ IF heard[n] # {} /\ rivals[n] = {}
     THEN Enter({n}, "Master")
     ELSE /\ timer' = [timer EXCEPT ![n] = DecisionTicks]
          /\ UNCHANGED <<mode, heard, rivals, masterTimer, due>>
  /\ UNCHANGED <<tolc, asked, network>>

-----------------------------------------------------------------------------
(* Slaves and masters.                                                     *)

ReceiveGlobalHallRequest(n) ==
  /\ mode[n] = "Slave" /\ HearsMaster(n)
  /\ tolc' = ContactNow(n)
  /\ masterTimer' = [masterTimer EXCEPT ![n] = "running"]
  /\ UNCHANGED <<mode, heard, rivals, due, timer, asked, network>>

MasterConnectionTimeout(n) ==
  /\ masterTimer[n] = "expired"
  /\ Enter({n}, "Disconnected")
  /\ UNCHANGED <<tolc, asked, network>>

\* A faulty variant: requests the master has not answered outlive its reign.
LoseConnection_KeepsRequests(n) ==
  /\ mode[n] \in {"Master", "Slave"} /\ timer[n] = 0
  /\ Enter({n}, "Disconnected")
  /\ tolc' = IF mode[n] = "Master" THEN ContactNow(n) ELSE tolc
  /\ UNCHANGED <<asked, network>>

\* NodeHasLostConnection: nothing of any other node for as long as the timer runs.
LoseConnection(n) ==
  /\ mode[n] \in {"Master", "Slave"} /\ timer[n] = 0
  /\ Enter({n}, "Disconnected")
  /\ tolc' = IF mode[n] = "Master" THEN ContactNow(n) ELSE tolc
  /\ asked' = asked \ {n}
  /\ UNCHANGED network

-----------------------------------------------------------------------------
(* Time.                                                                   *)

\* Nothing is left that takes milliseconds: broadcasts come every 50 ms.
AllPromptDone ==
  /\ due = {} /\ asked = {}
  /\ \A n \in Nodes \ In("Inactive") : timer[n] > 0
  /\ \A n \in In("Slave") :
       masterTimer[n] # "expired" /\ (HearsMaster(n) => masterTimer[n] = "running")

Tick ==
  /\ AllPromptDone
  /\ due' = In("Disconnected")
  /\ timer' = [n \in Nodes |->
       CASE mode[n] = "Inactive" -> 0
         [] mode[n] \in {"Master", "Slave"} /\ InContact(n) -> ContactTicks
         [] OTHER -> timer[n] - 1]
  /\ masterTimer' = [n \in Nodes |->
       IF masterTimer[n] = "running" /\ ~HearsMaster(n) THEN "expired" ELSE masterTimer[n]]
  /\ UNCHANGED <<mode, tolc, heard, rivals, asked, network>>

\* Whatever node n has to do next.
NodeStep(n) ==
  \/ SendConnectionReq(n)
  \/ AnswerConnectionReq(n)
  \/ DecisionTimeout(n)
  \/ ReceiveGlobalHallRequest(n)
  \/ MasterConnectionTimeout(n)
  \/ LoseConnection(n)

Next ==
  \/ \E n \in Nodes : Start(n) \/ Stop(n) \/ NodeStep(n)
  \/ NetworkChanges
  \/ Tick

Spec == Init /\ [][Next]_vars

\* Time passes, and a node does something of what it has to do.
FairSpec == Spec /\ WF_vars(Tick) /\ \A n \in Nodes : WF_vars(NodeStep(n))

-----------------------------------------------------------------------------
(* Properties.                                                             *)

\* Every variable keeps its type; only Disconnected nodes have their request
\* ticker running and only masters have requests to answer.
TypeOK ==
  /\ mode \in [Nodes -> Modes]
  /\ tolc \in [Nodes -> 0..Cardinality(Nodes)]
  /\ heard \in [Nodes -> SUBSET Nodes]
  /\ \A n \in Nodes : rivals[n] \subseteq heard[n]
  /\ due \subseteq In("Disconnected")
  /\ timer \in [Nodes -> 0..(DecisionTicks + ContactTicks)]
  /\ masterTimer \in [Nodes -> MasterTimers]
  /\ asked \subseteq In("Master")
  /\ away \subseteq Nodes
  /\ changed \in BOOLEAN /\ faults \in 0..MaxFaults

\* While the network stays as it was, whole or cut, two masters never hear each
\* other, whatever nodes start and stop in between: ShouldBeMaster of one has
\* then seen the other's request, or the other's answer makes it a slave.
AtMostOneMaster ==
  ~changed => \A n, p \in In("Master") : p \notin Near(n)

\* The node elected has the latest contact, and with it the newest
\* GlobalHallRequests, of all that have been Disconnected long enough to be
\* heard: the comparison of disconnected.go:113 with a request sent earlier
\* decides as one with the present times would.
LatestContactElected ==
  [][\A n, p \in Nodes :
       /\ mode[n] = "Disconnected" /\ mode'[n] = "Master"
       /\ mode[p] = "Disconnected" /\ timer[p] < DecisionTicks - 1
       /\ p \in Near(n) /\ ~changed
       => tolc[p] <= tolc[n]]_vars

\* Who hears whom.
Hearing == [n \in Nodes |-> Near(n)]

Leadership == INSTANCE Mastership WITH role <- mode, near <- Hearing, steady <- ~changed

\* The timers, requests and answers of the programs (disconnected.go:38, slave.go:86,
\* master.go:185) bring about nothing but what Mastership allows: no slave without a
\* master's answer, and no second master within a master's hearing.
ImplementsMastership == Leadership!MastershipSpec

\* The nodes on n's side that run, n among them.
Live(n) == (Near(n) \cup {n}) \ In("Inactive")

\* A Disconnected node on n's side still counts a request of a node that is gone,
\* has changed its mode or is out of reach: incomingConnRequests never forgets.
StaleRival(n) == \E p \in Live(n) \cap In("Disconnected") : \E q \in rivals[p] :
                   q \notin Near(p) \/ mode[q] # "Disconnected"

\* A slave on n's side that never heard its master: its timer was never started,
\* and such slaves keep the connection timers of each other from going off.
NeverHeardMaster(n) == \E p \in Live(n) \cap In("Slave") : masterTimer[p] = "stopped"

\* When the faults are over, nodes that hear each other end up with a master for
\* good, unless a stale request or slaves whose timer never ran keep them from it.
ElectionSettles ==
  <>[](\A n \in Nodes \ In("Inactive") :
         \/ Live(n) = {n}
         \/ Live(n) \cap In("Master") # {}
         \/ StaleRival(n)
         \/ NeverHeardMaster(n))

\* A node that hears a master does not stay Disconnected: its request is answered.
NewcomersJoin ==
  \A n \in Nodes : mode[n] = "Disconnected" /\ HearsMaster(n)
                   ~> mode[n] # "Disconnected" \/ ~HearsMaster(n)

\* GlobalHallRequest is "Meant to be broadcast by master and only master"
\* (messagetypes.go:30): nodes that hear each other end up with at most one.
OneMasterInTheEnd ==
  <>[](\A n, p \in In("Master") : p \notin Near(n))

=============================================================================
