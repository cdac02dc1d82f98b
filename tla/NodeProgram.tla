---------------------------- MODULE NodeProgram ----------------------------
(***************************************************************************)
(* The goroutines of one node and the channels between them: the node loop *)
(* (main.go and the four programs of node/), NodeElevStateServer           *)
(* (messagehandler/receivers.go) and ElevatorProgram                       *)
(* (singleelevator/elevatorprogram.go).                                    *)
(*                                                                         *)
(* Control only.  A handler of the node loop is the sequence of channel    *)
(* operations it has yet to do, and the node is in its select when none is *)
(* left.  Unbuffered channels are joint steps of the two ends.  Channels   *)
(* to the broadcaster and to the transmitters are always read in the end   *)
(* and block nobody for ever; of those only the enabling is kept.  Which   *)
(* requests there are, and how much time has passed since the last state   *)
(* request, is left open.                                                  *)
(***************************************************************************)
EXTENDS Integers, Sequences

CONSTANTS UpdateCapacity,  \* capacity of ElevLightAndAssignmentUpdateTx: 3 in MakeNode
          MaxPeers         \* bound: other nodes on the network

ASSUME NodeAssumption == UpdateCapacity \in Nat \ {0} /\ MaxPeers \in Nat \ {0}

VARIABLES
  mode,             \* node.State
  hasRequests,      \* some call in node.GlobalHallRequests?
  todo,             \* channel operations left in the current handler
  heard,            \* Disconnected: a connection request of another node came in
  masterTimer,      \* Slave: masterConnectionTimeoutTimer armed?
  broadcast, assigner, complete,   \* the three transmitters: enabled?
  serverSends,      \* what NodeElevStateServer is sending, or Nothing
  nodeIsConnected, connectionTimer, peerTimer,   \* NodeElevStateServer
  peers, lastActive,                \* other nodes active now; len(lastActiveNodes)
  updates,          \* the buffer of ElevLightAndAssignmentUpdateTx
  hasCalls,         \* some hall call in the elevator's table?
  elevatorSends     \* events ElevatorProgram is sending to the node

transmitters == <<broadcast, assigner, complete>>
serverVars   == <<serverSends, nodeIsConnected, connectionTimer, peerTimer, lastActive>>
elevatorVars == <<updates, hasCalls, elevatorSends>>
vars == <<mode, hasRequests, todo, heard, masterTimer, transmitters, serverVars, peers, elevatorVars>>

Modes         == {"Inactive", "Disconnected", "Master", "Slave"}
Commands      == {"getActiveElevStates", "getAllElevStates",
                  "startConnectionTimeoutDetection", "stopConnectionTimeoutDetection"}
Updates       == {"light", "hallOrder", "cabOrder"}
Switches      == {"broadcastOn", "broadcastOff", "assignerOn", "assignerOff", "completeOn", "completeOff"}
Nothing       == "nothing"
NetworkEvents == {"NodeConnectDisconnect", "NodeHasLostConnection"}
ServerSends   == NetworkEvents \cup {"ElevStateUpdate", Nothing}
ElevatorEvents == {"HallButton", "Complete", "DoorStuck", "DoorFree"}

\* The node loop is in its select; what the handler does next otherwise.
Selecting == todo = <<>>
Doing(op) == todo # <<>> /\ Head(todo) = op /\ todo' = Tail(todo)

\* Either of two ways to finish a handler.
Either(a, b) == todo' = a \/ todo' = b

-----------------------------------------------------------------------------
(* Changing mode.                                                          *)

\* A faulty variant for mutation checks: the slave leaves its transmitter on.
Exit_SlaveKeepsOn(m, next) ==
  IF m = "Master" THEN <<"broadcastOff", "assignerOff", "stopConnectionTimeoutDetection", next>>
  ELSE <<next>>

\* What the program of mode m does on its way out, and the next mode.
Exit(m, next) ==
  IF m = "Master" THEN <<"broadcastOff", "assignerOff", "stopConnectionTimeoutDetection", next>>
  ELSE IF m = "Slave" THEN <<"completeOff", next>>
  ELSE <<next>>

MasterEntry == <<"light", "broadcastOn", "assignerOn", "startConnectionTimeoutDetection">>

Entry(m) ==
  IF m = "Master" THEN IF hasRequests THEN <<"getActiveElevStates">> \o MasterEntry ELSE MasterEntry
  ELSE IF m = "Slave" THEN <<"completeOn", "startConnectionTimeoutDetection">>
  ELSE <<>>

\* break ForLoop.
Leave(next) == todo' = Exit(mode, next)

EnterMode(m) ==
  /\ todo # <<>> /\ Head(todo) = m
  /\ mode' = m
  /\ todo' = Entry(m)
  /\ heard' = FALSE /\ masterTimer' = FALSE
  /\ UNCHANGED <<hasRequests, transmitters, serverVars, peers, elevatorVars>>

\* A faulty variant: the broadcasting transmitter listens to another channel.
SwitchTransmitter_NoBroadcast ==
  /\ \/ Doing("assignerOn")   /\ assigner' = TRUE   /\ UNCHANGED <<broadcast, complete>>
     \/ Doing("assignerOff")  /\ assigner' = FALSE  /\ UNCHANGED <<broadcast, complete>>
     \/ Doing("completeOn")   /\ complete' = TRUE   /\ UNCHANGED <<broadcast, assigner>>
     \/ Doing("completeOff")  /\ complete' = FALSE  /\ UNCHANGED <<broadcast, assigner>>
  /\ UNCHANGED <<mode, hasRequests, heard, masterTimer, serverVars, peers, elevatorVars>>

SwitchTransmitter ==
  /\ \/ Doing("broadcastOn")  /\ broadcast' = TRUE  /\ UNCHANGED <<assigner, complete>>
     \/ Doing("broadcastOff") /\ broadcast' = FALSE /\ UNCHANGED <<assigner, complete>>
     \/ Doing("assignerOn")   /\ assigner' = TRUE   /\ UNCHANGED <<broadcast, complete>>
     \/ Doing("assignerOff")  /\ assigner' = FALSE  /\ UNCHANGED <<broadcast, complete>>
     \/ Doing("completeOn")   /\ complete' = TRUE   /\ UNCHANGED <<broadcast, assigner>>
     \/ Doing("completeOff")  /\ complete' = FALSE  /\ UNCHANGED <<broadcast, assigner>>
  /\ UNCHANGED <<mode, hasRequests, heard, masterTimer, serverVars, peers, elevatorVars>>

-----------------------------------------------------------------------------
(* NodeElevStateServer.                                                    *)

ServerSelecting == serverSends = Nothing

ServerTakesCommand(command) ==
  /\ ServerSelecting /\ Doing(command)
  /\ serverSends' = IF command \in {"getActiveElevStates", "getAllElevStates"}
                    THEN "ElevStateUpdate" ELSE Nothing
  /\ \/ command = "startConnectionTimeoutDetection"
        /\ nodeIsConnected' = TRUE /\ connectionTimer' = TRUE /\ peerTimer' = TRUE
     \/ command # "startConnectionTimeoutDetection"
        /\ UNCHANGED <<nodeIsConnected, connectionTimer, peerTimer>>
  /\ UNCHANGED <<mode, hasRequests, heard, masterTimer, transmitters, lastActive, peers, elevatorVars>>

\* peerTimeoutTicker is a Timer: it goes off once.
PeerTimeout ==
  /\ ServerSelecting /\ peerTimer
  /\ peerTimer' = FALSE
  /\ lastActive' = peers
  /\ serverSends' = IF peers # lastActive THEN "NodeConnectDisconnect" ELSE Nothing
  /\ UNCHANGED <<mode, hasRequests, todo, heard, masterTimer, transmitters, nodeIsConnected,
                 connectionTimer, peers, elevatorVars>>

\* A faulty variant: takes one node off lastActiveNodes instead of emptying it.
ConnectionTimeout_DropsOne ==
  /\ ServerSelecting /\ connectionTimer /\ (nodeIsConnected => peers = 0)
  /\ peerTimer' = FALSE /\ nodeIsConnected' = FALSE /\ lastActive' = lastActive - 1
  /\ serverSends' = "NodeHasLostConnection"
  /\ UNCHANGED <<mode, hasRequests, todo, heard, masterTimer, transmitters, connectionTimer, peers,
                 elevatorVars>>

\* connectionTimeoutTimer is a Ticker, set back by every state that comes in while the node is
\* connected: then it goes off only when nobody has been heard for its whole period.
ConnectionTimeout ==
  /\ ServerSelecting /\ connectionTimer /\ (nodeIsConnected => peers = 0)
  /\ peerTimer' = FALSE /\ nodeIsConnected' = FALSE /\ lastActive' = 0
  /\ serverSends' = "NodeHasLostConnection"
  /\ UNCHANGED <<mode, hasRequests, todo, heard, masterTimer, transmitters, connectionTimer, peers,
                 elevatorVars>>

\* Another node starts or stops to be heard.
PeersChange ==
  /\ \E n \in 0 .. MaxPeers : n # peers /\ peers' = n
  /\ UNCHANGED <<mode, hasRequests, todo, heard, masterTimer, transmitters, serverVars, elevatorVars>>

\* The node takes what the server sends.
TakeElevStateUpdate ==
  /\ Selecting /\ serverSends = "ElevStateUpdate"
  /\ serverSends' = Nothing
  /\ IF mode = "Master" THEN todo' = <<"hallOrder", "light">> ELSE todo' = todo
  /\ UNCHANGED <<mode, hasRequests, heard, masterTimer, transmitters, nodeIsConnected,
                 connectionTimer, peerTimer, lastActive, peers, elevatorVars>>

TakeNetworkEvent ==
  /\ Selecting /\ serverSends \in NetworkEvents
  /\ serverSends' = Nothing
  /\ CASE mode \in {"Master", "Slave"} /\ serverSends = "NodeHasLostConnection" -> Leave("Disconnected")
       [] mode = "Master" /\ serverSends = "NodeConnectDisconnect" -> todo' = <<"getActiveElevStates">>
       [] OTHER -> todo' = todo
  /\ UNCHANGED <<mode, hasRequests, heard, masterTimer, transmitters, nodeIsConnected,
                 connectionTimer, peerTimer, lastActive, peers, elevatorVars>>

-----------------------------------------------------------------------------
(* ElevatorProgram.                                                        *)

ElevatorSelecting == elevatorSends = <<>>

Completes == elevatorSends' \in {<<"Complete">>, <<"Complete", "Complete">>}

\* A hall button is pressed, up to two calls are served, or the door is stuck for 30 s.
ElevatorReports ==
  /\ ElevatorSelecting
  /\ \/ elevatorSends' \in {<<"HallButton">>, <<"DoorStuck">>} /\ UNCHANGED hasCalls
     \/ hasCalls /\ Completes /\ hasCalls' \in BOOLEAN
  /\ UNCHANGED <<mode, hasRequests, todo, heard, masterTimer, transmitters, serverVars, peers, updates>>

\* An order of hall calls may leave the elevator with calls, or serve some on the spot.
ElevatorTakesUpdate ==
  /\ ElevatorSelecting /\ updates # <<>>
  /\ updates' = Tail(updates)
  /\ \/ Head(updates) = "hallOrder" /\ hasCalls' \in BOOLEAN /\ (UNCHANGED elevatorSends \/ Completes)
     \/ Head(updates) # "hallOrder" /\ UNCHANGED <<hasCalls, elevatorSends>>
  /\ UNCHANGED <<mode, hasRequests, todo, heard, masterTimer, transmitters, serverVars, peers>>

\* The node puts an update in the buffer, if there is room.
SendUpdate(update) ==
  /\ Doing(update) /\ Len(updates) < UpdateCapacity
  /\ updates' = Append(updates, update)
  /\ UNCHANGED <<mode, hasRequests, heard, masterTimer, transmitters, serverVars, peers, hasCalls,
                 elevatorSends>>

\* A request is done: others may be left.
RequestDone == hasRequests' \in {FALSE, hasRequests}

\* A faulty variant: InactiveProgram looks at DoorIsStuck, but not at the EventType.
HandleElevatorEvent_AnyFreesDoor(event) ==
  CASE event = "DoorStuck" /\ mode # "Inactive" -> Leave("Inactive")
    [] event # "DoorStuck" /\ mode = "Inactive" -> Leave("Disconnected")
    [] event \in {"HallButton", "Complete"} /\ mode = "Master" ->
          Either(<<"light">>, <<"getActiveElevStates", "light">>)
    [] event = "Complete" /\ mode = "Disconnected" -> todo' = <<"light">>
    [] OTHER -> todo' = todo

HandleElevatorEvent(event) ==
  CASE event = "DoorStuck" /\ mode # "Inactive" -> Leave("Inactive")
    [] event = "DoorFree" /\ mode = "Inactive"  -> Leave("Disconnected")
    [] event \in {"HallButton", "Complete"} /\ mode = "Master" ->
          Either(<<"light">>, <<"getActiveElevStates", "light">>)
    [] event = "Complete" /\ mode = "Disconnected" -> todo' = <<"light">>
    [] OTHER -> todo' = todo

UpdateRequests(event) ==
  CASE event = "HallButton" /\ mode = "Master" -> hasRequests' = TRUE
    [] event = "Complete" /\ mode \in {"Master", "Disconnected"} -> RequestDone
    [] OTHER -> hasRequests' = hasRequests

\* A faulty variant: the disconnected node does not listen to its elevator.
TakeElevatorEvent_NotDisconnected ==
  /\ Selecting /\ elevatorSends # <<>> /\ mode # "Disconnected"
  /\ elevatorSends' = Tail(elevatorSends)
  /\ HandleElevatorEvent(Head(elevatorSends)) /\ UpdateRequests(Head(elevatorSends))
  /\ UNCHANGED <<mode, heard, masterTimer, transmitters, serverVars, peers, updates, hasCalls>>

\* The node takes an event.
TakeElevatorEvent ==
  /\ Selecting /\ elevatorSends # <<>>
  /\ elevatorSends' = Tail(elevatorSends)
  /\ HandleElevatorEvent(Head(elevatorSends)) /\ UpdateRequests(Head(elevatorSends))
  /\ UNCHANGED <<mode, heard, masterTimer, transmitters, serverVars, peers, updates, hasCalls>>

-----------------------------------------------------------------------------
(* Messages from other nodes, and timers of the node loop.                 *)

nodeOnly == <<mode, transmitters, serverVars, peers, elevatorVars>>

ReceiveNewHallRequest ==
  /\ Selecting /\ mode = "Master"
  /\ hasRequests' = TRUE
  /\ Either(<<"light">>, <<"light", "getActiveElevStates">>)
  /\ UNCHANGED <<nodeOnly, heard, masterTimer>>

\* One received before changes nothing.
ReceiveHallAssignmentComplete ==
  /\ Selecting /\ mode = "Master"
  /\ RequestDone
  /\ todo' = <<"light">>
  /\ UNCHANGED <<nodeOnly, heard, masterTimer>>

ReceiveConnectionReq ==
  /\ Selecting /\ peers > 0
  /\ \/ mode = "Master" /\ todo' = <<"getAllElevStates">> /\ UNCHANGED heard
     \/ mode = "Disconnected" /\ heard' = TRUE /\ UNCHANGED todo
  /\ UNCHANGED <<nodeOnly, hasRequests, masterTimer>>

\* An assignment that is refused or was received before changes nothing.
ReceiveHallAssignment ==
  /\ Selecting /\ mode = "Slave"
  /\ todo' = <<"hallOrder">>
  /\ UNCHANGED <<nodeOnly, hasRequests, heard, masterTimer>>

ReceiveGlobalHallRequest ==
  /\ Selecting /\ mode = "Slave"
  /\ \/ UNCHANGED <<todo, hasRequests>>
     \/ todo' = <<"light">> /\ hasRequests' \in BOOLEAN
  /\ masterTimer' = TRUE
  /\ UNCHANGED <<nodeOnly, heard>>

MasterConnectionTimeout ==
  /\ Selecting /\ mode = "Slave" /\ masterTimer
  /\ masterTimer' = FALSE
  /\ Leave("Disconnected")
  /\ UNCHANGED <<nodeOnly, hasRequests, heard>>

\* Any CabRequestInfo makes a slave of the node; one for itself, after a restart, is an order.
ReceiveCabRequestInfo ==
  /\ Selecting /\ mode = "Disconnected"
  /\ Either(<<"Slave">>, <<"cabOrder", "Slave">>)
  /\ UNCHANGED <<nodeOnly, hasRequests, heard, masterTimer>>

\* ShouldBeMaster says yes.
DecisionTimeout ==
  /\ Selecting /\ mode = "Disconnected" /\ heard
  /\ Leave("Master")
  /\ UNCHANGED <<nodeOnly, hasRequests, heard, masterTimer>>

-----------------------------------------------------------------------------
Init ==
  /\ mode = "Inactive" /\ hasRequests = FALSE /\ todo = <<>> /\ heard = FALSE /\ masterTimer = FALSE
  /\ broadcast = FALSE /\ assigner = FALSE /\ complete = FALSE
  /\ serverSends = Nothing /\ nodeIsConnected = FALSE
  /\ connectionTimer = FALSE /\ peerTimer = FALSE
  /\ peers = 0 /\ lastActive = 0
  /\ updates = <<>> /\ hasCalls = FALSE /\ elevatorSends = <<"DoorFree">>

NodeStep ==
  \/ \E m \in Modes : EnterMode(m)
  \/ SwitchTransmitter
  \/ \E update \in Updates : SendUpdate(update)
  \/ \E command \in Commands : ServerTakesCommand(command)

Next ==
  \/ NodeStep
  \/ PeerTimeout \/ ConnectionTimeout \/ PeersChange
  \/ TakeElevStateUpdate \/ TakeNetworkEvent
  \/ ElevatorReports \/ ElevatorTakesUpdate \/ TakeElevatorEvent
  \/ ReceiveNewHallRequest \/ ReceiveHallAssignmentComplete \/ ReceiveConnectionReq
  \/ ReceiveHallAssignment \/ ReceiveGlobalHallRequest \/ MasterConnectionTimeout
  \/ ReceiveCabRequestInfo \/ DecisionTimeout

Spec == Init /\ [][Next]_vars

\* Goroutines that can go on do so.  A select takes a ready case at random, so an offer that
\* stands again and again is taken.
Fairness ==
  /\ WF_vars(NodeStep) /\ SF_vars(ElevatorTakesUpdate)
  /\ SF_vars(TakeElevStateUpdate) /\ SF_vars(TakeNetworkEvent) /\ SF_vars(TakeElevatorEvent)

FairSpec == Spec /\ Fairness

-----------------------------------------------------------------------------
(* Properties.                                                             *)

TypeOK ==
  /\ mode \in Modes /\ hasRequests \in BOOLEAN
  /\ todo \in Seq(Commands \cup Updates \cup Switches \cup Modes)
  /\ heard \in BOOLEAN /\ masterTimer \in BOOLEAN
  /\ broadcast \in BOOLEAN /\ assigner \in BOOLEAN /\ complete \in BOOLEAN
  /\ serverSends \in ServerSends /\ nodeIsConnected \in BOOLEAN
  /\ connectionTimer \in BOOLEAN /\ peerTimer \in BOOLEAN
  /\ peers \in 0 .. MaxPeers /\ lastActive \in 0 .. MaxPeers
  /\ updates \in Seq(Updates) /\ Len(updates) <= UpdateCapacity
  /\ hasCalls \in BOOLEAN
  /\ elevatorSends \in Seq(ElevatorEvents) /\ Len(elevatorSends) <= 2

\* The node waits for the server, which waits for the node; likewise with the elevator.
ServerDeadlock   == todo # <<>> /\ Head(todo) \in Commands /\ serverSends # Nothing
ElevatorDeadlock == /\ todo # <<>> /\ Head(todo) \in Updates /\ elevatorSends # <<>>
                    /\ Len(updates) = UpdateCapacity
Deadlocked       == ServerDeadlock \/ ElevatorDeadlock

\* Whenever the node listens, exactly the transmitters of its mode are on, whatever came in
\* between; the slave's transmitter is never on together with one of the master's.
TransmittersFollowMode ==
  /\ Selecting => /\ broadcast = (mode = "Master") /\ assigner = (mode = "Master")
                  /\ complete = (mode = "Slave")
  /\ ~(complete /\ (broadcast \/ assigner))

\* A node that has gone inactive stays so: ElevatorProgram reports a free door at start-up only.
InactiveIsFinal == [](mode # "Inactive" => [](mode = "Inactive" => [](mode = "Inactive")))

\* The node has yet to take, or to act on, the free door its elevator reports at start-up.
Fresh == mode = "Inactive" /\ (elevatorSends = <<"DoorFree">> \/ todo = <<"Disconnected">>)

Sends == {t \in {"broadcast", "assigner", "complete"} :
            \/ t = "broadcast" /\ broadcast
            \/ t = "assigner" /\ assigner
            \/ t = "complete" /\ complete}

Roles == INSTANCE NodeRoles WITH role <- mode, fresh <- Fresh, sends <- Sends

\* Handlers that stop half-way, commands in between and events that come late (main.go:17)
\* bring about nothing but what NodeRoles allows: a mode is left and entered in silence.
ImplementsNodeRoles == Roles!RoleSpec

\* Every program drains every channel: whatever the server or the elevator sends is taken, and
\* every handler ends, unless there is a deadlock of two.
SendersAreHeard ==
  /\ serverSends # Nothing ~> serverSends = Nothing \/ Deadlocked
  /\ elevatorSends # <<>> ~> elevatorSends = <<>> \/ Deadlocked
HandlersEnd == todo # <<>> ~> Selecting \/ Deadlocked

\* "FIXED! something blocks. ... The Node does not exit master ... the NodeStateServer never
\* prints, meaning it too is blocked" (bug document:3-8): the node and the server do not wait
\* for each other.
NoServerDeadlock == ~ServerDeadlock
=============================================================================
