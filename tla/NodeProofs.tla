----------------------------- MODULE NodeProofs -----------------------------
(***************************************************************************)
(* Proofs about NodeProgram, for an update buffer of any size and any      *)
(* number of peers: types, that the transmitters follow the mode, that an  *)
(* Inactive node stays so, and that the node implements NodeRoles.         *)
(***************************************************************************)
EXTENDS NodeProgram, SequenceTheorems, TLAPS

-----------------------------------------------------------------------------
(* Handlers as sequences.                                                  *)

Ops == Commands \cup Updates \cup Switches \cup Modes

\* Operations that change neither mode nor transmitters.
PlainOps == Commands \cup Updates

LEMMA Tuple1 == ASSUME NEW a PROVE Head(<<a>>) = a /\ Tail(<<a>>) = <<>> /\ <<a>> # <<>>
  OBVIOUS
LEMMA Tuple2 == ASSUME NEW a, NEW b PROVE Head(<<a, b>>) = a /\ Tail(<<a, b>>) = <<b>> /\ <<a, b>> # <<>>
  OBVIOUS
LEMMA Tuple3 ==
  ASSUME NEW a, NEW b, NEW c
  PROVE  Head(<<a, b, c>>) = a /\ Tail(<<a, b, c>>) = <<b, c>> /\ <<a, b, c>> # <<>>
  OBVIOUS
LEMMA Tuple4 ==
  ASSUME NEW a, NEW b, NEW c, NEW d
  PROVE  Head(<<a, b, c, d>>) = a /\ Tail(<<a, b, c, d>>) = <<b, c, d>> /\ <<a, b, c, d>> # <<>>
  OBVIOUS
LEMMA Tuple5 ==
  ASSUME NEW a, NEW b, NEW c, NEW d, NEW e
  PROVE  /\ Head(<<a, b, c, d, e>>) = a /\ Tail(<<a, b, c, d, e>>) = <<b, c, d, e>>
         /\ <<a, b, c, d, e>> # <<>>
  OBVIOUS
LEMMA Concatenated ==
  ASSUME NEW a, NEW b, NEW c, NEW d, NEW e
  PROVE  <<a>> \o <<b, c, d, e>> = <<a, b, c, d, e>>
<1> DEFINE S == {a, b, c, d, e}
           s == <<a>>
           t == <<b, c, d, e>>
           u == <<a, b, c, d, e>>
<1>1. s \in Seq(S) /\ t \in Seq(S) /\ u \in Seq(S) /\ s \o t \in Seq(S)
  OBVIOUS
<1>2. Len(s) = 1 /\ Len(t) = 4 /\ Len(u) = 5 /\ Len(s \o t) = 5
  BY <1>1
<1>3. \A i \in 1 .. 5 : (s \o t)[i] = u[i]
  BY <1>1, <1>2
<1> HIDE DEF s, t, u
<1>4. s \o t = u
  BY <1>1, <1>2, <1>3, SeqEqual
<1> QED  BY <1>4 DEF s, t, u

\* Doing the next operation leaves a handler.
LEMMA DoingType ==
  ASSUME NEW S, todo \in Seq(S), NEW op, Doing(op)
  PROVE  todo' \in Seq(S) /\ op \in S
  BY DEF Doing

LEMMA EntryIs ==
  ASSUME NEW m \in Modes
  PROVE  /\ m = "Master" => Entry(m) \in
              {<<"getActiveElevStates", "light", "broadcastOn", "assignerOn", "startConnectionTimeoutDetection">>,
               <<"light", "broadcastOn", "assignerOn", "startConnectionTimeoutDetection">>}
         /\ m = "Slave" => Entry(m) = <<"completeOn", "startConnectionTimeoutDetection">>
         /\ m \in {"Inactive", "Disconnected"} => Entry(m) = <<>>
<1>1. CASE m = "Master" /\ hasRequests
  <2>1. Entry(m) = <<"getActiveElevStates">> \o
                   <<"light", "broadcastOn", "assignerOn", "startConnectionTimeoutDetection">>
    BY <1>1 DEF Entry, MasterEntry
  <2> QED  BY <1>1, <2>1, Concatenated
<1>2. CASE m = "Master" /\ ~hasRequests
  BY <1>2 DEF Entry, MasterEntry
<1>3. CASE m # "Master"
  BY <1>3 DEF Entry
<1> QED  BY <1>1, <1>2, <1>3

-----------------------------------------------------------------------------
(* Types.                                                                  *)

LEMMA InitType == Init => TypeOK
<1>1. <<>> \in Seq(Ops) /\ <<>> \in Seq(Updates) /\ Len(<<>>) = 0
  OBVIOUS
<1>2. <<"DoorFree">> \in Seq(ElevatorEvents) /\ Len(<<"DoorFree">>) = 1
  BY DEF ElevatorEvents
<1> SUFFICES ASSUME Init PROVE TypeOK
  OBVIOUS
<1>3. /\ mode \in Modes /\ hasRequests \in BOOLEAN /\ heard \in BOOLEAN /\ masterTimer \in BOOLEAN
      /\ broadcast \in BOOLEAN /\ assigner \in BOOLEAN /\ complete \in BOOLEAN
      /\ serverSends \in ServerSends /\ nodeIsConnected \in BOOLEAN
      /\ connectionTimer \in BOOLEAN /\ peerTimer \in BOOLEAN /\ hasCalls \in BOOLEAN
  BY DEF Init, Modes, ServerSends, Nothing
<1>4. peers \in 0 .. MaxPeers /\ lastActive \in 0 .. MaxPeers
  BY NodeAssumption DEF Init
<1>5. todo \in Seq(Ops) /\ updates \in Seq(Updates) /\ Len(updates) <= UpdateCapacity
  BY <1>1, NodeAssumption DEF Init
<1>6. elevatorSends \in Seq(ElevatorEvents) /\ Len(elevatorSends) <= 2
  BY <1>2 DEF Init
<1> QED  BY <1>3, <1>4, <1>5, <1>6 DEF TypeOK, Ops

\* The alternatives of the handlers are sequences of operations.
LEMMA HandlersType ==
  /\ <<>> \in Seq(PlainOps)
  /\ <<"light">> \in Seq(PlainOps) /\ <<"hallOrder">> \in Seq(PlainOps)
  /\ <<"hallOrder", "light">> \in Seq(PlainOps)
  /\ <<"getActiveElevStates">> \in Seq(PlainOps) /\ <<"getAllElevStates">> \in Seq(PlainOps)
  /\ <<"getActiveElevStates", "light">> \in Seq(PlainOps)
  /\ <<"light", "getActiveElevStates">> \in Seq(PlainOps)
  /\ <<"startConnectionTimeoutDetection">> \in Seq(PlainOps)
  BY DEF PlainOps, Commands, Updates

LEMMA PlainType == \A t \in Seq(PlainOps) : t \in Seq(Ops)
<1>1. PlainOps \subseteq Ops
  BY DEF PlainOps, Ops
<1> QED  BY <1>1

LEMMA LeaveType ==
  ASSUME NEW m \in Modes, NEW next \in Modes
  PROVE  Exit(m, next) \in Seq(Ops)
<1>1. /\ next \in Ops /\ "broadcastOff" \in Ops /\ "assignerOff" \in Ops
      /\ "stopConnectionTimeoutDetection" \in Ops /\ "completeOff" \in Ops
  BY DEF Ops, Switches, Commands
<1>2. /\ <<"broadcastOff", "assignerOff", "stopConnectionTimeoutDetection", next>> \in Seq(Ops)
      /\ <<"completeOff", next>> \in Seq(Ops) /\ <<next>> \in Seq(Ops)
  BY <1>1
<1>3. \/ Exit(m, next) = <<"broadcastOff", "assignerOff", "stopConnectionTimeoutDetection", next>>
      \/ Exit(m, next) = <<"completeOff", next>> \/ Exit(m, next) = <<next>>
  BY DEF Exit
<1> QED  BY <1>2, <1>3

LEMMA EntryType ==
  ASSUME NEW m \in Modes
  PROVE  Entry(m) \in Seq(Ops)
<1>1. /\ <<"getActiveElevStates", "light", "broadcastOn", "assignerOn", "startConnectionTimeoutDetection">> \in Seq(Ops)
      /\ <<"light", "broadcastOn", "assignerOn", "startConnectionTimeoutDetection">> \in Seq(Ops)
      /\ <<"completeOn", "startConnectionTimeoutDetection">> \in Seq(Ops)
      /\ <<>> \in Seq(Ops)
  BY DEF Ops, Switches, Commands, Updates
<1> QED  BY <1>1, EntryIs DEF Modes

LEMMA WaysModes == \A m \in Modes : Roles!Ways(m) \subseteq Modes
  BY DEF Roles!Ways, Modes

\* A handler that begins is plain, or none at all, or the way out of the mode to one that follows it.
HandlerBegins == \/ todo' \in Seq(PlainOps)
                 \/ \E next \in Roles!Ways(mode) : todo' = Exit(mode, next)

LEMMA LeaveBegins == ASSUME NEW next \in Roles!Ways(mode), Leave(next) PROVE HandlerBegins
  BY DEF Leave, HandlerBegins

LEMMA PlainBegins == ASSUME todo' \in Seq(PlainOps) PROVE HandlerBegins
  BY DEF HandlerBegins

\* What the node does with an event of its elevator.
LEMMA ElevatorEventHandler ==
  ASSUME mode \in Modes, NEW event, HandleElevatorEvent(event), todo = <<>>
  PROVE  HandlerBegins
<1>1. CASE event = "DoorStuck" /\ mode # "Inactive"
  BY <1>1, LeaveBegins DEF HandleElevatorEvent, Modes, Roles!Ways
<1>2. CASE event = "DoorFree" /\ mode = "Inactive"
  BY <1>2, LeaveBegins DEF HandleElevatorEvent, Modes, Roles!Ways
<1>3. CASE event \in {"HallButton", "Complete"} /\ mode = "Master"
  BY <1>3, HandlersType, PlainBegins DEF HandleElevatorEvent, Either
<1>4. CASE event = "Complete" /\ mode = "Disconnected"
  BY <1>4, HandlersType, PlainBegins DEF HandleElevatorEvent
<1>5. CASE ~\/ event = "DoorStuck" /\ mode # "Inactive"
            \/ event = "DoorFree" /\ mode = "Inactive"
            \/ event \in {"HallButton", "Complete"} /\ mode = "Master"
            \/ event = "Complete" /\ mode = "Disconnected"
  BY <1>5, HandlersType, PlainBegins DEF HandleElevatorEvent
<1> QED  BY <1>1, <1>2, <1>3, <1>4, <1>5

LEMMA NetworkEventHandler ==
  ASSUME mode \in Modes, TakeNetworkEvent, todo = <<>>
  PROVE  HandlerBegins
<1>1. CASE mode \in {"Master", "Slave"} /\ serverSends = "NodeHasLostConnection"
  BY <1>1, LeaveBegins DEF TakeNetworkEvent, Modes, Roles!Ways
<1>2. CASE mode = "Master" /\ serverSends = "NodeConnectDisconnect"
  BY <1>2, HandlersType, PlainBegins DEF TakeNetworkEvent
<1>3. CASE ~\/ mode \in {"Master", "Slave"} /\ serverSends = "NodeHasLostConnection"
            \/ mode = "Master" /\ serverSends = "NodeConnectDisconnect"
  BY <1>3, HandlersType, PlainBegins DEF TakeNetworkEvent
<1> QED  BY <1>1, <1>2, <1>3

LEMMA BeginsType ==
  ASSUME mode \in Modes, HandlerBegins
  PROVE  todo' \in Seq(Ops)
  BY PlainType, LeaveType, WaysModes DEF HandlerBegins

\* Everything but the buffers, on which the arithmetic is.
ControlType ==
  /\ mode \in Modes /\ hasRequests \in BOOLEAN /\ heard \in BOOLEAN /\ masterTimer \in BOOLEAN
  /\ broadcast \in BOOLEAN /\ assigner \in BOOLEAN /\ complete \in BOOLEAN
  /\ nodeIsConnected \in BOOLEAN /\ connectionTimer \in BOOLEAN /\ peerTimer \in BOOLEAN
  /\ hasCalls \in BOOLEAN /\ serverSends \in ServerSends
BufferType ==
  /\ peers \in 0 .. MaxPeers /\ lastActive \in 0 .. MaxPeers
  /\ updates \in Seq(Updates) /\ Len(updates) <= UpdateCapacity
  /\ elevatorSends \in Seq(ElevatorEvents) /\ Len(elevatorSends) <= 2

Types == ControlType /\ BufferType /\ todo \in Seq(Ops)

LEMMA TypeParts == TypeOK <=> Types
  BY DEF TypeOK, Types, ControlType, BufferType, Ops

LEMMA CompletesType ==
  ASSUME Completes
  PROVE  elevatorSends' \in Seq(ElevatorEvents) /\ Len(elevatorSends') <= 2
<1>1. <<"Complete">> \in Seq(ElevatorEvents) /\ Len(<<"Complete">>) = 1
  BY DEF ElevatorEvents
<1>2. <<"Complete", "Complete">> \in Seq(ElevatorEvents) /\ Len(<<"Complete", "Complete">>) = 2
  BY DEF ElevatorEvents
<1>3. CASE elevatorSends' = <<"Complete">>              BY <1>1, <1>3
<1>4. CASE elevatorSends' = <<"Complete", "Complete">>  BY <1>2, <1>4
<1> QED  BY <1>3, <1>4 DEF Completes

\* The steps within a handler.
LEMMA NodeStepType ==
  ASSUME Types, NodeStep
  PROVE  Types'
<1>0. ControlType /\ BufferType /\ todo \in Seq(Ops)
  BY DEF Types
<1>1. ASSUME NEW m \in Modes, EnterMode(m) PROVE Types'
  <2>1. todo' \in Seq(Ops)
    BY <1>1, EntryType DEF EnterMode
  <2>2. ControlType' /\ BufferType'
    BY <1>0, <1>1 DEF EnterMode, ControlType, BufferType, transmitters, serverVars, elevatorVars
  <2> QED  BY <2>1, <2>2 DEF Types
<1>2. CASE SwitchTransmitter
  <2>1. todo' \in Seq(Ops)
    BY <1>0, <1>2, DoingType DEF SwitchTransmitter
  <2>2. broadcast' \in BOOLEAN /\ assigner' \in BOOLEAN /\ complete' \in BOOLEAN
    BY <1>0, <1>2 DEF SwitchTransmitter, ControlType
  <2>3. ControlType' /\ BufferType'
    BY <1>0, <1>2, <2>2 DEF SwitchTransmitter, ControlType, BufferType, serverVars, elevatorVars
  <2> QED  BY <2>1, <2>3 DEF Types
<1>3. ASSUME NEW update \in Updates, SendUpdate(update) PROVE Types'
  <2>1. todo' \in Seq(Ops)
    BY <1>0, <1>3, DoingType DEF SendUpdate
  <2>2. updates' \in Seq(Updates) /\ Len(updates') <= UpdateCapacity
    BY <1>0, <1>3, NodeAssumption DEF SendUpdate, BufferType
  <2>3. ControlType'
    BY <1>0, <1>3 DEF SendUpdate, ControlType, transmitters, serverVars
  <2>4. BufferType'
    BY <1>0, <1>3, <2>2 DEF SendUpdate, BufferType, serverVars
  <2> QED  BY <2>1, <2>3, <2>4 DEF Types
<1>4. ASSUME NEW command \in Commands, ServerTakesCommand(command) PROVE Types'
  <2>1. todo' \in Seq(Ops)
    BY <1>0, <1>4, DoingType DEF ServerTakesCommand
  <2>2. serverSends' \in ServerSends
    BY <1>4 DEF ServerTakesCommand, ServerSends
  <2>3. nodeIsConnected' \in BOOLEAN /\ connectionTimer' \in BOOLEAN /\ peerTimer' \in BOOLEAN
    BY <1>0, <1>4 DEF ServerTakesCommand, ControlType
  <2>4. ControlType' /\ BufferType'
    BY <1>0, <1>4, <2>2, <2>3 DEF ServerTakesCommand, ControlType, BufferType, transmitters, elevatorVars
  <2> QED  BY <2>1, <2>4 DEF Types
<1> QED  BY <1>1, <1>2, <1>3, <1>4 DEF NodeStep

\* The steps of the server and of the elevator alone.
LEMMA OutsideType ==
  ASSUME Types, PeerTimeout \/ ConnectionTimeout \/ PeersChange \/ ElevatorReports \/ ElevatorTakesUpdate
  PROVE  Types'
<1>0. ControlType /\ BufferType /\ todo \in Seq(Ops)
  BY DEF Types
<1>1. CASE PeerTimeout
  <2>1. ControlType'
    BY <1>0, <1>1 DEF PeerTimeout, ControlType, transmitters, ServerSends, NetworkEvents, elevatorVars
  <2>2. BufferType' /\ todo' \in Seq(Ops)
    BY <1>0, <1>1 DEF PeerTimeout, BufferType, elevatorVars
  <2> QED  BY <2>1, <2>2 DEF Types
<1>2. CASE ConnectionTimeout
  <2>1. ControlType'
    BY <1>0, <1>2 DEF ConnectionTimeout, ControlType, transmitters, ServerSends, NetworkEvents, elevatorVars
  <2>2. BufferType' /\ todo' \in Seq(Ops)
    BY <1>0, <1>2, NodeAssumption DEF ConnectionTimeout, BufferType, elevatorVars
  <2> QED  BY <2>1, <2>2 DEF Types
<1>3. CASE PeersChange
  <2>1. ControlType' /\ BufferType' /\ todo' \in Seq(Ops)
    BY <1>0, <1>3 DEF PeersChange, ControlType, BufferType, transmitters, serverVars, elevatorVars
  <2> QED  BY <2>1 DEF Types
<1>4. CASE ElevatorReports
  <2>1. elevatorSends' \in Seq(ElevatorEvents) /\ Len(elevatorSends') <= 2 /\ hasCalls' \in BOOLEAN
    <3>1. <<"HallButton">> \in Seq(ElevatorEvents) /\ Len(<<"HallButton">>) = 1
      BY DEF ElevatorEvents
    <3>2. <<"DoorStuck">> \in Seq(ElevatorEvents) /\ Len(<<"DoorStuck">>) = 1
      BY DEF ElevatorEvents
    <3>3. CASE elevatorSends' \in {<<"HallButton">>, <<"DoorStuck">>} /\ UNCHANGED hasCalls
      <4>1. hasCalls' \in BOOLEAN
        BY <1>0, <3>3 DEF ControlType
      <4>2. CASE elevatorSends' = <<"HallButton">>  BY <3>1, <4>1, <4>2
      <4>3. CASE elevatorSends' = <<"DoorStuck">>   BY <3>2, <4>1, <4>3
      <4> QED  BY <3>3, <4>2, <4>3
    <3>4. CASE hasCalls /\ Completes /\ hasCalls' \in BOOLEAN
      BY <3>4, CompletesType
    <3> QED  BY <1>4, <3>3, <3>4 DEF ElevatorReports
  <2>2. ControlType' /\ BufferType' /\ todo' \in Seq(Ops)
    BY <1>0, <1>4, <2>1 DEF ElevatorReports, ControlType, BufferType, transmitters, serverVars
  <2> QED  BY <2>2 DEF Types
<1>5. CASE ElevatorTakesUpdate
  <2>1. updates' \in Seq(Updates) /\ Len(updates') <= UpdateCapacity
    BY <1>0, <1>5, NodeAssumption DEF ElevatorTakesUpdate, BufferType
  <2>2. elevatorSends' \in Seq(ElevatorEvents) /\ Len(elevatorSends') <= 2 /\ hasCalls' \in BOOLEAN
    BY <1>0, <1>5, CompletesType DEF ElevatorTakesUpdate, BufferType, ControlType
  <2>3. ControlType' /\ BufferType' /\ todo' \in Seq(Ops)
    BY <1>0, <1>5, <2>1, <2>2 DEF ElevatorTakesUpdate, ControlType, BufferType, transmitters, serverVars
  <2> QED  BY <2>3 DEF Types
<1> QED  BY <1>1, <1>2, <1>3, <1>4, <1>5

\* The cases of the node's select.
LEMMA SelectType ==
  ASSUME Types,
         \/ TakeElevStateUpdate \/ TakeNetworkEvent \/ TakeElevatorEvent
         \/ ReceiveNewHallRequest \/ ReceiveHallAssignmentComplete \/ ReceiveConnectionReq
         \/ ReceiveHallAssignment \/ ReceiveGlobalHallRequest \/ MasterConnectionTimeout
         \/ ReceiveCabRequestInfo \/ DecisionTimeout
  PROVE  Types'
<1>0. ControlType /\ BufferType /\ todo \in Seq(Ops) /\ mode \in Modes
  BY DEF Types, ControlType
<1>1. CASE TakeElevStateUpdate
  <2>1. todo' \in Seq(Ops)
    BY <1>0, <1>1, HandlersType, PlainType DEF TakeElevStateUpdate
  <2>2. ControlType' /\ BufferType'
    BY <1>0, <1>1 DEF TakeElevStateUpdate, ControlType, BufferType, ServerSends, transmitters, elevatorVars
  <2> QED  BY <2>1, <2>2 DEF Types
<1>2. CASE TakeNetworkEvent
  <2>0. todo = <<>> /\ serverSends' = Nothing
    BY <1>2 DEF TakeNetworkEvent, Selecting
  <2>1. todo' \in Seq(Ops)
    BY <1>0, <1>2, <2>0, NetworkEventHandler, BeginsType
  <2>2. UNCHANGED <<mode, hasRequests, heard, masterTimer, transmitters, nodeIsConnected,
                    connectionTimer, peerTimer, lastActive, peers, elevatorVars>>
    BY <1>2 DEF TakeNetworkEvent
  <2>3. ControlType' /\ BufferType'
    BY <1>0, <2>0, <2>2 DEF ControlType, BufferType, ServerSends, transmitters, elevatorVars
  <2> QED  BY <2>1, <2>3 DEF Types
<1>3. CASE TakeElevatorEvent
  <2>0. todo = <<>> /\ HandleElevatorEvent(Head(elevatorSends)) /\ UpdateRequests(Head(elevatorSends))
    BY <1>3 DEF TakeElevatorEvent, Selecting
  <2>1. todo' \in Seq(Ops)
    BY <1>0, <2>0, ElevatorEventHandler, BeginsType
  <2>2. hasRequests' \in BOOLEAN
    BY <1>0, <2>0 DEF UpdateRequests, RequestDone, ControlType
  <2>3. elevatorSends' \in Seq(ElevatorEvents) /\ Len(elevatorSends') <= 2
    BY <1>0, <1>3 DEF TakeElevatorEvent, BufferType
  <2>4. UNCHANGED <<mode, heard, masterTimer, transmitters, serverVars, peers, updates, hasCalls>>
    BY <1>3 DEF TakeElevatorEvent
  <2>5. ControlType' /\ BufferType'
    BY <1>0, <2>2, <2>3, <2>4 DEF ControlType, BufferType, transmitters, serverVars
  <2> QED  BY <2>1, <2>5 DEF Types
<1>4. ASSUME UNCHANGED nodeOnly, todo' \in Seq(Ops),
             hasRequests' \in BOOLEAN, heard' \in BOOLEAN, masterTimer' \in BOOLEAN
      PROVE  Types'
  BY <1>0, <1>4 DEF Types, ControlType, BufferType, nodeOnly, transmitters, serverVars, elevatorVars
<1>5. hasRequests \in BOOLEAN /\ heard \in BOOLEAN /\ masterTimer \in BOOLEAN
  BY <1>0 DEF ControlType
<1>6. CASE ReceiveNewHallRequest
  <2>1. todo' \in Seq(Ops)
    BY <1>6, HandlersType, PlainType DEF ReceiveNewHallRequest, Either
  <2> QED  BY <1>4, <1>5, <1>6, <2>1 DEF ReceiveNewHallRequest
<1>7. CASE ReceiveHallAssignmentComplete
  <2>1. todo' \in Seq(Ops)
    BY <1>7, HandlersType, PlainType DEF ReceiveHallAssignmentComplete
  <2> QED  BY <1>4, <1>5, <1>7, <2>1 DEF ReceiveHallAssignmentComplete, RequestDone
<1>8. CASE ReceiveConnectionReq
  <2>1. todo' \in Seq(Ops)
    BY <1>0, <1>8, HandlersType, PlainType DEF ReceiveConnectionReq
  <2> QED  BY <1>4, <1>5, <1>8, <2>1 DEF ReceiveConnectionReq
<1>9. CASE ReceiveHallAssignment
  <2>1. todo' \in Seq(Ops)
    BY <1>9, HandlersType, PlainType DEF ReceiveHallAssignment
  <2> QED  BY <1>4, <1>5, <1>9, <2>1 DEF ReceiveHallAssignment
<1>10. CASE ReceiveGlobalHallRequest
  <2>1. todo' \in Seq(Ops)
    BY <1>0, <1>10, HandlersType, PlainType DEF ReceiveGlobalHallRequest
  <2> QED  BY <1>4, <1>5, <1>10, <2>1 DEF ReceiveGlobalHallRequest
<1>11. CASE MasterConnectionTimeout
  <2>1. todo' \in Seq(Ops)
    BY <1>0, <1>11, LeaveType DEF MasterConnectionTimeout, Leave, Modes
  <2> QED  BY <1>4, <1>5, <1>11, <2>1 DEF MasterConnectionTimeout
<1>12. CASE ReceiveCabRequestInfo
  <2>1. <<"Slave">> \in Seq(Ops) /\ <<"cabOrder", "Slave">> \in Seq(Ops)
    BY DEF Ops, Modes, Updates
  <2>2. todo' \in Seq(Ops)
    BY <1>12, <2>1 DEF ReceiveCabRequestInfo, Either
  <2> QED  BY <1>4, <1>5, <1>12, <2>2 DEF ReceiveCabRequestInfo
<1>13. CASE DecisionTimeout
  <2>1. todo' \in Seq(Ops)
    BY <1>0, <1>13, LeaveType DEF DecisionTimeout, Leave, Modes
  <2> QED  BY <1>4, <1>5, <1>13, <2>1 DEF DecisionTimeout
<1> QED  BY <1>1, <1>2, <1>3, <1>6, <1>7, <1>8, <1>9, <1>10, <1>11, <1>12, <1>13

LEMMA NextType == Types /\ [Next]_vars => Types'
<1> SUFFICES ASSUME Types, [Next]_vars PROVE Types'
  OBVIOUS
<1>1. CASE UNCHANGED vars
  BY <1>1 DEF vars, Types, ControlType, BufferType, transmitters, serverVars, elevatorVars
<1>2. CASE Next
  BY <1>2, NodeStepType, OutsideType, SelectType DEF Next
<1> QED  BY <1>1, <1>2

\* Every variable keeps its type, for a buffer of any size and any number of peers.
THEOREM TypeCorrect == Spec => []TypeOK
<1>1. Init => Types
  BY InitType, TypeParts
<1> QED  BY <1>1, NextType, TypeParts, PTL DEF Spec
-----------------------------------------------------------------------------
(* The transmitters.  Between two selects they lag behind the mode; Plan   *)
(* says how far, for every point of every exit and entry.                  *)

Off     == ~broadcast /\ ~assigner /\ ~complete
Follows == (broadcast <=> mode = "Master") /\ (assigner <=> mode = "Master") /\ (complete <=> mode = "Slave")

\* In a mode: the transmitters are as they should be and stay so.
Steady == todo \in Seq(PlainOps) /\ Follows

LeavingMaster(next) ==
  /\ mode = "Master"
  /\ \/ todo = <<"broadcastOff", "assignerOff", "stopConnectionTimeoutDetection", next>> /\ Follows
     \/ todo = <<"assignerOff", "stopConnectionTimeoutDetection", next>>
        /\ ~broadcast /\ assigner /\ ~complete
     \/ todo = <<"stopConnectionTimeoutDetection", next>> /\ Off
LeavingSlave(next) == mode = "Slave" /\ todo = <<"completeOff", next>> /\ Follows
\* Out of a mode already, or about to leave one without transmitters.
Between(next) == Off /\ (todo = <<next>> \/ todo = <<"cabOrder", next>>)

EnteringMaster ==
  /\ mode = "Master"
  /\ \/ todo = <<"getActiveElevStates", "light", "broadcastOn", "assignerOn", "startConnectionTimeoutDetection">>
        /\ Off
     \/ todo = <<"light", "broadcastOn", "assignerOn", "startConnectionTimeoutDetection">> /\ Off
     \/ todo = <<"broadcastOn", "assignerOn", "startConnectionTimeoutDetection">> /\ Off
     \/ todo = <<"assignerOn", "startConnectionTimeoutDetection">> /\ broadcast /\ ~assigner /\ ~complete
EnteringSlave == mode = "Slave" /\ todo = <<"completeOn", "startConnectionTimeoutDetection">> /\ Off

Plan ==
  \/ Steady \/ EnteringMaster \/ EnteringSlave
  \/ \E next \in Modes : LeavingMaster(next) \/ LeavingSlave(next) \/ Between(next)

LEMMA InitPlan == Init => Plan
  BY HandlersType DEF Init, Plan, Steady, Follows

\* What a step within a handler does when it does not change the mode.
Advances ==
  /\ todo # <<>> /\ todo' = Tail(todo) /\ mode' = mode
  /\ Head(todo) \notin Modes
  /\ Head(todo) = "broadcastOn"  => broadcast'
  /\ Head(todo) = "broadcastOff" => ~broadcast'
  /\ Head(todo) \notin {"broadcastOn", "broadcastOff"} => broadcast' = broadcast
  /\ Head(todo) = "assignerOn"  => assigner'
  /\ Head(todo) = "assignerOff" => ~assigner'
  /\ Head(todo) \notin {"assignerOn", "assignerOff"} => assigner' = assigner
  /\ Head(todo) = "completeOn"  => complete'
  /\ Head(todo) = "completeOff" => ~complete'
  /\ Head(todo) \notin {"completeOn", "completeOff"} => complete' = complete

LEMMA NodeStepIs ==
  ASSUME NodeStep
  PROVE  Advances \/ \E m \in Modes : EnterMode(m)
<1>1. CASE SwitchTransmitter
  BY <1>1 DEF SwitchTransmitter, Doing, Advances, Modes
<1>2. ASSUME NEW update \in Updates, SendUpdate(update) PROVE Advances
  BY <1>2 DEF SendUpdate, Doing, Advances, Modes, Updates, transmitters
<1>3. ASSUME NEW command \in Commands, ServerTakesCommand(command) PROVE Advances
  BY <1>3 DEF ServerTakesCommand, Doing, Advances, Modes, Commands, transmitters
<1> QED  BY <1>1, <1>2, <1>3 DEF NodeStep

LEMMA AdvancePlan ==
  ASSUME Types, Plan, Advances
  PROVE  Plan'
<1>0. broadcast \in BOOLEAN /\ assigner \in BOOLEAN /\ complete \in BOOLEAN
  BY DEF Types, ControlType
<1>1. CASE Steady
  <2>1. Head(todo) \in PlainOps /\ todo' \in Seq(PlainOps)
    BY <1>1 DEF Steady, Advances
  <2>2. broadcast' = broadcast /\ assigner' = assigner /\ complete' = complete /\ mode' = mode
    BY <2>1 DEF Advances, PlainOps, Commands, Updates
  <2> QED  BY <1>1, <2>1, <2>2 DEF Plan, Steady, Follows
<1>2. ASSUME NEW next \in Modes, LeavingMaster(next)
      PROVE  Plan'
  <2>1. CASE todo = <<"broadcastOff", "assignerOff", "stopConnectionTimeoutDetection", next>> /\ Follows
    <3>1. Head(todo) = "broadcastOff"
          /\ Tail(todo) = <<"assignerOff", "stopConnectionTimeoutDetection", next>>
      BY <2>1, Tuple4
    <3>2. LeavingMaster(next)'
      BY <1>0, <1>2, <2>1, <3>1 DEF LeavingMaster, Follows, Advances
    <3> QED  BY <3>2 DEF Plan
  <2>2. CASE todo = <<"assignerOff", "stopConnectionTimeoutDetection", next>>
             /\ ~broadcast /\ assigner /\ ~complete
    <3>1. Head(todo) = "assignerOff" /\ Tail(todo) = <<"stopConnectionTimeoutDetection", next>>
      BY <2>2, Tuple3
    <3>2. LeavingMaster(next)'
      BY <1>0, <1>2, <2>2, <3>1 DEF LeavingMaster, Off, Advances
    <3> QED  BY <3>2 DEF Plan
  <2>3. CASE todo = <<"stopConnectionTimeoutDetection", next>> /\ Off
    <3>1. Head(todo) = "stopConnectionTimeoutDetection" /\ Tail(todo) = <<next>>
      BY <2>3, Tuple2
    <3>2. Between(next)'
      BY <2>3, <3>1 DEF Between, Off, Advances
    <3> QED  BY <3>2 DEF Plan
  <2> QED  BY <1>2, <2>1, <2>2, <2>3 DEF LeavingMaster
<1>3. ASSUME NEW next \in Modes, LeavingSlave(next)
      PROVE  Plan'
  <2>1. Head(todo) = "completeOff" /\ Tail(todo) = <<next>>
    BY <1>3, Tuple2 DEF LeavingSlave
  <2>2. Between(next)'
    BY <1>0, <1>3, <2>1 DEF LeavingSlave, Between, Off, Follows, Advances
  <2> QED  BY <2>2 DEF Plan
<1>4. ASSUME NEW next \in Modes, Between(next)
      PROVE  Plan'
  <2>1. todo = <<"cabOrder", next>>
    BY <1>4, Tuple1 DEF Between, Advances
  <2>2. Head(todo) = "cabOrder" /\ Tail(todo) = <<next>>
    BY <2>1, Tuple2
  <2>3. Between(next)'
    BY <1>4, <2>2 DEF Between, Off, Advances
  <2> QED  BY <2>3 DEF Plan
<1>5. CASE EnteringMaster
  <2>1. CASE todo = <<"getActiveElevStates", "light", "broadcastOn", "assignerOn", "startConnectionTimeoutDetection">>
             /\ Off
    <3>1. Head(todo) = "getActiveElevStates"
          /\ Tail(todo) = <<"light", "broadcastOn", "assignerOn", "startConnectionTimeoutDetection">>
      BY <2>1, Tuple5
    <3> QED  BY <1>5, <2>1, <3>1 DEF EnteringMaster, Off, Advances, Plan
  <2>2. CASE todo = <<"light", "broadcastOn", "assignerOn", "startConnectionTimeoutDetection">> /\ Off
    <3>1. Head(todo) = "light"
          /\ Tail(todo) = <<"broadcastOn", "assignerOn", "startConnectionTimeoutDetection">>
      BY <2>2, Tuple4
    <3> QED  BY <1>5, <2>2, <3>1 DEF EnteringMaster, Off, Advances, Plan
  <2>3. CASE todo = <<"broadcastOn", "assignerOn", "startConnectionTimeoutDetection">> /\ Off
    <3>1. Head(todo) = "broadcastOn" /\ Tail(todo) = <<"assignerOn", "startConnectionTimeoutDetection">>
      BY <2>3, Tuple3
    <3> QED  BY <1>5, <2>3, <3>1 DEF EnteringMaster, Off, Advances, Plan
  <2>4. CASE todo = <<"assignerOn", "startConnectionTimeoutDetection">> /\ broadcast /\ ~assigner /\ ~complete
    <3>1. Head(todo) = "assignerOn" /\ Tail(todo) = <<"startConnectionTimeoutDetection">>
      BY <2>4, Tuple2
    <3>2. todo' \in Seq(PlainOps)
      BY <3>1, HandlersType DEF Advances
    <3>3. Follows'
      BY <1>5, <2>4, <3>1 DEF EnteringMaster, Follows, Advances
    <3> QED  BY <3>2, <3>3 DEF Plan, Steady
  <2> QED  BY <1>5, <2>1, <2>2, <2>3, <2>4 DEF EnteringMaster
<1>6. CASE EnteringSlave
  <2>1. Head(todo) = "completeOn" /\ Tail(todo) = <<"startConnectionTimeoutDetection">>
    BY <1>6, Tuple2 DEF EnteringSlave
  <2>2. todo' \in Seq(PlainOps)
    BY <2>1, HandlersType DEF Advances
  <2>3. Follows'
    BY <1>6, <2>1 DEF EnteringSlave, Follows, Off, Advances
  <2> QED  BY <2>2, <2>3 DEF Plan, Steady
<1> QED  BY <1>1, <1>2, <1>3, <1>4, <1>5, <1>6 DEF Plan

\* A mode is entered with every transmitter off.
LEMMA EntersSilent ==
  ASSUME Types, Plan, NEW m \in Modes, EnterMode(m)
  PROVE  Off
<1>0. todo # <<>> /\ Head(todo) = m
  BY DEF EnterMode
<1>1. ~Steady
  <2>1. SUFFICES ASSUME Steady PROVE FALSE
    OBVIOUS
  <2>2. Head(todo) \in PlainOps
    BY <1>0, <2>1 DEF Steady
  <2> QED  BY <1>0, <2>2 DEF PlainOps, Commands, Updates, Modes
<1>2. ASSUME NEW next \in Modes, LeavingMaster(next) PROVE FALSE
  <2>1. Head(todo) \in {"broadcastOff", "assignerOff", "stopConnectionTimeoutDetection"}
    BY <1>2, Tuple4, Tuple3, Tuple2 DEF LeavingMaster
  <2> QED  BY <1>0, <2>1 DEF Modes
<1>3. ASSUME NEW next \in Modes, LeavingSlave(next) PROVE FALSE
  <2>1. Head(todo) = "completeOff"
    BY <1>3, Tuple2 DEF LeavingSlave
  <2> QED  BY <1>0, <2>1 DEF Modes
<1>4. ~EnteringMaster
  <2>1. SUFFICES ASSUME EnteringMaster PROVE FALSE
    OBVIOUS
  <2>2. Head(todo) \in {"getActiveElevStates", "light", "broadcastOn", "assignerOn"}
    BY <2>1, Tuple5, Tuple4, Tuple3, Tuple2 DEF EnteringMaster
  <2> QED  BY <1>0, <2>2 DEF Modes
<1>5. ~EnteringSlave
  <2>1. SUFFICES ASSUME EnteringSlave PROVE FALSE
    OBVIOUS
  <2>2. Head(todo) = "completeOn"
    BY <2>1, Tuple2 DEF EnteringSlave
  <2> QED  BY <1>0, <2>2 DEF Modes
<1>6. PICK next \in Modes : Between(next)
  BY <1>1, <1>2, <1>3, <1>4, <1>5 DEF Plan
<1> QED  BY <1>6 DEF Between

LEMMA EnterModePlan ==
  ASSUME Types, Plan, NEW m \in Modes, EnterMode(m)
  PROVE  Plan'
<1>1. todo # <<>> /\ Head(todo) = m /\ mode' = m /\ todo' = Entry(m)
      /\ UNCHANGED <<broadcast, assigner, complete>>
  BY DEF EnterMode, transmitters
<1>2. Off
  BY EntersSilent
<1>3. Off'
  BY <1>1, <1>2 DEF Off
<1>4. CASE m = "Master"
  BY <1>1, <1>3, <1>4, EntryIs DEF EnteringMaster, Plan
<1>5. CASE m = "Slave"
  BY <1>1, <1>3, <1>5, EntryIs DEF EnteringSlave, Plan
<1>6. CASE m \in {"Inactive", "Disconnected"}
  <2>1. todo' \in Seq(PlainOps)
    BY <1>1, <1>6, EntryIs, HandlersType
  <2>2. Follows'
    BY <1>1, <1>3, <1>6 DEF Off, Follows
  <2> QED  BY <2>1, <2>2 DEF Plan, Steady
<1> QED  BY <1>4, <1>5, <1>6 DEF Modes

\* While the node selects its transmitters follow the mode: no other phase has an empty handler.
LEMMA SelectingFollows ==
  ASSUME Plan, todo = <<>>
  PROVE  Follows
<1>1. ~EnteringMaster
  BY Tuple5, Tuple4, Tuple3, Tuple2 DEF EnteringMaster
<1>2. ~EnteringSlave
  BY Tuple2 DEF EnteringSlave
<1>3. ASSUME NEW next \in Modes PROVE ~LeavingMaster(next) /\ ~LeavingSlave(next) /\ ~Between(next)
  BY Tuple4, Tuple3, Tuple2, Tuple1 DEF LeavingMaster, LeavingSlave, Between
<1> QED  BY <1>1, <1>2, <1>3 DEF Plan, Steady

\* A handler that begins in a mode is plain, or starts the way out with everything as it was.
LEMMA BeginsPlan ==
  ASSUME Types, Plan, todo = <<>>, HandlerBegins, UNCHANGED <<mode, transmitters>>
  PROVE  Plan'
<1>1. Follows /\ mode \in Modes
  BY SelectingFollows DEF Types, ControlType
<1>2. Follows' /\ mode' = mode
  BY <1>1 DEF Follows, transmitters
<1>3. CASE todo' \in Seq(PlainOps)
  BY <1>2, <1>3 DEF Plan, Steady
<1>4. ASSUME NEW next \in Modes, todo' = Exit(mode, next) PROVE Plan'
  <2>1. CASE mode = "Master"
    BY <1>2, <1>4, <2>1 DEF Exit, LeavingMaster, Plan
  <2>2. CASE mode = "Slave"
    BY <1>2, <1>4, <2>2 DEF Exit, LeavingSlave, Plan
  <2>3. CASE mode # "Master" /\ mode # "Slave"
    <3>1. todo' = <<next>>
      BY <1>4, <2>3 DEF Exit
    <3>2. Off'
      BY <1>2, <2>3 DEF Follows, Off
    <3> QED  BY <3>1, <3>2 DEF Between, Plan
  <2> QED  BY <2>1, <2>2, <2>3
<1> QED  BY <1>1, <1>3, <1>4, WaysModes DEF HandlerBegins

LEMMA SelectPlan ==
  ASSUME Types, Plan,
         \/ TakeElevStateUpdate \/ TakeNetworkEvent \/ TakeElevatorEvent
         \/ ReceiveNewHallRequest \/ ReceiveHallAssignmentComplete \/ ReceiveConnectionReq
         \/ ReceiveHallAssignment \/ ReceiveGlobalHallRequest \/ MasterConnectionTimeout
         \/ ReceiveCabRequestInfo \/ DecisionTimeout
  PROVE  Plan'
<1>0. mode \in Modes
  BY DEF Types, ControlType
<1>1. todo = <<>> /\ UNCHANGED <<mode, transmitters>>
  BY DEF TakeElevStateUpdate, TakeNetworkEvent, TakeElevatorEvent, ReceiveNewHallRequest,
         ReceiveHallAssignmentComplete, ReceiveConnectionReq, ReceiveHallAssignment,
         ReceiveGlobalHallRequest, MasterConnectionTimeout, ReceiveCabRequestInfo, DecisionTimeout,
         Selecting, nodeOnly
<1>2. CASE ReceiveCabRequestInfo
  <2>1. mode = "Disconnected" /\ (todo' = <<"Slave">> \/ todo' = <<"cabOrder", "Slave">>)
    BY <1>2 DEF ReceiveCabRequestInfo, Either
  <2>2. Off'
    BY <1>1, <2>1, SelectingFollows DEF Follows, Off, transmitters
  <2>3. Between("Slave")'
    BY <2>1, <2>2 DEF Between
  <2> QED  BY <2>3 DEF Plan, Modes
<1>3. CASE TakeElevatorEvent
  BY <1>0, <1>1, <1>3, ElevatorEventHandler, BeginsPlan DEF TakeElevatorEvent
<1>4. CASE TakeNetworkEvent
  BY <1>0, <1>1, <1>4, NetworkEventHandler, BeginsPlan
<1>5. CASE MasterConnectionTimeout \/ DecisionTimeout
  BY <1>1, <1>5, LeaveBegins, BeginsPlan DEF MasterConnectionTimeout, DecisionTimeout, Roles!Ways
<1>6. CASE \/ TakeElevStateUpdate \/ ReceiveNewHallRequest \/ ReceiveHallAssignmentComplete
           \/ ReceiveConnectionReq \/ ReceiveHallAssignment \/ ReceiveGlobalHallRequest
  <2>1. todo' \in Seq(PlainOps)
    BY <1>1, <1>6, HandlersType
       DEF TakeElevStateUpdate, ReceiveNewHallRequest, ReceiveHallAssignmentComplete,
           ReceiveConnectionReq, ReceiveHallAssignment, ReceiveGlobalHallRequest, Either
  <2> QED  BY <1>1, <2>1, PlainBegins, BeginsPlan
<1> QED  BY <1>2, <1>3, <1>4, <1>5, <1>6

\* The server, the elevator and the peers leave handlers, mode and transmitters alone.
LEMMA OutsidePlan ==
  ASSUME Plan,
         PeerTimeout \/ ConnectionTimeout \/ PeersChange \/ ElevatorReports \/ ElevatorTakesUpdate
           \/ UNCHANGED vars
  PROVE  Plan'
<1>1. UNCHANGED <<todo, mode, broadcast, assigner, complete>>
  BY DEF PeerTimeout, ConnectionTimeout, PeersChange, ElevatorReports, ElevatorTakesUpdate,
         vars, transmitters
<1> QED  BY <1>1 DEF Plan, Steady, Follows, Off, EnteringMaster, EnteringSlave,
                     LeavingMaster, LeavingSlave, Between

LEMMA NextPlan == Types /\ Plan /\ [Next]_vars => Plan'
<1> SUFFICES ASSUME Types, Plan, [Next]_vars PROVE Plan'
  OBVIOUS
<1>1. CASE NodeStep
  BY <1>1, NodeStepIs, AdvancePlan, EnterModePlan
<1> QED  BY <1>1, OutsidePlan, SelectPlan DEF Next

LEMMA PlanFollows == Types /\ Plan => TransmittersFollowMode
<1> SUFFICES ASSUME Types, Plan PROVE TransmittersFollowMode
  OBVIOUS
<1>0. broadcast \in BOOLEAN /\ assigner \in BOOLEAN /\ complete \in BOOLEAN
  BY DEF Types, ControlType
<1>1. ASSUME todo = <<>>
      PROVE  broadcast = (mode = "Master") /\ assigner = (mode = "Master") /\ complete = (mode = "Slave")
  <2>1. Follows
    BY <1>1, SelectingFollows
  <2> QED  BY <1>0, <2>1 DEF Follows
<1>2. ~(complete /\ (broadcast \/ assigner))
  BY DEF Plan, Steady, Follows, Off, EnteringMaster, EnteringSlave, LeavingMaster, LeavingSlave, Between
<1> QED  BY <1>1, <1>2 DEF TransmittersFollowMode, Selecting

\* Whenever the node listens, exactly the transmitters of its mode are on (master.go:79 and 232,
\* slave.go:23 and 113), whatever came in between; slave's and master's are never on together.
THEOREM TransmittersAlwaysFollow == Spec => []TransmittersFollowMode
<1>1. Init => Types
  BY InitType, TypeParts
<1>2. Types /\ Plan /\ [Next]_vars => Types' /\ Plan'
  BY NextType, NextPlan
<1>3. Spec => [](Types /\ Plan)
  BY <1>1, <1>2, InitPlan, PTL DEF Spec
<1> QED  BY <1>3, PlanFollows, PTL
-----------------------------------------------------------------------------
(* Inactive nodes.                                                         *)

\* The elevator has nothing to say that would get a node out of Inactive.
NoFreeDoor == elevatorSends \in Seq(ElevatorEvents \ {"DoorFree"})

\* The one report of a free door is the first event of all, taken in the first select.
FreeDoorFirst ==
  \/ NoFreeDoor
  \/ mode = "Inactive" /\ todo = <<>> /\ elevatorSends = <<"DoorFree">>

\* An inactive node does not have the end of Inactive in its handler either.
Final == NoFreeDoor /\ (mode = "Inactive" => todo \in Seq(PlainOps))

LEMMA NoFreeDoorStays ==
  ASSUME Types, [Next]_vars, NoFreeDoor
  PROVE  NoFreeDoor'
<1> DEFINE E == ElevatorEvents \ {"DoorFree"}
<1>1. /\ <<"Complete">> \in Seq(E) /\ <<"Complete", "Complete">> \in Seq(E)
      /\ <<"HallButton">> \in Seq(E) /\ <<"DoorStuck">> \in Seq(E)
  BY DEF ElevatorEvents
<1>2. ASSUME Completes PROVE elevatorSends' \in Seq(E)
  <2>1. CASE elevatorSends' = <<"Complete">>              BY <1>1, <2>1
  <2>2. CASE elevatorSends' = <<"Complete", "Complete">>  BY <1>1, <2>2
  <2> QED  BY <1>2, <2>1, <2>2 DEF Completes
<1>3. CASE ElevatorReports
  <2>1. CASE Completes                           BY <1>2, <2>1 DEF NoFreeDoor
  <2>2. CASE elevatorSends' = <<"HallButton">>   BY <1>1, <2>2 DEF NoFreeDoor
  <2>3. CASE elevatorSends' = <<"DoorStuck">>    BY <1>1, <2>3 DEF NoFreeDoor
  <2> QED  BY <1>3, <2>1, <2>2, <2>3 DEF ElevatorReports
<1>4. CASE ElevatorTakesUpdate
  <2>1. CASE Completes                 BY <1>2, <2>1 DEF NoFreeDoor
  <2>2. CASE UNCHANGED elevatorSends   BY <2>2 DEF NoFreeDoor
  <2> QED  BY <1>4, <2>1, <2>2 DEF ElevatorTakesUpdate
<1>5. CASE TakeElevatorEvent
  BY <1>5 DEF TakeElevatorEvent, NoFreeDoor
<1>6. ASSUME UNCHANGED elevatorSends PROVE NoFreeDoor'
  BY <1>6 DEF NoFreeDoor
<1>7. CASE ~(ElevatorReports \/ ElevatorTakesUpdate \/ TakeElevatorEvent)
  BY <1>6, <1>7
     DEF Next, vars, elevatorVars, NodeStep, EnterMode, SwitchTransmitter, SendUpdate, ServerTakesCommand,
         PeerTimeout, ConnectionTimeout, PeersChange, TakeElevStateUpdate, TakeNetworkEvent,
         ReceiveNewHallRequest, ReceiveHallAssignmentComplete, ReceiveConnectionReq,
         ReceiveHallAssignment, ReceiveGlobalHallRequest, MasterConnectionTimeout,
         ReceiveCabRequestInfo, DecisionTimeout, nodeOnly
<1> QED  BY <1>3, <1>4, <1>5, <1>7

\* Until the node takes the first event, the elevator waits and the node has nothing to do.
LEMMA FirstEventWaits ==
  ASSUME [Next]_vars, mode = "Inactive", todo = <<>>, elevatorSends = <<"DoorFree">>, ~TakeElevatorEvent
  PROVE  UNCHANGED <<mode, todo, elevatorSends>>
<1>1. elevatorSends # <<>>
  BY Tuple1
<1> QED
  BY <1>1 DEF Next, vars, elevatorVars, NodeStep, EnterMode, SwitchTransmitter, SendUpdate, ServerTakesCommand,
         Doing, PeerTimeout, ConnectionTimeout, PeersChange, TakeElevStateUpdate, TakeNetworkEvent,
         ElevatorReports, ElevatorTakesUpdate, ElevatorSelecting,
         ReceiveNewHallRequest, ReceiveHallAssignmentComplete, ReceiveConnectionReq,
         ReceiveHallAssignment, ReceiveGlobalHallRequest, MasterConnectionTimeout,
         ReceiveCabRequestInfo, DecisionTimeout, nodeOnly

LEMMA FreeDoorFirstStays ==
  ASSUME Types, [Next]_vars, FreeDoorFirst
  PROVE  FreeDoorFirst'
<1>1. CASE NoFreeDoor
  BY <1>1, NoFreeDoorStays DEF FreeDoorFirst
<1>2. CASE mode = "Inactive" /\ todo = <<>> /\ elevatorSends = <<"DoorFree">>
  <2>1. CASE TakeElevatorEvent
    <3>1. elevatorSends' = <<>>
      BY <1>2, <2>1, Tuple1 DEF TakeElevatorEvent
    <3> QED  BY <3>1 DEF FreeDoorFirst, NoFreeDoor
  <2>2. CASE ~TakeElevatorEvent
    <3>1. UNCHANGED <<mode, todo, elevatorSends>>
      BY <1>2, <2>2, FirstEventWaits
    <3> QED  BY <1>2, <3>1 DEF FreeDoorFirst
  <2> QED  BY <2>1, <2>2
<1> QED  BY <1>1, <1>2 DEF FreeDoorFirst

LEMMA FinalStays ==
  ASSUME Types, Final, [Next]_vars
  PROVE  Final' /\ (mode = "Inactive" => mode' = "Inactive")
<1>0. NoFreeDoor' /\ NoFreeDoor
  BY NoFreeDoorStays DEF Final
<1>1. ASSUME mode = "Inactive"
      PROVE  mode' = "Inactive" /\ todo' \in Seq(PlainOps)
  <2>1. todo \in Seq(PlainOps)
    BY <1>1 DEF Final
  <2>2. CASE NodeStep
    <3>1. todo # <<>> => Head(todo) \notin Modes
      BY <2>1 DEF PlainOps, Commands, Updates, Modes
    <3>2. Advances
      BY <2>2, <3>1, NodeStepIs DEF EnterMode
    <3> QED  BY <1>1, <2>1, <3>2 DEF Advances
  <2>3. CASE TakeElevatorEvent
    <3>1. Head(elevatorSends) \in ElevatorEvents \ {"DoorFree"}
      BY <1>0, <2>3 DEF TakeElevatorEvent, NoFreeDoor
    <3>2. HandleElevatorEvent(Head(elevatorSends)) /\ mode' = mode
      BY <2>3 DEF TakeElevatorEvent
    <3>3. todo' = todo
      BY <1>1, <3>1, <3>2 DEF HandleElevatorEvent
    <3> QED  BY <1>1, <2>1, <3>2, <3>3
  <2>4. CASE TakeNetworkEvent
    <3>1. todo' = todo /\ mode' = mode
      BY <1>1, <2>4 DEF TakeNetworkEvent
    <3> QED  BY <1>1, <2>1, <3>1
  <2>5. CASE ~(NodeStep \/ TakeElevatorEvent \/ TakeNetworkEvent)
    <3>1. UNCHANGED <<mode, todo>>
      BY <1>1, <2>5
         DEF Next, vars, PeerTimeout, ConnectionTimeout, PeersChange, TakeElevStateUpdate,
             ElevatorReports, ElevatorTakesUpdate,
             ReceiveNewHallRequest, ReceiveHallAssignmentComplete, ReceiveConnectionReq,
             ReceiveHallAssignment, ReceiveGlobalHallRequest, MasterConnectionTimeout,
             ReceiveCabRequestInfo, DecisionTimeout, nodeOnly
    <3> QED  BY <1>1, <2>1, <3>1
  <2> QED  BY <2>2, <2>3, <2>4, <2>5
<1>2. ASSUME mode # "Inactive", mode' = "Inactive"
      PROVE  todo' \in Seq(PlainOps)
  <2>1. PICK m \in Modes : EnterMode(m)
    <3>1. ~Advances
      BY <1>2 DEF Advances
    <3>2. NodeStep
      BY <1>2 DEF Next, vars, PeerTimeout, ConnectionTimeout, PeersChange, TakeElevStateUpdate,
                  TakeNetworkEvent, TakeElevatorEvent, ElevatorReports, ElevatorTakesUpdate,
                  ReceiveNewHallRequest, ReceiveHallAssignmentComplete, ReceiveConnectionReq,
                  ReceiveHallAssignment, ReceiveGlobalHallRequest, MasterConnectionTimeout,
                  ReceiveCabRequestInfo, DecisionTimeout, nodeOnly
    <3> QED  BY <3>1, <3>2, NodeStepIs
  <2> QED  BY <1>2, <2>1, EntryIs, HandlersType DEF EnterMode
<1> QED  BY <1>0, <1>1, <1>2 DEF Final

\* ElevatorProgram reports a free door once, at its start (inactive.go:17): a node that has left
\* Inactive and comes back stays there.
THEOREM InactiveAlwaysFinal == Spec => InactiveIsFinal
<1>1. Init => Types /\ FreeDoorFirst
  BY InitType, TypeParts DEF Init, FreeDoorFirst
<1>2. Types /\ FreeDoorFirst /\ [Next]_vars => Types' /\ FreeDoorFirst'
  BY NextType, FreeDoorFirstStays
<1>3. FreeDoorFirst /\ mode # "Inactive" => Final
  BY DEF FreeDoorFirst, Final
<1>4. Types /\ Final /\ [Next]_vars => Final' /\ (mode = "Inactive" => (mode = "Inactive")')
  BY FinalStays
<1> QED  BY <1>1, <1>2, <1>3, <1>4, PTL DEF Spec, InactiveIsFinal

-----------------------------------------------------------------------------
(* The node implements NodeRoles.                                          *)

\* What the handlers of mode m are made of, the modes that may follow it among them.
Route(m) == Commands \cup Updates \cup Switches \cup Roles!Ways(m)

OnRoute == todo \in Seq(Route(mode))

\* A node is Inactive for the first time, or for good.
FreshOrFinal ==
  \/ Final
  \/ mode = "Inactive" /\ todo = <<>> /\ elevatorSends = <<"DoorFree">>
  \/ mode = "Inactive" /\ todo = <<"Disconnected">> /\ NoFreeDoor

RoleInv == Types /\ Plan /\ OnRoute /\ FreshOrFinal

\* Steps of other goroutines, and those with which a handler begins.
LEMMA OtherStepKeeps ==
  ASSUME [Next]_vars, ~NodeStep
  PROVE  UNCHANGED <<mode, broadcast, assigner, complete>>
  BY DEF Next, vars, PeerTimeout, ConnectionTimeout, PeersChange, TakeElevStateUpdate,
         TakeNetworkEvent, TakeElevatorEvent, ElevatorReports, ElevatorTakesUpdate,
         ReceiveNewHallRequest, ReceiveHallAssignmentComplete, ReceiveConnectionReq,
         ReceiveHallAssignment, ReceiveGlobalHallRequest, MasterConnectionTimeout,
         ReceiveCabRequestInfo, DecisionTimeout, nodeOnly, transmitters

LEMMA OtherStepBegins ==
  ASSUME Types, [Next]_vars, ~NodeStep
  PROVE  \/ UNCHANGED todo
         \/ todo = <<>> /\ HandlerBegins
         \/ mode = "Disconnected" /\ todo' \in {<<"Slave">>, <<"cabOrder", "Slave">>}
<1>0. mode \in Modes
  BY DEF Types, ControlType
<1>1. CASE TakeNetworkEvent
  BY <1>0, <1>1, NetworkEventHandler DEF TakeNetworkEvent, Selecting
<1>2. CASE TakeElevatorEvent
  BY <1>0, <1>2, ElevatorEventHandler DEF TakeElevatorEvent, Selecting
<1>3. CASE MasterConnectionTimeout \/ DecisionTimeout
  BY <1>3, LeaveBegins DEF MasterConnectionTimeout, DecisionTimeout, Selecting, Roles!Ways
<1>4. CASE ReceiveCabRequestInfo
  BY <1>4 DEF ReceiveCabRequestInfo, Either
<1>5. CASE \/ TakeElevStateUpdate \/ ReceiveNewHallRequest \/ ReceiveHallAssignmentComplete
           \/ ReceiveConnectionReq \/ ReceiveHallAssignment \/ ReceiveGlobalHallRequest
  <2>1. todo = <<>> /\ todo' \in Seq(PlainOps)
    BY <1>5, HandlersType
       DEF TakeElevStateUpdate, ReceiveNewHallRequest, ReceiveHallAssignmentComplete,
           ReceiveConnectionReq, ReceiveHallAssignment, ReceiveGlobalHallRequest, Either, Selecting
  <2> QED  BY <2>1, PlainBegins
<1>6. CASE \/ PeerTimeout \/ ConnectionTimeout \/ PeersChange \/ ElevatorReports
           \/ ElevatorTakesUpdate \/ UNCHANGED vars
  BY <1>6 DEF PeerTimeout, ConnectionTimeout, PeersChange, ElevatorReports, ElevatorTakesUpdate, vars
<1> QED  BY <1>1, <1>2, <1>3, <1>4, <1>5, <1>6 DEF Next

LEMMA RouteSequences ==
  ASSUME NEW m \in Modes
  PROVE  /\ \A t \in Seq(PlainOps) : t \in Seq(Route(m))
         /\ Entry(m) \in Seq(Route(m))
         /\ \A next \in Roles!Ways(m) : Exit(m, next) \in Seq(Route(m))
         /\ m = "Disconnected" => {<<"Slave">>, <<"cabOrder", "Slave">>} \subseteq Seq(Route(m))
<1> DEFINE R == Route(m)
<1>1. /\ {"getActiveElevStates", "light", "broadcastOn", "assignerOn", "completeOn", "cabOrder",
          "startConnectionTimeoutDetection", "broadcastOff", "assignerOff", "completeOff",
          "stopConnectionTimeoutDetection"} \subseteq R
      /\ PlainOps \subseteq R /\ Roles!Ways(m) \subseteq R
  BY DEF Route, Commands, Updates, Switches, PlainOps
<1>2. m = "Disconnected" => "Slave" \in R
  BY <1>1 DEF Roles!Ways
<1> HIDE DEF R
<1>3. \A t \in Seq(PlainOps) : t \in Seq(R)
  BY <1>1
<1>4. Entry(m) \in Seq(R)
  <2>1. /\ <<"getActiveElevStates", "light", "broadcastOn", "assignerOn", "startConnectionTimeoutDetection">> \in Seq(R)
        /\ <<"light", "broadcastOn", "assignerOn", "startConnectionTimeoutDetection">> \in Seq(R)
        /\ <<"completeOn", "startConnectionTimeoutDetection">> \in Seq(R)
        /\ <<>> \in Seq(R)
    BY <1>1
  <2> QED  BY <2>1, EntryIs DEF Modes
<1>5. ASSUME NEW next \in Roles!Ways(m) PROVE Exit(m, next) \in Seq(R)
  <2>1. next \in R
    BY <1>1
  <2>2. /\ <<"broadcastOff", "assignerOff", "stopConnectionTimeoutDetection", next>> \in Seq(R)
        /\ <<"completeOff", next>> \in Seq(R) /\ <<next>> \in Seq(R)
    BY <1>1, <2>1
  <2> QED  BY <2>2 DEF Exit
<1>6. m = "Disconnected" => {<<"Slave">>, <<"cabOrder", "Slave">>} \subseteq Seq(R)
  BY <1>1, <1>2
<1> QED  BY <1>3, <1>4, <1>5, <1>6 DEF R

LEMMA OnRouteStays ==
  ASSUME Types, OnRoute, [Next]_vars
  PROVE  OnRoute'
<1>0. mode \in Modes
  BY DEF Types, ControlType
<1>1. CASE NodeStep
  <2>1. CASE Advances
    BY <2>1 DEF Advances, OnRoute
  <2>2. ASSUME NEW m \in Modes, EnterMode(m) PROVE OnRoute'
    BY <2>2, RouteSequences DEF EnterMode, OnRoute
  <2> QED  BY <1>1, <2>1, <2>2, NodeStepIs
<1>2. CASE ~NodeStep
  <2>1. mode' = mode
    BY <1>2, OtherStepKeeps
  <2>2. todo' = todo \/ todo' \in Seq(Route(mode))
    BY <1>0, <1>2, OtherStepBegins, RouteSequences DEF HandlerBegins
  <2> QED  BY <2>1, <2>2 DEF OnRoute
<1> QED  BY <1>1, <1>2

LEMMA NotFreshSequences ==
  /\ \A q \in Seq(ElevatorEvents \ {"DoorFree"}) : q # <<"DoorFree">>
  /\ \A t \in Seq(PlainOps) : t # <<"Disconnected">>
<1>1. ASSUME NEW S, NEW x, NEW q \in Seq(S), q = <<x>> PROVE x \in S
  <2>1. Head(q) = x /\ q # <<>>
    BY <1>1, Tuple1
  <2> QED  BY <2>1
<1>2. "DoorFree" \notin ElevatorEvents \ {"DoorFree"} /\ "Disconnected" \notin PlainOps
  BY DEF PlainOps, Commands, Updates
<1> QED  BY <1>1, <1>2

\* Only the start of a node, and the handler it begins with, are fresh: a change of mode ends that.
LEMMA FreshSteps ==
  ASSUME Types, FreshOrFinal, [Next]_vars
  PROVE  /\ FreshOrFinal'
         /\ mode' = mode => (Fresh' <=> Fresh)
         /\ mode' # mode => ~Fresh' /\ (mode = "Inactive" => Fresh)
<1>1. CASE Final
  <2>1. Final' /\ (mode = "Inactive" => mode' = "Inactive")
    BY <1>1, FinalStays
  <2>2. ~Fresh
    BY <1>1, NotFreshSequences DEF Final, NoFreeDoor, Fresh
  <2>3. ~Fresh'
    BY <2>1, NotFreshSequences DEF Final, NoFreeDoor, Fresh
  <2> QED  BY <2>1, <2>2, <2>3 DEF FreshOrFinal
<1>2. CASE mode = "Inactive" /\ todo = <<>> /\ elevatorSends = <<"DoorFree">>
  <2>1. CASE TakeElevatorEvent
    <3>1. elevatorSends' = <<>> /\ mode' = mode /\ HandleElevatorEvent("DoorFree")
      BY <1>2, <2>1, Tuple1 DEF TakeElevatorEvent
    <3>2. todo' = <<"Disconnected">>
      BY <1>2, <3>1 DEF HandleElevatorEvent, Leave, Exit
    <3>3. Fresh /\ Fresh' /\ NoFreeDoor'
      BY <1>2, <3>1, <3>2 DEF Fresh, NoFreeDoor
    <3> QED  BY <1>2, <3>1, <3>2, <3>3 DEF FreshOrFinal
  <2>2. CASE ~TakeElevatorEvent
    <3>1. UNCHANGED <<mode, todo, elevatorSends>>
      BY <1>2, <2>2, FirstEventWaits
    <3> QED  BY <1>2, <3>1 DEF Fresh, FreshOrFinal
  <2> QED  BY <2>1, <2>2
<1>3. CASE mode = "Inactive" /\ todo = <<"Disconnected">> /\ NoFreeDoor
  <2>0. Head(todo) = "Disconnected" /\ todo # <<>> /\ Fresh /\ NoFreeDoor'
    BY <1>3, Tuple1, NoFreeDoorStays DEF Fresh
  <2>1. CASE NodeStep
    <3>1. EnterMode("Disconnected")
      BY <2>0, <2>1, NodeStepIs DEF Advances, EnterMode, Modes
    <3>2. mode' = "Disconnected"
      BY <3>1 DEF EnterMode
    <3> QED  BY <1>3, <2>0, <3>2 DEF Final, Fresh, FreshOrFinal
  <2>2. CASE ~NodeStep
    <3>1. UNCHANGED <<mode, todo>>
      BY <1>3, <2>0, <2>2, OtherStepKeeps, OtherStepBegins
    <3> QED  BY <1>3, <2>0, <3>1 DEF Fresh, FreshOrFinal
  <2> QED  BY <2>1, <2>2
<1> QED  BY <1>1, <1>2, <1>3 DEF FreshOrFinal

\* A step within a handler turns at most one transmitter on or off.
LEMMA AdvanceImplements ==
  ASSUME Types, Plan', Advances, Fresh' <=> Fresh
  PROVE  Roles!SwitchOn \/ Roles!SwitchOff \/ UNCHANGED Roles!roleVars
<1>1. mode' = mode /\ Fresh' = Fresh
  BY Zenon DEF Advances, Fresh
<1>2. (broadcast' \/ assigner' => mode = "Master") /\ (complete' => mode = "Slave")
  BY <1>1 DEF Plan, Steady, Follows, Off, EnteringMaster, EnteringSlave, LeavingMaster, LeavingSlave, Between
<1>3. ASSUME NEW t \in {"broadcast", "assigner", "complete"},
             \A u \in {"broadcast", "assigner", "complete"} \ {t} : u \in Sends' <=> u \in Sends
      PROVE  Roles!SwitchOn \/ Roles!SwitchOff \/ UNCHANGED Roles!roleVars
  <2>1. Sends \subseteq {"broadcast", "assigner", "complete"}
        /\ Sends' \subseteq {"broadcast", "assigner", "complete"}
    BY DEF Sends
  <2>2. CASE t \in Sends' /\ t \notin Sends
    <3>1. Sends' = Sends \cup {t}
      BY <1>3, <2>1, <2>2
    <3>2. t \in Roles!Right(mode)
      BY <1>2, <2>2 DEF Sends, Roles!Right
    <3> QED  BY <1>1, <2>2, <3>1, <3>2 DEF Roles!SwitchOn
  <2>3. CASE t \notin Sends' /\ t \in Sends
    <3>1. Sends' = Sends \ {t}
      BY <1>3, <2>1, <2>3
    <3> QED  BY <1>1, <2>3, <3>1 DEF Roles!SwitchOff
  <2>4. CASE t \in Sends' <=> t \in Sends
    <3>1. \A u \in {"broadcast", "assigner", "complete"} : u \in Sends' <=> u \in Sends
      BY <1>3, <2>4
    <3>2. Sends' \subseteq Sends /\ Sends \subseteq Sends'
      BY <2>1, <3>1
    <3> QED  BY <1>1, <3>2 DEF Roles!roleVars
  <2> QED  BY <2>2, <2>3, <2>4
<1>4. CASE assigner' = assigner /\ complete' = complete
  BY <1>3, <1>4 DEF Sends
<1>5. CASE broadcast' = broadcast /\ complete' = complete
  BY <1>3, <1>5 DEF Sends
<1>6. CASE broadcast' = broadcast /\ assigner' = assigner
  BY <1>3, <1>6 DEF Sends
<1> QED  BY <1>4, <1>5, <1>6 DEF Advances

LEMMA StepRole ==
  ASSUME RoleInv, [Next]_vars
  PROVE  RoleInv' /\ [Roles!RoleNext]_(Roles!roleVars)
<1>0. Types /\ Plan /\ OnRoute /\ FreshOrFinal
  BY DEF RoleInv
<1>1. Types' /\ Plan' /\ OnRoute' /\ FreshOrFinal'
  BY <1>0, NextType, NextPlan, OnRouteStays, FreshSteps
<1>2. CASE Advances
  <2>1. Fresh' <=> Fresh
    BY <1>0, <1>2, FreshSteps DEF Advances
  <2> QED  BY <1>0, <1>1, <1>2, <2>1, AdvanceImplements DEF RoleInv, Roles!RoleNext
<1>3. ASSUME NEW m \in Modes, EnterMode(m) PROVE Roles!ChangeRole
  <2>1. m \in Roles!Ways(mode)
    <3>1. m \in Route(mode)
      BY <1>0, <1>3 DEF EnterMode, OnRoute
    <3> QED  BY <3>1 DEF Route, Commands, Updates, Switches, Modes
  <2>2. mode' = m /\ mode' # mode /\ UNCHANGED <<broadcast, assigner, complete>>
    BY <1>3, <2>1 DEF EnterMode, transmitters, Roles!Ways
  <2>3. Sends = {} /\ Sends' = {}
    BY <1>0, <1>3, <2>2, EntersSilent DEF Off, Sends
  <2>4. Fresh' = FALSE /\ (mode = "Inactive" => Fresh)
    BY <1>0, <2>2, FreshSteps
  <2> QED  BY <2>1, <2>2, <2>3, <2>4 DEF Roles!ChangeRole
<1>4. CASE ~NodeStep
  <2>1. UNCHANGED <<mode, broadcast, assigner, complete>>
    BY <1>4, OtherStepKeeps
  <2>2. Sends' = Sends
    BY <2>1 DEF Sends
  <2>3. Fresh' <=> Fresh
    BY <1>0, <2>1, FreshSteps
  <2>4. Fresh' = Fresh
    BY <2>3, Zenon DEF Fresh
  <2> QED  BY <1>1, <2>1, <2>2, <2>4 DEF RoleInv, Roles!roleVars
<1> QED  BY <1>1, <1>2, <1>3, <1>4, NodeStepIs DEF RoleInv, Roles!RoleNext

\* The node changes its mode in silence, from one mode to one that follows it (main.go:17), sends
\* nothing that is not its role's, and never comes back from Inactive, wherever its handlers are.
THEOREM NodeKeepsRole == Spec => ImplementsNodeRoles
<1>1. Init => RoleInv /\ Roles!RoleInit
  <2> SUFFICES ASSUME Init PROVE RoleInv /\ Roles!RoleInit
    OBVIOUS
  <2>1. Types /\ Plan
    BY InitType, TypeParts, InitPlan
  <2>2. OnRoute /\ FreshOrFinal /\ Fresh
    BY DEF Init, OnRoute, FreshOrFinal, Fresh
  <2>3. Sends = {} /\ mode = "Inactive"
    BY DEF Init, Sends
  <2>4. Fresh = TRUE
    BY <2>2
  <2> QED  BY <2>1, <2>2, <2>3, <2>4 DEF RoleInv, Roles!RoleInit
<1>2. RoleInv /\ [Next]_vars => RoleInv' /\ [Roles!RoleNext]_(Roles!roleVars)
  BY StepRole
<1> QED  BY <1>1, <1>2, PTL DEF Spec, ImplementsNodeRoles, Roles!RoleSpec

\* NodeRoles is promise enough: a node that keeps it has, wherever its handlers are (master.go,
\* slave.go), no transmitter on that is not its mode's.
THEOREM PromiseSendsItsOwn == Roles!RoleSpec => []Roles!SendsItsOwn
<1>1. Roles!RoleInit => Roles!SendsItsOwn
  BY DEF Roles!RoleInit, Roles!SendsItsOwn
<1>2. Roles!SendsItsOwn /\ [Roles!RoleNext]_(Roles!roleVars) => Roles!SendsItsOwn'
  BY DEF Roles!SendsItsOwn, Roles!RoleNext, Roles!ChangeRole, Roles!SwitchOn, Roles!SwitchOff, Roles!roleVars
<1> QED  BY <1>1, <1>2, PTL DEF Roles!RoleSpec
=============================================================================
