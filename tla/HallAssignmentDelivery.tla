----------------------- MODULE HallAssignmentDelivery -----------------------
(***************************************************************************)
(* How the master's hall assignments reach the slaves: the retrying        *)
(* HallAssignmentsTransmitter (messagehandler/transmitters.go), UDP, the   *)
(* acceptance and acknowledgement in SlaveProgram (node/slave.go), and the *)
(* bounded channel over which the order then goes to the elevator.         *)
(*                                                                         *)
(* A message id stands for the 61 random bits GenerateMessageID draws; ids *)
(* are taken to be fresh and are numbered in the order they are drawn.     *)
(***************************************************************************)
EXTENDS Integers, Sequences

CONSTANTS Slaves,          \* the other nodes the master assigns hall calls to
          HallCalls,       \* the hall calls of the building
          MaxMessages,     \* bound: assignments handed to the transmitter
          WireCapacity,    \* bound: messages on the way to one slave; UDP drops the rest
          TimeoutCapacity, \* capacity of timeoutChannel: 2 in the code
          UpdateCapacity   \* capacity of ElevLightAndAssignmentUpdateTx: 3 in the code

ASSUME DeliveryAssumption == /\ MaxMessages \in Nat /\ WireCapacity \in Nat \ {0}
                             /\ TimeoutCapacity \in Nat \ {0} /\ UpdateCapacity \in Nat \ {0}

VARIABLES
  requests,        \* GlobalHallRequests of the master
  broadcast,       \* GHallRequests: what its GlobalHallRequestsTransmitter sends
  enable, active,  \* the transmitter: enabled?, activeAssignments
  timers,          \* time.AfterFunc timers per id: running, or waiting for timeoutChannel
  timeoutChannel,  \* ids that timed out
  nextID,          \* the next fresh id
  latest,          \* history: id of the last assignment for each slave in this mastership
  wire, acks,      \* the network: assignments under way to each slave; acks
  known,           \* GlobalHallRequests of each slave
  lastID,          \* lastHallAssignmentMessageID of each slave
  orders,          \* ElevLightAndAssignmentUpdateTx of each slave: ids of the hall orders in it
  lights,          \* and how many light updates; the order of the two kinds is left open
  deadlocked,      \* slaves whose node and elevator are in sends to each other
  inForce          \* id of the assignment each slave's elevator was last given

masterVars   == <<requests, broadcast, enable, active, timers, timeoutChannel, nextID, latest>>
elevatorVars == <<orders, lights, deadlocked, inForce>>
slaveVars    == <<known, lastID, elevatorVars>>
vars         == <<masterVars, wire, acks, slaveVars>>

IDs     == 1 .. MaxMessages
NoID    == 0
Message == [NodeID : Slaves, HallAssignment : SUBSET HallCalls, MessageID : IDs]
Ack     == [NodeID : Slaves, MessageID : IDs]

\* Broadcasting m: it joins the wire to its slave, unless the wire is full.
Transmit(m) == wire' = [wire EXCEPT ![m.NodeID] = IF Len(@) < WireCapacity THEN Append(@, m) ELSE @]

-----------------------------------------------------------------------------
(* The master.                                                             *)

NewHallRequest(call) ==
  /\ requests' = requests \cup {call} /\ broadcast' = requests'
  /\ UNCHANGED <<enable, active, timers, timeoutChannel, nextID, latest, wire, acks, slaveVars>>

\* Somebody has served the call.  The assignments under way are not revised.
HallRequestDone(call) ==
  /\ requests' = requests \ {call} /\ broadcast' = requests'
  /\ UNCHANGED <<enable, active, timers, timeoutChannel, nextID, latest, wire, acks, slaveVars>>

\* MasterProgram enables the transmitter on entry and disables it on exit.
EnableTransmitter(on) ==
  /\ enable # on
  /\ enable' = on
  /\ active' = IF on THEN active ELSE {}
  /\ latest' = [s \in Slaves |-> NoID]
  /\ broadcast' = IF on THEN requests ELSE broadcast
  /\ UNCHANGED <<requests, timers, timeoutChannel, nextID, wire, acks, slaveVars>>

\* A faulty variant for mutation checks: the new assignment does not replace the old one.
NewAssignment_KeepsOld(s, calls) ==
  /\ enable /\ calls \subseteq requests /\ nextID \in IDs
  /\ LET m == [NodeID |-> s, HallAssignment |-> calls, MessageID |-> nextID] IN
     /\ active' = active \cup {m}
     /\ Transmit(m)
  /\ timers' = [timers EXCEPT ![nextID] = @ + 1]
  /\ latest' = [latest EXCEPT ![s] = nextID]
  /\ nextID' = nextID + 1
  /\ broadcast' = requests
  /\ UNCHANGED <<requests, enable, timeoutChannel, acks, slaveVars>>

\* The node hands over what the assigner chose for s among the requests: the transmitter
\* remembers it instead of the previous one, sends it and starts its timer.  The broadcast of
\* the requests follows in the same handler.
NewAssignment(s, calls) ==
  /\ enable /\ calls \subseteq requests /\ nextID \in IDs
  /\ LET m == [NodeID |-> s, HallAssignment |-> calls, MessageID |-> nextID] IN
     /\ active' = {old \in active : old.NodeID # s} \cup {m}
     /\ Transmit(m)
  /\ timers' = [timers EXCEPT ![nextID] = @ + 1]
  /\ latest' = [latest EXCEPT ![s] = nextID]
  /\ nextID' = nextID + 1
  /\ broadcast' = requests
  /\ UNCHANGED <<requests, enable, timeoutChannel, acks, slaveVars>>

\* An update that asks for no distribution, such as the answer to a connection request: the
\* zero-value GlobalHallRequest is broadcast until the master's next event.
UpdateWithoutDistribution ==
  /\ enable
  /\ broadcast' = {}
  /\ UNCHANGED <<requests, enable, active, timers, timeoutChannel, nextID, latest, wire, acks, slaveVars>>

\* A faulty variant: the timer's goroutine does not wait for room.
TimerFires_NoWait(id) ==
  /\ timers[id] > 0
  /\ timers' = [timers EXCEPT ![id] = @ - 1]
  /\ timeoutChannel' = Append(timeoutChannel, id)
  /\ UNCHANGED <<requests, broadcast, enable, active, nextID, latest, wire, acks, slaveVars>>

\* The timer's goroutine sends the id, once the channel has room.
TimerFires(id) ==
  /\ timers[id] > 0 /\ Len(timeoutChannel) < TimeoutCapacity
  /\ timers' = [timers EXCEPT ![id] = @ - 1]
  /\ timeoutChannel' = Append(timeoutChannel, id)
  /\ UNCHANGED <<requests, broadcast, enable, active, nextID, latest, wire, acks, slaveVars>>

\* A faulty variant: the resend does not start the timer again.
Retry_Once ==
  /\ timeoutChannel # <<>>
  /\ timeoutChannel' = Tail(timeoutChannel)
  /\ \/ \E m \in active : m.MessageID = Head(timeoutChannel) /\ Transmit(m)
     \/ (\A m \in active : m.MessageID # Head(timeoutChannel)) /\ UNCHANGED wire
  /\ UNCHANGED <<requests, broadcast, enable, active, nextID, latest, acks, slaveVars, timers>>

\* Resend what is still active under this id and start its timer again.
Retry ==
  /\ timeoutChannel # <<>>
  /\ timeoutChannel' = Tail(timeoutChannel)
  /\ LET id == Head(timeoutChannel) IN
     \/ /\ \E m \in active : m.MessageID = id /\ Transmit(m)
        /\ timers' = [timers EXCEPT ![id] = @ + 1]
     \/ /\ \A m \in active : m.MessageID # id
        /\ UNCHANGED <<timers, wire>>
  /\ UNCHANGED <<requests, broadcast, enable, active, nextID, latest, acks, slaveVars>>

\* A faulty variant: any ack of the node will do.
ReceiveAck_AnyID(ack) ==
  /\ acks' = acks \ {ack}
  /\ active' = {m \in active : m.NodeID # ack.NodeID}
  /\ UNCHANGED <<requests, broadcast, enable, timers, timeoutChannel, nextID, latest, wire, slaveVars>>

\* Only the ack of the active assignment settles it.
ReceiveAck(ack) ==
  /\ acks' = acks \ {ack}
  /\ active' = {m \in active : ~(m.NodeID = ack.NodeID /\ m.MessageID = ack.MessageID)}
  /\ UNCHANGED <<requests, broadcast, enable, timers, timeoutChannel, nextID, latest, wire, slaveVars>>

-----------------------------------------------------------------------------
(* The network.                                                            *)

\* SlaveProgram is at its select, unless it is in a send to the elevator: one update more than
\* the channel has room for stands for a send that blocks.
Selecting(s) == Len(orders[s]) + lights[s] <= UpdateCapacity

\* UDP on one network segment: messages get lost, but one sender's messages to one receiver
\* arrive in the order they were sent.
TakeOff(s) == wire[s] # <<>> /\ wire' = [wire EXCEPT ![s] = Tail(@)]

\* A lost message is taken off when the slave is ready for it: no step tells it was lost before.
LoseMessage(s) == Selecting(s) /\ TakeOff(s) /\ UNCHANGED <<masterVars, acks, slaveVars>>

LoseAck(ack) ==
  /\ acks' = acks \ {ack}
  /\ UNCHANGED <<masterVars, wire, slaveVars>>

-----------------------------------------------------------------------------
(* A slave and its elevator.                                               *)

\* Every call must be known from the master's broadcasts.
canAcceptHallAssignments(calls, globalHallReq) == calls \subseteq globalHallReq

\* A faulty variant: only a new message is acknowledged.
ReceiveHallAssignment_AckNew(s, m) ==
  /\ IF canAcceptHallAssignments(m.HallAssignment, known[s]) /\ m.MessageID # lastID[s]
     THEN /\ acks' = acks \cup {[NodeID |-> s, MessageID |-> m.MessageID]}
          /\ orders' = [orders EXCEPT ![s] = Append(@, m.MessageID)]
          /\ lastID' = [lastID EXCEPT ![s] = m.MessageID]
     ELSE UNCHANGED <<acks, lastID, orders>>
  /\ UNCHANGED <<masterVars, known, lights, deadlocked, inForce>>

\* A faulty variant: every assignment for the node is acknowledged, acceptable or not.
ReceiveHallAssignment_AckAny(s, m) ==
  /\ acks' = acks \cup {[NodeID |-> s, MessageID |-> m.MessageID]}
  /\ IF canAcceptHallAssignments(m.HallAssignment, known[s]) /\ m.MessageID # lastID[s]
     THEN /\ orders' = [orders EXCEPT ![s] = Append(@, m.MessageID)]
          /\ lastID' = [lastID EXCEPT ![s] = m.MessageID]
     ELSE UNCHANGED <<lastID, orders>>
  /\ UNCHANGED <<masterVars, known, lights, deadlocked, inForce>>

\* An acceptable assignment is acknowledged first; then, unless its id is the last one that
\* was, it is sent to the elevator, which takes it some time later.
ReceiveHallAssignment(s, m) ==
  /\ \/ /\ ~canAcceptHallAssignments(m.HallAssignment, known[s])
        /\ UNCHANGED <<acks, lastID, orders>>
     \/ /\ canAcceptHallAssignments(m.HallAssignment, known[s])
        /\ acks' = acks \cup {[NodeID |-> s, MessageID |-> m.MessageID]}
        /\ \/ /\ m.MessageID # lastID[s]
              /\ orders' = [orders EXCEPT ![s] = Append(@, m.MessageID)]
              /\ lastID' = [lastID EXCEPT ![s] = m.MessageID]
           \/ m.MessageID = lastID[s] /\ UNCHANGED <<lastID, orders>>
  /\ UNCHANGED <<masterVars, known, lights, deadlocked, inForce>>

DeliverHallAssignment(s) ==
  Selecting(s) /\ TakeOff(s) /\ ReceiveHallAssignment(s, Head(wire[s]))

\* One of the master's periodic broadcasts arrives; the elevator is told of a change.
ReceiveGlobalHallRequest(s) ==
  /\ Selecting(s)
  /\ enable /\ known[s] # broadcast
  /\ known' = [known EXCEPT ![s] = broadcast]
  /\ lights' = [lights EXCEPT ![s] = @ + 1]
  /\ UNCHANGED <<masterVars, wire, acks, lastID, orders, deadlocked, inForce>>

\* The slave loses touch and becomes a slave again: SlaveProgram starts afresh, while the
\* node's requests, the channel and the elevator's table stay.
ReenterSlaveProgram(s) ==
  /\ Selecting(s)
  /\ lastID' = [lastID EXCEPT ![s] = NoID]
  /\ UNCHANGED <<masterVars, wire, acks, known, elevatorVars>>

\* The elevator's select takes an update: from then on the order is in force.
ElevatorTakesOrder(s) ==
  /\ s \notin deadlocked /\ orders[s] # <<>>
  /\ inForce' = [inForce EXCEPT ![s] = Head(orders[s])]
  /\ orders' = [orders EXCEPT ![s] = Tail(@)]
  /\ UNCHANGED <<masterVars, wire, acks, known, lastID, lights, deadlocked>>

ElevatorTakesLights(s) ==
  /\ s \notin deadlocked /\ lights[s] > 0
  /\ lights' = [lights EXCEPT ![s] = @ - 1]
  /\ UNCHANGED <<masterVars, wire, acks, known, lastID, orders, deadlocked, inForce>>

\* A button, a completion or a stuck door: the elevator's send is taken when the node is at its
\* select, which is no step here, but never by a node that is itself in a send to the elevator.
ElevatorSends(s) ==
  /\ ~Selecting(s) /\ deadlocked' = deadlocked \cup {s}
  /\ UNCHANGED <<masterVars, wire, acks, known, lastID, orders, lights, inForce>>

-----------------------------------------------------------------------------
Init ==
  /\ requests = {} /\ broadcast = {} /\ enable = FALSE /\ active = {}
  /\ timers = [id \in IDs |-> 0] /\ timeoutChannel = <<>> /\ nextID = 1
  /\ latest = [s \in Slaves |-> NoID]
  /\ wire = [s \in Slaves |-> <<>>] /\ acks = {}
  /\ known = [s \in Slaves |-> {}] /\ lastID = [s \in Slaves |-> NoID]
  /\ orders = [s \in Slaves |-> <<>>] /\ lights = [s \in Slaves |-> 0]
  /\ deadlocked = {} /\ inForce = [s \in Slaves |-> NoID]

Next ==
  \/ \E call \in HallCalls : NewHallRequest(call) \/ HallRequestDone(call)
  \/ \E on \in BOOLEAN : EnableTransmitter(on)
  \/ \E s \in Slaves, calls \in SUBSET HallCalls : NewAssignment(s, calls)
  \/ \E id \in IDs : TimerFires(id)
  \/ Retry \/ UpdateWithoutDistribution
  \/ \E ack \in acks : ReceiveAck(ack) \/ LoseAck(ack)
  \/ \E s \in Slaves : \/ LoseMessage(s) \/ DeliverHallAssignment(s)
                       \/ ReceiveGlobalHallRequest(s) \/ ReenterSlaveProgram(s)
                       \/ ElevatorTakesOrder(s) \/ ElevatorTakesLights(s)
                       \/ ElevatorSends(s)

Spec == Init /\ [][Next]_vars

\* Timers go off, the transmitter's loop runs, and the network loses no message for ever: what
\* is sent again and again gets through again and again.  A select takes at random, so a case
\* that is ready again and again is taken.
Fairness ==
  /\ \A id \in IDs : WF_vars(TimerFires(id))
  /\ WF_vars(Retry)
  /\ \A s \in Slaves : /\ SF_vars(DeliverHallAssignment(s)) /\ SF_vars(ReceiveGlobalHallRequest(s))
                       /\ SF_vars(ElevatorTakesOrder(s)) /\ SF_vars(ElevatorTakesLights(s))
  /\ \A s \in Slaves, id \in IDs : SF_vars(LET ack == [NodeID |-> s, MessageID |-> id]
                                           IN  ack \in acks /\ ReceiveAck(ack))

FairSpec == Spec /\ Fairness

-----------------------------------------------------------------------------
(* Properties.                                                             *)

TypeOK ==
  /\ requests \subseteq HallCalls /\ broadcast \subseteq HallCalls /\ enable \in BOOLEAN
  /\ active \subseteq Message
  /\ timers \in [IDs -> Nat] /\ timeoutChannel \in Seq(IDs) /\ Len(timeoutChannel) <= TimeoutCapacity
  /\ nextID \in 1 .. MaxMessages + 1
  /\ latest \in [Slaves -> IDs \cup {NoID}]
  /\ wire \in [Slaves -> Seq(Message)] /\ acks \subseteq Ack
  /\ known \in [Slaves -> SUBSET HallCalls]
  /\ lastID \in [Slaves -> IDs \cup {NoID}] /\ inForce \in [Slaves -> IDs \cup {NoID}]
  /\ orders \in [Slaves -> Seq(IDs)] /\ lights \in [Slaves -> Nat] /\ deadlocked \subseteq Slaves

Waits(id, channel)     == \E i \in DOMAIN channel : channel[i] = id
WaitsOnce(id, channel) == /\ Waits(id, channel)
                          /\ \A i, j \in DOMAIN channel : channel[i] = id /\ channel[j] = id => i = j

\* One resend of id is ahead: a timer runs, or its goroutine waits, or it is in the channel.
ResendAhead(id) == \/ timers[id] = 1 /\ ~Waits(id, timeoutChannel)
                   \/ timers[id] = 0 /\ WaitsOnce(id, timeoutChannel)

\* Every assignment still to be acknowledged has exactly one resend ahead of it: it is never
\* forgotten, and resends never multiply.
OneResendAhead == \A m \in active : ResendAhead(m.MessageID)

\* One assignment per slave is active, and it is the last one made for it: a slave is never
\* pressed to take an order that has been replaced.
OnlyLatestActive == \A m \in active : enable /\ m.MessageID = latest[m.NodeID]

\* The last order the slave has accepted: waiting for the elevator, or in force.
LastOrder(s) == IF orders[s] = <<>> THEN inForce[s] ELSE orders[s][Len(orders[s])]

\* When the transmitter has been acknowledged the last assignment of a slave, that one is the
\* last the slave has accepted: it is in force at the elevator, or will be when the elevator
\* has taken what waits for it.
AcknowledgedIsAccepted ==
  \A s \in Slaves :
     latest[s] # NoID /\ (\A m \in active : m.NodeID # s) => LastOrder(s) = latest[s]

\* An elevator never goes back from an assignment to one made before it, though lost messages
\* are resent, replaced ones are still under way and accepted ones wait in the channel.
NeverGoesBack == [][\A s \in Slaves : inForce'[s] >= inForce[s]]_vars

\* The ids that may still arrive at s: on the wire, or to be resent.
UnderWay(s) == {wire[s][i].MessageID : i \in DOMAIN wire[s]}
               \cup {m.MessageID : m \in {n \in active : n.NodeID = s}}

Pending     == [s \in Slaves |-> UnderWay(s)]
Unconfirmed == {m.NodeID : m \in active}

Orders == INSTANCE OrderChannel WITH newest <- nextID - 1, assigned <- latest, accepted <- orders,
                                     pending <- Pending, unconfirmed <- Unconfirmed

\* Transmitter, timers, network and slaves together are a channel that delivers orders one after
\* the other: resends and duplicates are no steps of it, a late message never undoes a newer one,
\* and an ack that settles a message is the slave's word that no other order will be in force
\* after the ones that wait.
ImplementsOrderChannel == Orders!OrderSpec

\* The assignment id is still pressed on s, but holds a call that has been completed: the slave
\* may never come to know that call.
Outdated(s, id) == \E m \in active : /\ m.NodeID = s /\ m.MessageID = id
                                     /\ ~(m.HallAssignment \subseteq requests)

\* The broadcast is not of the requests (master.go:174): slaves refuse calls that are lit.
Blanked == broadcast # requests

Pressed(s, id) == \E m \in active : m.NodeID = s /\ m.MessageID = id

\* Every assignment gets into force at its slave's elevator and its resending comes to an end,
\* though assignments and acks get lost and the order has to wait for room in a channel; unless
\* a newer one replaces it, the master leaves, one of its calls is completed meanwhile, the
\* broadcast never stays that of the requests, or slave and elevator wait for each other.
AssignmentsSettle ==
  \A s \in Slaves, id \in IDs :
     latest[s] = id ~> \/ inForce[s] = id /\ ~Pressed(s, id)
                       \/ latest[s] # id \/ Outdated(s, id) \/ Blanked \/ s \in deadlocked
=============================================================================
