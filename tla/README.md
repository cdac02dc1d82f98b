# A verification project for Sanntid-Heis

Sanntid-Heis runs N elevators over M floors as a distributed system: every elevator has a node,
the nodes find a master among them over UDP broadcast, the master distributes the hall calls and
every call whose lamp burns is to be served. The modules here model the Go code under `src/`,
TLC checks them on small instances and TLAPS proves the main results for every instance.

1. [The system](#1-the-system)
2. [The modules](#2-the-modules)
3. [The runs](#3-the-runs)
4. [What is proved](#4-what-is-proved)
5. [What disagrees with the code's own words](#5-what-disagrees-with-the-codes-own-words)
6. [What is not modelled](#6-what-is-not-modelled)
7. [Plan](#7-plan)

## 1. The system

One process per elevator. `main.go` runs the *node loop*: the program of the current mode
(`InactiveProgram`, `DisconnectedProgram`, `SlaveProgram`, `MasterProgram`), each of them a `select`
over the same channels, returns the next mode. `MakeNode` starts the other goroutines:

| Goroutine | State | Talks to |
|---|---|---|
| `ElevatorProgram` | the global `elev` (floor, direction, behaviour, table of calls, hall lights, obstruction), two timers and a flag | hardware; the node: takes orders and lights from a channel of 3, sends events on an unbuffered one |
| `transmitElevatorState`, `PollButtons`, `PollFloorSensor`, `PollObstructionSwitch` | the last value seen | unbuffered channels to the node and to `ElevatorProgram` |
| `NodeElevStateServer` | known nodes, when they were last seen, the last number of active ones, two timers | the node, by commands, updates and events on unbuffered channels; the receiver |
| `HallAssignmentsTransmitter` | one active assignment per slave, timers, a channel of 2 ids | the node, the broadcaster, acks |
| `HallAssignmentCompleteTransmitter` | the active completions, timers, a channel of 2 ids | the same |
| `GlobalHallRequestsTransmitter` | the last requests, an enable flag | the node, the broadcaster |
| `IncomingAckDistributor` | none | hands an ack to the transmitter whose range of ids it is in |
| `bcast.Broadcaster`, `bcast.Receiver` | none | UDP |

The node itself keeps its mode, `GlobalHallRequests` and `TOLC` (time of last contact); a master
also keeps the connection requests to answer and a ring of five ids of completions.

**How a hall call travels.** A button event goes from the elevator to its node; a slave broadcasts
`NewHallRequest`, a master sets it in `GlobalHallRequests`, broadcasts these every 50 ms and
asks the server for the states of the active elevators. With these the assigner (an external
binary) divides the calls; each slave is sent `NewHallAssignments` until it acks. A slave accepts only calls it
has seen in the master's broadcasts, gives the order to its elevator, and reports each hall call served
with `HallAssignmentComplete` until a master acks. The master then clears the call.

**How a mode changes.** Disconnected nodes broadcast `ConnectionReq`. After 2 s of
listening, `ShouldBeMaster` compares TOLC and ids. A master answers a request with
`CabRequestInfo`, which makes the receiver a slave and gives a restarted elevator its cab calls
back. A slave without a master's broadcast for 500 ms, and a node without any
other for 2 s, is Disconnected; a door stuck for 30 s makes the node Inactive.

**What is hard about it.** Every select may take any ready case; unbuffered channels make two
loops wait for each other; orders are applied call by call while cab, poller and timers go on; UDP
loses messages, and resends cross with their acks and successors; nodes enter and leave modes with
messages of the previous one still around; timers race with answers. The
list of hazards in `PROJECT.json` names each place and the properties aimed at it.

**What makes each part correct.**

* *Single elevator*: never out of the shaft, no open door away from a floor, no work left with nothing to wake
  it, no call lost, truthful lamps, completions only of calls being served, every cab call served.
* *Hall assignment delivery*: an assignment is resent until acknowledged; an ack means that no other order comes
  after it at the elevator; an old one never replaces a new one; every assignment gets into force.
* *Completion delivery*: no completion is lost before a master has it; a resend clears nothing again; it settles.
* *Node*: transmitters follow the mode; every channel is drained in every mode; nobody waits in a circle.
* *Election*: at most one master among nodes that hear each other; the one with the newest requests is elected; a
  master emerges, and newcomers join it.
* *Distribution*: a lit call is in somebody's hands until it is served; what waits for a distribution gets one.
* *Cab backup*: a restarted elevator gets the cab calls back that the master knew of, through any number of crashes.

## 2. The modules

| Module | Models | State | Actions |
|---|---|---|---|
| `Requests` | `elevator/requests.go`, types of `elevator_sys.go` | none | operators only |
| `SingleElevator` | `elevator_fsm.go`, `elevatorprogram.go`, floor poller, cab | the global `elev`, the order being applied, events not taken, timers, lamps, motor, cab | one per select case, one per call of an order, poller, cab, node |
| `SafeLift` | nothing in the code: what a passenger relies on | cab, doors, motor | open, close, start, travel |
| `MCSingleElevator` | inputs for TLC | | |
| `SingleElevatorProofs` | theorems on `SingleElevator` | | |
| `HallAssignmentDelivery` | `HallAssignmentsTransmitter`, `SlaveProgram`'s acceptance, the channel from node to elevator, UDP | requests and what is broadcast of them, active assignments, timers, channel, wires, acks, what each slave knows, what waits for its elevator and what is in force there | one per select case of master and slave, timers, network, re-entry, what the elevator takes and sends |
| `OrderChannel` | nothing in the code: what the delivery of orders promises | newest order, order wanted, under way, accepted, unconfirmed and in force per slave | assign, accept, take effect, lose, confirm, hand over |
| `HallAssignmentProofs` | theorems on `HallAssignmentDelivery` | | |
| `HACompleteDelivery` | `HallAssignmentCompleteTransmitter`, `ProcessHAComplete`, `MessageIDBuffer`, UDP | active completions, wires, the ring | the same way |
| `ReportChannel` | nothing in the code: what the delivery of reports promises | reports made, repeated, under way, and those the master took last | see the module |
| `HACompleteProofs` | theorems on `HACompleteDelivery` | | |
| `NodeProgram` | control: the four programs, `NodeElevStateServer`, the channel ends of `ElevatorProgram` | mode, operations left in the current handler, what each goroutine is sending, timers, transmitters | one per message and timer, joint steps for unbuffered channels |
| `NodeRoles` | nothing in the code: what a node promises the others | role, whether it has begun, transmitters on | change role, switch on, switch off |
| `NodeProofs` | theorems on `NodeProgram` | | |
| `Election` | `DisconnectedProgram`, `ShouldBeMaster`, and of the other programs and the server what notices who is there, over several nodes | mode and TOLC of each node, requests it has heard, timers, which nodes hear each other | one per select case that matters, start, stop, cut and healed network, a tick of time |
| `Mastership` | nothing in the code: what the election promises | role of each node, who hears whom, whether the network is as at the start | join, leave, elect, take in, stand alone, rewire |
| `ElectionProofs` | theorems on `Election` | | |
| `HallDistribution` | `MasterProgram` from button to order: `ComputeHallAssignments`, the flag and rate limit, the server's answers and its one poll | requests, flag, update on its way, active and present slaves, orders in force, completions on their way | one per select case of the master, the outcomes of an update, slaves that come, go and expire |
| `CallService` | nothing in the code: what a master promises of the hall calls | calls lit, ordered, reported served, fallen; whether a distribution is due | press, repeat, hand out, serve, put out, let fall |
| `HallDistributionProofs` | theorems on it | | |
| `CabBackup` | the states the server keeps, `ConnectionReq`, `CabRequestInfo`, the cab order | mode and calls of each node, the master's copy, the request to answer | crash, start, button, service, state, request, answer, cab order |
| `CabBackupProofs` | theorems on it | | |

Every module looks at one thing and names what it leaves to which other: `Election`, `HallDistribution` and
`CabBackup` take a command to the server and its answer as a joint step, because `NodeProgram` has where they block
each other; `HallDistribution` takes an order as delivered and a completion as a report on its way, because the two
delivery modules have how they travel; `NodeProgram` has the requests as one Boolean, because `HallDistribution` has
what is computed from them.

**Abstract specifications.** Six modules say what a part promises to those who rely on it, without timers, wires, ids on
messages or handlers; the detailed module names the mapping beside the property that it implements the promise.

| Promise | Implemented by | Mapping |
|---|---|---|
| `SafeLift` | `SingleElevator` (`LiftSafety`) | position of the cab, door lamp, motor |
| `OrderChannel` | `HallAssignmentDelivery` (`ImplementsOrderChannel`) | under way to a slave: the ids on its wire and in `active` (`UnderWay`); accepted: what waits in its channel to the elevator (`orders`); unconfirmed: the slaves with an active assignment |
| `ReportChannel` | `HACompleteDelivery` (`ImplementsReportChannel`) | under way from a slave: its wire and its active completions; what the master remembers: the last `BufferSize - 1` it processed |
| `NodeRoles` | `NodeProgram` (`ImplementsNodeRoles`) | `mode`; the transmitters that are on (`Sends`); whether the report of a free door at start-up is yet to be acted on (`Fresh`) |
| `Mastership` | `Election` (`ImplementsMastership`) | `mode`; who hears whom (`Hearing`); whether the network has changed |
| `CallService` | `HallDistribution` (`ImplementsCallService`) | `requests` and the flag; the calls in any elevator's orders (`Ordered`) or in a report (`Reported`); `dropped` |

A resend, a duplicate, a timer, a request heard or a step within a handler is a stutter of the promise. The promises are what the modules
rely on of each other: `HallDistribution` takes an order as delivered and a served call as a report because of the two
channels, `Election` lets a node change its mode in one step, out of one mode and into the next, because of `NodeRoles`.
Each promise ends with what follows from it (`SafeDoors`, `ConfirmedIsLast`, `TakenOnce`, `SendsItsOwn`, `MastersApart`, `NoneForgotten`), proved from the promise
alone: so much can be relied on without a look at the detailed module.

**How code becomes TLA+.**

* A `[NUM_FLOORS][3]bool` matrix is the set of its true entries, a call being `<<floor, button>>`.
* `ElevatorProgram` takes a select case only with `Selecting`: nothing left of the last order
  (`todo`) and no event the node has not taken (`toNode`). The events of one case are sent in
  sequence; the model lets the node take them in any order.
* `OnRequestButtonPress` is the pure `HandleButtonEvent` and its application, as in the code,
  in one step: no other goroutine writes this state. An order is one step per call, in the code's loop order.
* The cab moves half a floor at a time and has nothing to stop it at the end floors: that it stays in the shaft is a
  property of the code. It is assumed to leave a sensor region only after the poller and the
  loop have dealt with reaching it (20 ms against seconds).
* `time.AfterFunc` is a counter of running timers per id; its goroutine's wait for the channel of two
  is the guard of `TimerFires`. In `HACompleteDelivery` timer and channel are one counter: what the
  channel does is already in `HallAssignmentDelivery`.
* `SlaveProgram` acks an assignment (`slave.go:83`) and then sends it to the elevator on a channel of three (`slave.go:87`).
  `ReceiveHallAssignment` puts the order in `orders`, where it waits until `ElevatorTakesOrder`; the ack may settle it long before. One
  update more than the channel has room for is a send that blocks: `Selecting` is false, and the slave takes nothing from
  the network. If the elevator then sends to its node, the two wait for each other for ever (`ElevatorSends`, `deadlocked`).
* `broadcast` is what the master sends of its requests: all of them after a distribution, and none after an update without
  one, such as the answer to a connection request (`UpdateWithoutDistribution`, `master.go:174`), until its next event.
* Message ids are fresh numbers. The code draws 61 random bits; a collision, and an id that is 0
  and so equals the initial `lastHallAssignmentMessageID`, are left out.
* UDP broadcast is a wire per slave that loses messages and keeps the order of what arrives; a
  full wire drops, so the length is a bound and no assumption. That no order comes back needs this order: a slave remembers one id only.
* A handler of the node loop in `NodeProgram` is the sequence of channel operations it does after its case was taken;
  `todo = <<>>` is the `select`. A send on an unbuffered channel is a joint step with the receiver.
  Which way a handler goes when that depends on data (requests, rate limit) is left open.
* Time in `Election` goes in ticks of 500 ms, the period of connection requests; every timer of the election is a
  multiple of it (`DecisionTicks`, `ContactTicks`; the slave's is one tick). A tick happens when all that takes
  milliseconds is done (`AllPromptDone`); between two ticks it happens in any order. TOLC is kept by rank: `ShouldBeMaster`
  only compares, and no two nodes take the time at once. A request is remembered as the sender and
  whether it forbids to be master, decided with the TOLCs at its sending as in the code; the receiver's own cannot change while it is
  Disconnected. A network is cut in two sides at most.
* A node that is `Inactive` in `Election` is a process that is down or a node with a stuck door: neither is heard,
  and from the latter no node returns (`InactiveIsFinal`), so what starts is always a new process.
* `HallDistribution` is one reign that starts with no call lit. A master that enters with requests asks for the states
  and commands again before it reads them, which is the deadlock of `node_server_deadlock`. `dropped` collects the
  calls that the code itself lets fall (below), so that `CallsCovered` says that there are no others.
* `CabBackup` has one master that stays, since every node keeps its own copy of the states it has heard and
  the same argument holds for each.
* Variables marked *history* in the modules exist for properties only.
* Definitions whose comment begins "A faulty variant" are not part of the model. They are the
  mistakes the properties are tested against (`mutants` in `PROJECT.json`).

## 3. The runs

| Run | Instance | Checks and what it shows |
|---|---|---|
| `single_elevator` | 3 floors; orders for an end floor, the middle floor, none; both end cab orders; two light states; all cab buttons and a hall button | One elevator under every interleaving of inputs, timers and a slow node: end floors (`CabInShaft`), doors (`DoorsOnlyAtFloor`), no stranded work (`NeverParksWithWork`), lamps (`LampsTruthful`), honest completions (`CompletionIsService`), no lost call (`CallsLeaveServed`), the inductive invariant (`Consistent`), refinement of `SafeLift` (`LiftSafety`); every cab call is served (`CabCallsServed`), whatever orders turn the cab on the way, as long as doors get to shut (`DoorGetsToShut`) |
| `assignment` | 1 slave, 1 call, 2 assignments, wires of 1, a timeout channel of 1, an elevator channel of 1 | Resends neither stop nor multiply (`OneResendAhead`), the last assignment is the one pressed (`OnlyLatestActive`), what has been acknowledged is the last order the slave accepted (`AcknowledgedIsAccepted`), all of it together is a channel of orders (`ImplementsOrderChannel`: none comes back once a newer one is in force, the one wanted stays under way until it is confirmed, and a slave confirms the last it has accepted), each assignment gets into force and its resending ends (`AssignmentsSettle`) unless it is replaced, holds a call that was completed, or is refused because the broadcast is empty, or slave and elevator block each other; with masters that come and go, slaves that start over, and orders that wait for a slow elevator |
| `complete` | 1 slave, 1 call, ring of 2, 2 completions, wires of 2 | The ring holds the last `BufferSize - 1` ids through every turn (`RemembersRecent`), no completion is forgotten (`NothingForgotten`), each has its resend due (`ResendDue`), all of it together is a channel that takes each report once (`ImplementsReportChannel`: a call goes out only on a report made and not taken before, and a report is repeated until it was); once a master stays, each completion is settled (`CompletionsSettle`) |
| `node` | buffer of 1, 1 peer | The transmitters on are those of the mode whenever the node listens (`TransmittersFollowMode`), and the goroutines together keep to the roles of `NodeRoles` at every point of every handler (`ImplementsNodeRoles`: a mode is left and entered in silence and only for one that may follow, Inactive is never left a second time), what the server or the elevator sends is taken (`SendersAreHeard`) and each handler ends (`HandlersEnd`) unless two goroutines wait for each other |
| `election` | 3 nodes, the code's timers, one fault: a node that stops, or a network that is cut or healed; started whole or cut | No two masters hear each other while the network stays as it is (`AtMostOneMaster`), the latest contact is elected (`LatestContactElected`), timers, requests and answers bring about nothing but what `Mastership` allows (`ImplementsMastership`), a master emerges (`ElectionSettles`) and every newcomer joins it (`NewcomersJoin`). `ElectionSettles` names the two ways in which the code may fail to get one: stale requests and slaves that never heard their master |
| `distribution` | a master, 2 slaves (one with id 0), 2 calls | A lit call is to be distributed, ordered, reported served, or one of those the code lets fall (`CallsCovered`), though calls, completions, connection requests and peers come between question and answer; master, server and slaves together serve the calls as `CallService` promises (`ImplementsCallService`: a call is put out only by the completion of an elevator that had it ordered); what waits is distributed while the master's own elevator has events (`BusyMasterDistributes`) |
| `cab_backup` | 2 nodes, 1 cab call each | Through any number of crashes, what the backup owes an elevator is in the master's copy, and a slave by the answer to its own request has it (`BackupKept`), except in the two windows the code has: a first state that comes before the cab order is taken, and a node that took the answer to another for its own. What is owed to a running elevator gets to it (`OwedCallsReturn`), though requests and answers get lost |

Deadlock is checked in all of them; no configuration switches it off.

**Bounds.** Three floors are the smallest shaft with a middle floor, where a direction can be kept,
reversed and withdrawn; with four nothing new distinguishes the code's tests (above, below, here).
The delivery modules treat each slave's messages by themselves (the transmitter's map and the wire are per slave),
and the theorems of section 4 hold for any number of slaves and messages. Two ids are the assignment in force or under
way and the one that replaces it; a timeout channel of one (`TimeoutCapacity`, two in the code) fills with them, and a wire of one drops the second.
With wires of two the safety properties and the refinement of `assignment` were checked once as well. An elevator channel of one (`UpdateCapacity`, three
in the code) fills with one order or light update; a second one blocks the slave. A ring of two has a slot that is overwritten and one that is
never used, as the ring of five has; two completions turn it. `MaxMessages` bounds ids and `WireCapacity`
wires in the guards. `node` has a buffer of one (three in the code) so that it fills within a handler; `MaxPeers` = 1 tells alone from
not alone, which is all the server compares. Three nodes are the fewest with two that elect and one that joins, leaves or is cut
off; `MaxFaults` bounds the faults, and its theorems have no bound. The slave with id 0 is there because a master without a state of its own
elevator uses that id (`OwnID`). One cab call is enough in `cab_backup`, for calls do not touch each other; two nodes are
needed for an answer that misleads. The reachable states with two calls were checked once as well.

**Fairness.** Goroutines that can go on do so (`WF`). Go's `select` takes a ready case at random,
so a case ready again and again is taken (`SF` on floor arrivals, the server's and elevator's sends, the elevator's updates).
Of the door timer nothing is assumed: every cab press or order at the open floor resets it (`elevator_fsm.go:40`, `elevator_fsm.go:68`), and an
obstruction may never end. That doors get to shut again and again is the premise of `CabCallsServed` (`DoorGetsToShut`), and that the timer
goes off at all is a premise of `StuckDoorReported`.
Messages: what is sent again and again arrives again and again (`SF` on deliveries, on broadcasts and acks), the assumption under which
any retry works. A slave that is stuck in a send to its elevator takes no message, and no fairness takes it out of a deadlock.
In `CabBackup` requests and answers are repeated until they are heard, and the elevator reads its channel; that crashes stop is no assumption:
`OwedCallsReturn` speaks of an elevator that keeps running. In `Election` time passes and a node does something of what it has to do; faults end by their bound. In
`HallDistribution` the node takes the update the server has for it and the interval of 100 ms passes; that the master's
elevator has events is no assumption but the premise of `BusyMasterDistributes`. New buttons, orders, mode changes and peers have no fairness: they may stop or go on for ever.

## 4. What is proved

All for every value of the constants, under the named assumptions: at least one floor
(`NumFloorsAssumption`), inputs that are calls of the building (`InputsAssumption`), bounds that are numbers and
wires that hold something (`DeliveryAssumption`, `CompleteAssumption`), a ring of at least two.

**One elevator** (`SingleElevatorProofs`). The safety properties of `single_elevator`
follow from `IInv == TypeOK /\ Consistent`. None of them is inductive alone: that the cab
stays in the shaft depends on where the poller last saw it and on what the state machine thinks,
so `Consistent` says that the motor follows the behaviour (`MotorFollowsState`), the door timer and lamp
the behaviour (`DoorFollowsState`), idle means no calls (`RestsWithoutWork`), and that the cab is on a leg
between two *existing* floors with the poller at a known point of it (`PositionKnown`). The argument: one lemma on
each pure operator (`ChooseDirection` drives only towards a floor that exists because it drives only
towards a call; `ButtonEvent`, `DoorTimeout`), one lemma per handler (`PressInv`, `ArrivalInv`, `DoorTimeoutInv`, `ApplyInv`,
`CabInv`, ...), `StepInv` and `Invariance` from these. The end floors come from `ArrivalInv`: an arrival either stops the
cab or there is a call further on, hence a floor. `CallsOnlyLeaveServed` is the action property; `ImplementsSafeLift`
shows each step to be a step of `SafeLift` or a stutter.

**Delivery of assignments** (`HallAssignmentProofs`). `ResendInv` adds to `OneResendAhead` that ids not drawn yet have no timer and
wait nowhere (`FreshIDs`). `OrderInv` adds to `OnlyLatestActive` and `AcknowledgedIsAccepted` that ids only grow along the whole way of
an order: what waits for the elevator is sorted, above what is in force (`ChannelOrdered`), the wire is sorted, between the last order accepted (`LastOrder`)
and the newest assignment (`WireOrdered`), and an ack on its way speaks of nothing newer than the last accepted (`AcksHonest`).
`NeverGoesBack` follows: the elevator takes the head of a sorted channel above what is in force (`TakeOrder`), and what joins that channel is the head
of a sorted wire above its last (`AcceptOrder`). `DeliversInOrder`, the refinement of `OrderChannel`, has a lemma per kind of step. `OnWireAppend`, `OnWireTail` and `OnWireTransmit` say what a
wire still carries after a send, a loss or a delivery; `KeepPending` says that a step which touches one slave's messages only keeps the
channel's promise for that slave. An assignment is an order given (`AssignChannel`), a resend none (`RetryChannel`: what it puts on the wire is under way
as long as it is active), the ack of the active assignment a confirmation because of `AcksHonest` (`AckChannel`), a message that leaves the wire is
accepted or lost, with nothing older behind it because of `WireOrdered` (`TakeOffChannel`), and an order takes effect when the elevator takes it out of its channel
(`TakesChannel`). `PromiseHoldsInForce` shows what the promise is worth: what is confirmed is the last order accepted, so none but it will be the last
in force, by the order of the numbers alone (`Numbered`). That the elevator ever takes it is liveness, and only true where slave and elevator do not
block each other (`AssignmentsSettle`). `TypeCorrect` includes that the channel of timed-out ids never exceeds its capacity.

**Delivery of completions** (`HACompleteProofs`). `RemembersRecent` is not inductive: `RingInv` says in which
slot each of the last `BufferSize - 1` ids is (`SlotOf`, counted back from `index` round the ring without its last slot).
`AddRing` is the heart: the new id takes the slot of the oldest, and the age of each other grows by one. `OnlyFreshClears`
follows, for what the ring contains is not recorded again. `SettledInv` adds to `NothingForgotten` that acks and ring
speak only of ids a master has processed. `ReportsOnce`, the refinement of `ReportChannel`, rests on these two: what an ack takes out of a transmitter
was processed (`AckChannel`, from `SettledInv`), and what the ring does not contain is not among the last that were (`TakeOffChannel`, from `RingInv`).
A resend is no step of the channel (`ResendChannel`). `PromiseTakesOnce` derives from
the promise that no report counts twice while it is remembered; `TakeOnce` is the step at which the master forgets its oldest. The inductive invariant for `ResendDue` (also named `ResendInv`) adds that ids are taken in turn
and those not taken have no resend due.

**One node** (`NodeProofs`). A handler in progress is the rest of a sequence of operations, so what is inductive is what may
be left of it: `Plan` says that the node is `Steady` (transmitters of the mode on, nothing left that switches them), at some
point of the entry of a mode, at some point of an exit, or between the two with all of them off. Each point is
one disjunct; `AdvancePlan`, `EnterModePlan` and `BeginsPlan` lead from each to the next, and `PlanFollows` reads `TransmittersFollowMode` off.
`InactiveAlwaysFinal`: a free door is reported first or never (`FreeDoorFirst`), and once it is gone
nothing in a handler leads out of Inactive (`Final`). `NodeKeepsRole`, the refinement of `NodeRoles`, adds that a handler holds no other mode
than those that may follow the present one (`OnRoute`), and that a node is Inactive for the first time or for good (`FreshOrFinal`). `EntersSilent` has the
change of mode with every transmitter off, `AdvanceImplements` that a step within a handler switches one transmitter or none, and none but the
mode's own on, in the middle of an entry or exit, too.

**Election** (`ElectionProofs`), for any finite number of nodes, any number of faults and any timers with at least two
requests before a decision (`ElectionAssumption`). `AtMostOneMaster` depends on who has heard whom. `HeardOrEarly`:
of two Disconnected nodes near each other each has the other's *last* request, judged as it would be now, unless one of them
began to wait less than a tick ago or the request of this tick is still to come. `MasterOutranksOrAsked`: a Disconnected node near a
master counts its request, or is so early in its wait that the master's answer will come first. So a node that decides (its timer
at zero) near a master has it as a rival and cannot become one, and one that becomes master has been heard by all
that are late in their wait. `RankedOrder` shows that ranks keep the order of times, `NewTime` that a stop or a new contact leaves
the order among the others alone, `OutranksTotal` that of two nodes one outranks the other. `LatestContactElected` follows from `HeardOrEarly`.
`MastersByElection`, the refinement of `Mastership`, uses the same invariant: that the node elected hears no master is `MasterOutranksOrAsked` at a timer of zero
(`ElectedAlone`), that an answer comes from a master is that requests wait at masters only. `PromiseKeepsApart` shows the promise to be worth having: by
itself it excludes two masters within each other's hearing.

**Distribution** (`HallDistributionProofs`), for any slaves and calls. `CallsCovered` is inductive with the types: one
lemma per kind of step (`PressCovers`, `CompletionCovers`, `ServiceCovers`, `DistributeCovers`, `AnswerCovers`, `RestCovers`). The
point is `DistributeCovers`: the flag may be cleared, for every call lit *at that time*, also those pressed after the question, is
given to somebody who is there or falls among the dropped. `ServesCalls`, the refinement of `CallService`, needs only the types: `PressServes`, `CompletionServes`,
`SlaveServesCall`, `DistributeServes`, `LossServes` and `RestServes` find the step of the promise for each kind of step, with `OrderedWithout` for an elevator that loses orders
another may hold as well. It says what `CallsCovered` does not, that a lit call goes out only when it was served: a master that forgot its requests would have all of them
covered. `PromiseForgetsNone` leads back from the promise to the cover.

**Cab backup** (`CabBackupProofs`), for any nodes and calls, and any number of crashes of each. `BackupKept` is inductive with the types; its two halves need each other:
the copy is complete when a cab order is made of it, and the table or the waiting order is complete when a state overwrites the copy.
`CrashKeepsOwn` accounts for what a crash takes, `StateKeepsOwn` for what a state overwrites, `AnswerKeeps` is where the backup becomes a cab order, `NodeKeepsOwn`
that no button or service afterwards takes it away.

Three properties are contained in a refinement that a run checks, and are proved by themselves as well: `NeverGoesBack`
(`AssignmentsOnlyGetNewer`, in `ImplementsOrderChannel`), `OnlyFreshClears` (`ResentClearsNothing`, in `ImplementsReportChannel`) and `InactiveIsFinal`
(`InactiveAlwaysFinal`, in `ImplementsNodeRoles`).

**Only model-checked.** Liveness, because the prover has no rule for fairness: `CabCallsServed`, `AssignmentsSettle`, `OwedCallsReturn`,
`CompletionsSettle`, `SendersAreHeard`, `HandlersEnd`, `ElectionSettles`, `NewcomersJoin`, `BusyMasterDistributes`; and the violations below.

## 5. What disagrees with the code's own words

Each run below checks one property that a comment, a document or the code's intent states,
and TLC finds it violated. `PROJECT.json` quotes the lines.

| Run | What happens |
|---|---|
| `elevator_stuck_report` | `doorStuckTimerActive` is never cleared: after the door has shut once, a door obstructed for good is never reported |
| `elevator_lost_report` | A hall call served by keeping the door open at its timeout is not reported complete |
| `node_server_deadlock` | A node with requests becomes master: it asks for states and commands again before reading them |
| `two_masters` | Two nodes that became master while the network changed hear each other and both go on: neither heeds the other's broadcasts, and each other's states keep them connected |
| `dark_lamps` | The answer to a connection request broadcasts empty hall requests, and withdraws the master's own orders, while calls are lit |

Others were seen while reading and modelling. Most of them are the reservations that the properties name:

* An assignment with a call completed meanwhile is refused by the slave and resent until it is replaced (`Outdated`).
* After the answer to a connection request the slaves hear that no call is lit (`master.go:174`), and refuse every assignment until the master has another
  event (`Blanked`).
* The node may fill the elevator's buffer of three while the elevator sends to the node (`ElevatorDeadlock`). An assignment may then be acknowledged and settled, and
  its order never taken: the ack goes out before the order (`slave.go:83`, `slave.go:87`; `deadlocked`).
* The server's peer poll is a timer that is started once per connection, though named a ticker (`receivers.go:88`): slaves that go later cause
  no new distribution (`PollPeers`), and their calls wait for the next one (`dropped`).
* A connection request is never forgotten: one of a node that is gone may keep another from becoming master in every later decision
  (`StaleRival`).
* A slave's timer for a silent master is started by the first broadcast (`slave.go:20`, `slave.go:97`). Slaves whose master is gone before that
  stay slaves as long as they hear each other (`NeverHeardMaster`).
* A call pressed within 100 ms of the last question sets a flag only; the next event of the master's own elevator or the next question
  for another reason must bring the distribution (`BusyMasterDistributes`).
* `CabRequestInfo` makes a slave of every Disconnected node that hears it (`disconnected.go:87`). A restarted node for which it was not meant
  gets no cab order; its state overwrites the master's copy, and its cab calls are lost (`misled`).
* A restarted slave may send its first state before its elevator has taken the cab order (`receivers.go:123`): the master's copy is
  overwritten, and a second crash before the order is taken and the next state sent loses the cab calls for good (`short`, `gone`).
* When the assigner fails, the flag is cleared as if it had not (`DistributeFails`).
* A call served by keeping the door open is never reported (`ServedUnreported`), so the master has it lit with nobody to serve it.
* The lamp of an open door: `DoorTimerEvent` switches it off (`elevator_fsm.go:150-153`) although the
  state machine goes on to keep the door open for a new call at the floor (`elevator_fsm.go:200`).
* `SlaveProgram` remembers the last message id in a local variable (`slave.go:15`), so a node that stops being a slave and
  becomes one again takes the same assignment twice (`slave.go:85`); it is the same order, and `NeverGoesBack` holds.
* The ring of completed ids has `bufferSize` slots (`master.go:16`) and writes one fewer (`master.go:29`): it holds four ids, not
  five. The properties state what it does hold.

## 6. What is not modelled

* `hall_request_assigner`: a binary. Any division of the requests is allowed.
* The TCP protocol of the elevator server, `bcast`'s encoding, `conn`, `localip`, `peers`,
  `util/timer` (unused), the manual tests and examples, the packet loss tool.
* Data races (`knownNodes` is sent by reference, `elev` is copied while written): what they tear
  only feeds the assigner, which is left open. That the Go runtime may stop a program that reads a map while it is written is a stop as
  in `Election` and `CabBackup`.
* Lamps and motor start from power-up; a restart of one process with the door lamp on is not modelled (`InitFSM` does not
  switch it off).
* Collisions of random message ids; reordering by UDP.
* Lost connection requests in `Election`: a node sends one every half second, and the network is whole or cut.
  Two nodes that lose three requests of each other in a row are, for that decision, as if cut off.
* Several masters at once in `HallDistribution` and `CabBackup`: which of them the slaves follow is
  not determined by the code, and `two_masters` shows that they stay.
* What the prover cannot do: liveness under fairness, `ENABLED`, induction over data, recursive operators. The
  modules have no recursive operator.

## 7. Plan

Done: all modules of section 2 with their proofs. What could still be added, in this order:

1. `CallService` implemented by `OrderChannel`, `ReportChannel` and `HallDistribution` together: orders and reports that travel, in place of
   orders taken as delivered. The promises of the two channels are what this composition would build on.
2. `Election` with requests that are lost one by one, and the theorem restated with the number of losses it tolerates.
3. A reign that starts with requests taken over from the broadcasts of the previous master.
