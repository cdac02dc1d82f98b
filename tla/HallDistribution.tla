-------------------------- MODULE HallDistribution --------------------------
(***************************************************************************)
(* What a master does with the hall calls: MasterProgram from the button   *)
(* to the assignment, with ComputeHallAssignments and the answers of       *)
(* NodeElevStateServer, while slaves come and go.                          *)
(*                                                                         *)
(* One reign, from its start with no call lit.  A command to the server is *)
(* a joint step with it; that the two may block each other is the business *)
(* of NodeProgram.  An order given out is taken as delivered: how it and   *)
(* the completions travel is in HallAssignmentDelivery and                 *)
(* HACompleteDelivery.                                                     *)
(***************************************************************************)
EXTENDS Integers

CONSTANTS Master,     \* node.ID of the master
          Slaves,     \* ids of the other nodes
          HallCalls   \* the hall buttons of the building

ASSUME DistributionAssumption == Slaves \subseteq Nat /\ Master \in Nat \ Slaves

VARIABLES
  requests,   \* node.GlobalHallRequests
  should,     \* shouldDistributeHallRequests
  recent,     \* less than STATE_REQUEST_INTERVAL since lastStateRequest
  ownState,   \* myElevState holds a state of the own elevator
  broadcast,  \* what GlobalHallRequestsTransmitter sends
  answer,     \* the update the server has for the node: of "active" or "all" nodes, or "none"
  seen,       \* the nodes in it, if of active nodes
  polled,     \* peerTimeoutTicker has gone off
  active,     \* slaves the server counts as active
  present,    \* slaves that are there
  share,      \* hall orders in force at each elevator
  reports,    \* completions on their way, with their senders
  dropped     \* history: lit calls whose order has been withdrawn, lost or never made

serverVars == <<answer, seen, polled>>
slaveVars  == <<active, present>>
vars == <<requests, should, recent, ownState, broadcast, serverVars, slaveVars, share, reports, dropped>>

Nodes   == {Master} \cup Slaves
Answers == {"none", "active", "all"}

Init ==
  /\ requests = {} /\ broadcast = {} /\ dropped = {} /\ reports = {}
  /\ should = FALSE /\ recent = FALSE /\ ownState = FALSE
  /\ answer = "none" /\ seen = {} /\ polled = FALSE
  /\ present \in SUBSET Slaves /\ active \in SUBSET Slaves
  /\ share = [n \in Nodes |-> {}]

-----------------------------------------------------------------------------
(* Calls and completions.                                                  *)

\* A faulty variant: the server counts the states of its own elevator, too.
Ask_WithOwn(kind) ==
  /\ answer = "none"
  /\ answer' = kind
  /\ seen' = IF kind = "active" THEN active \cup {Master} ELSE {}

\* node.commandToServerTx: the server takes the command in its select only.
Ask(kind) ==
  /\ answer = "none"
  /\ answer' = kind
  /\ seen' = IF kind = "active" THEN active ELSE {}

\* A faulty variant: the states of all nodes are asked for.
AskWhenDue_All(due) ==
  /\ should' = due
  /\ IF due /\ ~recent THEN Ask("all") /\ recent' = TRUE
                       ELSE UNCHANGED <<recent, answer, seen>>

\* The states are asked for at once, or by an event after the interval.
AskWhenDue(due) ==
  /\ should' = due
  /\ IF due /\ ~recent THEN Ask("active") /\ recent' = TRUE
                       ELSE UNCHANGED <<recent, answer, seen>>

SetRequests(calls) == requests' = calls /\ broadcast' = calls

\* A hall button at the own elevator.
HallButton(c) ==
  /\ SetRequests(requests \cup {c})
  /\ AskWhenDue(TRUE)
  /\ UNCHANGED <<ownState, polled, slaveVars, share, reports, dropped>>

\* The own elevator has served a call.
LocalHallAssignmentComplete(c) ==
  /\ c \in share[Master]
  /\ share' = [share EXCEPT ![Master] = @ \ {c}]
  /\ SetRequests(requests \ {c})
  /\ dropped' = dropped \ {c}
  /\ AskWhenDue(should)
  /\ UNCHANGED <<ownState, polled, slaveVars, reports>>

\* A NewHallRequest of a slave.  It is sent once: a lost one has no effect.
NewHallRequest(s, c) ==
  /\ s \in present
  /\ SetRequests(requests \cup {c})
  /\ AskWhenDue(TRUE)
  /\ UNCHANGED <<ownState, polled, slaveVars, share, reports, dropped>>

\* A slave's elevator has served a call and reports it.
SlaveServes(s, c) ==
  /\ s \in present /\ c \in share[s]
  /\ share' = [share EXCEPT ![s] = @ \ {c}]
  /\ reports' = reports \cup {<<s, c>>}
  /\ UNCHANGED <<requests, should, recent, ownState, broadcast, serverVars, slaveVars, dropped>>

\* HandleDoorTimeout clears a call without telling.
ServedUnreported(n, c) ==
  /\ n \in present \cup {Master} /\ c \in share[n]
  /\ share' = [share EXCEPT ![n] = @ \ {c}]
  /\ dropped' = dropped \cup ({c} \cap requests)
  /\ UNCHANGED <<requests, should, recent, ownState, broadcast, serverVars, slaveVars, reports>>

ReceiveHallAssignmentComplete(s, c) ==
  /\ <<s, c>> \in reports
  /\ reports' = reports \ {<<s, c>>}
  /\ SetRequests(requests \ {c})
  /\ dropped' = dropped \ {c}
  /\ UNCHANGED <<should, recent, ownState, serverVars, slaveVars, share>>

-----------------------------------------------------------------------------
(* The distribution.                                                       *)

\* Until the own elevator has sent its state, myElevState has the NodeID 0.
OwnID == IF ownState THEN Master ELSE 0

Distributing == answer = "active" /\ should

\* Each call goes to one of the elevators the assigner was given.  A slave with
\* the OwnID gets nothing: its state was overwritten and its part is the master's.
Distribute ==
  /\ Distributing
  /\ \E to \in [requests -> seen \cup {OwnID}] :
       LET Part(id) == {c \in requests : to[c] = id} IN
       /\ share' = [n \in Nodes |-> CASE n = Master         -> Part(OwnID)
                                      [] n \in seen \ {OwnID} -> IF n \in present THEN Part(n) ELSE {}
                                      [] OTHER              -> share[n]]
       /\ dropped' = UNION {Part(n) : n \in (seen \ {OwnID}) \ present}
  /\ broadcast' = requests
  /\ should' = FALSE /\ answer' = "none" /\ seen' = {}
  /\ UNCHANGED <<requests, recent, ownState, polled, slaveVars, reports>>

\* The assigner fails: no order is made, and the empty MyAssignment is sent.
DistributeFails ==
  /\ Distributing
  /\ share' = [share EXCEPT ![Master] = {}]
  /\ dropped' = requests
  /\ broadcast' = requests
  /\ should' = FALSE /\ answer' = "none" /\ seen' = {}
  /\ UNCHANGED <<requests, recent, ownState, polled, slaveVars, reports>>

\* A faulty variant: the flag is reset whatever the update was for.
AnswerOnly_ResetsFlag ==
  /\ answer # "none" /\ ~Distributing
  /\ share' = [share EXCEPT ![Master] = {}]
  /\ dropped' = dropped \cup (share[Master] \cap requests)
  /\ broadcast' = {}
  /\ should' = FALSE /\ answer' = "none" /\ seen' = {}
  /\ UNCHANGED <<requests, recent, ownState, polled, slaveVars, reports>>

\* A faulty variant: the zero values of the answer overwrite the node's own requests.
AnswerOnly_ClearsRequests ==
  /\ answer # "none" /\ ~Distributing
  /\ share' = [share EXCEPT ![Master] = {}]
  /\ dropped' = {}
  /\ SetRequests({})
  /\ answer' = "none" /\ seen' = {}
  /\ UNCHANGED <<should, recent, ownState, polled, slaveVars, reports>>

\* An update with nothing to distribute, after a connection request for one: the
\* zero values of MyAssignment and GlobalHallRequest are sent all the same.
AnswerOnly ==
  /\ answer # "none" /\ ~Distributing
  /\ share' = [share EXCEPT ![Master] = {}]
  /\ dropped' = dropped \cup (share[Master] \cap requests)
  /\ broadcast' = {}
  /\ answer' = "none" /\ seen' = {}
  /\ UNCHANGED <<requests, should, recent, ownState, polled, slaveVars, reports>>

-----------------------------------------------------------------------------
(* Slaves and the server.                                                  *)

\* A ConnectionReq: the states of all known nodes are asked for.
ReceiveConnectionReq ==
  /\ Ask("all")
  /\ UNCHANGED <<requests, should, recent, ownState, broadcast, polled, slaveVars, share, reports, dropped>>

\* The server compares the number of active nodes, once, and the node asks for them.
PollPeers ==
  /\ ~polled /\ polled' = TRUE
  /\ IF active # {} THEN Ask("active") /\ should' = TRUE
                    ELSE answer = "none" /\ UNCHANGED <<answer, seen, should>>
  /\ UNCHANGED <<requests, recent, ownState, broadcast, slaveVars, share, reports, dropped>>

ReceiveOwnState ==
  /\ ~ownState /\ ownState' = TRUE
  /\ UNCHANGED <<requests, should, recent, broadcast, serverVars, slaveVars, share, reports, dropped>>

IntervalPasses ==
  /\ recent /\ recent' = FALSE
  /\ UNCHANGED <<requests, should, ownState, broadcast, serverVars, slaveVars, share, reports, dropped>>

SlaveComes(s) ==
  /\ s \notin present
  /\ present' = present \cup {s} /\ active' = active \cup {s}
  /\ UNCHANGED <<requests, should, recent, ownState, broadcast, serverVars, share, reports, dropped>>

\* Its orders and its completions on the way are gone for this master.
SlaveGoes(s) ==
  /\ s \in present
  /\ present' = present \ {s}
  /\ share' = [share EXCEPT ![s] = {}]
  /\ reports' = {r \in reports : r[1] # s}
  /\ dropped' = dropped \cup ({c \in HallCalls : c \in share[s] \/ <<s, c>> \in reports} \cap requests)
  /\ UNCHANGED <<requests, should, recent, ownState, broadcast, serverVars, active>>

\* NODE_CONNECTION_TIMEOUT after its last state.
SlaveExpires(s) ==
  /\ s \in active \ present
  /\ active' = active \ {s}
  /\ UNCHANGED <<requests, should, recent, ownState, broadcast, serverVars, present, share, reports, dropped>>

ElevatorEvent == \E c \in HallCalls : HallButton(c) \/ LocalHallAssignmentComplete(c)
TakeUpdate == Distribute \/ DistributeFails \/ AnswerOnly

Next ==
  \/ ElevatorEvent
  \/ \E s \in Slaves, c \in HallCalls :
       NewHallRequest(s, c) \/ SlaveServes(s, c) \/ ReceiveHallAssignmentComplete(s, c)
  \/ \E n \in Nodes, c \in HallCalls : ServedUnreported(n, c)
  \/ TakeUpdate
  \/ ReceiveConnectionReq \/ PollPeers \/ ReceiveOwnState \/ IntervalPasses
  \/ \E s \in Slaves : SlaveComes(s) \/ SlaveGoes(s) \/ SlaveExpires(s)

Spec == Init /\ [][Next]_vars

\* The node takes the update the server sends, and time passes.
FairSpec == Spec /\ WF_vars(TakeUpdate) /\ WF_vars(IntervalPasses)

-----------------------------------------------------------------------------
(* Properties.                                                             *)

\* Every variable keeps its type; the server counts slaves only as active.
TypeOK ==
  /\ requests \subseteq HallCalls /\ broadcast \subseteq HallCalls /\ dropped \subseteq HallCalls
  /\ should \in BOOLEAN /\ recent \in BOOLEAN /\ ownState \in BOOLEAN /\ polled \in BOOLEAN
  /\ answer \in Answers /\ seen \subseteq Slaves
  /\ present \subseteq Slaves /\ active \subseteq Slaves
  /\ share \in [Nodes -> SUBSET HallCalls]
  /\ reports \subseteq Slaves \X HallCalls

\* A lit call is in somebody's hands: it is to be distributed, it is in the orders of an
\* elevator, its completion is on the way, or it is one of the calls the code lets fall
\* (dropped).  A call pressed between the question for the states and its answer, or within
\* the interval, is none of these last.
CallsCovered ==
  \A c \in requests :
    \/ should
    \/ \E n \in present \cup {Master} : c \in share[n]
    \/ \E s \in present : <<s, c>> \in reports
    \/ c \in dropped

Ordered  == UNION {share[n] : n \in Nodes}
Reported == {r[2] : r \in reports}

Service == INSTANCE CallService WITH Calls <- HallCalls, lit <- requests, due <- should,
                                     held <- Ordered, told <- Reported, fallen <- dropped

\* Master, server and slaves together serve the hall calls: whatever comes between question
\* and answer, a call is put out only by the completion of an elevator that had it ordered, and
\* nothing but a distribution settles what is waiting for one.
ImplementsCallService == Service!ServiceSpec

\* What waits for a distribution gets one, as long as the master's own elevator goes on
\* having events after the interval: nothing else makes up for the rate limit.
BusyMasterDistributes ==
  []<><<ElevatorEvent /\ ~recent>>_vars => (should ~> ~should)

\* "send the global hall requests to the server for broadcast to update other nodes"
\* (master.go:172): what the slaves are told is what the master has.
BroadcastIsCurrent == broadcast = requests
=============================================================================
