------------------------- MODULE HACompleteDelivery -------------------------
(***************************************************************************)
(* How completed hall calls get from the slaves to the master: the         *)
(* retrying HallAssignmentCompleteTransmitter (messagehandler/             *)
(* transmitters.go), UDP, and ProcessHAComplete with its MessageIDBuffer   *)
(* (node/master.go), which keeps a resent completion from clearing a call  *)
(* that was pressed again.                                                 *)
(*                                                                         *)
(* A timer that runs and an id that waits in timeoutChannel are one: a     *)
(* resend that is due some time (resends).  Ids are fresh and numbered.    *)
(***************************************************************************)
EXTENDS Integers, Sequences

CONSTANTS Slaves, HallCalls,
          BufferSize,    \* bufferSize: 5 in the code
          MaxMessages,   \* bound: completions sent
          WireCapacity   \* bound: messages on the way from one slave; UDP drops the rest

ASSUME CompleteAssumption == /\ BufferSize \in Nat /\ BufferSize >= 2
                             /\ MaxMessages \in Nat /\ WireCapacity \in Nat \ {0}

VARIABLES
  enable, active,  \* each slave's transmitter: enabled?, completedActiveAssignments
  resends,         \* resends due for each id
  nextID,          \* the next fresh id
  sent,            \* history: ids each slave sent since its transmitter was enabled
  wire, acks,      \* the network: completions under way from each slave; ids acknowledged
  master,          \* is there a master?
  requests,        \* its GlobalHallRequests
  buffer, index,   \* its recentHACompleteBuffer: messageIDs, index
  processed,       \* history: the last BufferSize ids this master has processed as new
  settled          \* history: ids any master has processed

slaveVars  == <<enable, active, resends, nextID, sent>>
masterVars == <<master, requests, buffer, index, processed, settled>>
vars       == <<slaveVars, wire, acks, masterVars>>

IDs     == 1 .. MaxMessages
NoID    == 0
Message == [call : HallCalls, MessageID : IDs]
Slots   == 0 .. BufferSize - 1

Transmit(s, m) == wire' = [wire EXCEPT ![s] = IF Len(@) < WireCapacity THEN Append(@, m) ELSE @]

-----------------------------------------------------------------------------
(* MessageIDBuffer.                                                        *)

\* A faulty variant for mutation checks: starts over one slot too late.
AddSlot_Late == IF index = BufferSize THEN 0 ELSE index

\* The slot the next id goes to.
AddSlot == IF index = BufferSize - 1 THEN 0 ELSE index

Add(id) == buffer' = [buffer EXCEPT ![AddSlot] = id] /\ index' = AddSlot + 1

\* A faulty variant: the search starts at the second slot.
Contains_SkipsFirst(id) == \E i \in Slots \ {0} : buffer[i] = id

Contains(id) == \E i \in Slots : buffer[i] = id

-----------------------------------------------------------------------------
(* A slave.                                                                *)

\* SlaveProgram enables the transmitter on entry and disables it on exit.
EnableTransmitter(s, on) ==
  /\ enable[s] # on
  /\ enable' = [enable EXCEPT ![s] = on]
  /\ active' = IF on THEN active ELSE [active EXCEPT ![s] = {}]
  /\ sent' = [sent EXCEPT ![s] = {}]
  /\ UNCHANGED <<resends, nextID, wire, acks, masterVars>>

\* The elevator has served a hall call.
HallAssignmentComplete(s, call) ==
  /\ enable[s] /\ nextID \in IDs
  /\ LET m == [call |-> call, MessageID |-> nextID] IN
     /\ active' = [active EXCEPT ![s] = @ \cup {m}]
     /\ Transmit(s, m)
  /\ sent' = [sent EXCEPT ![s] = @ \cup {nextID}]
  /\ resends' = [resends EXCEPT ![nextID] = @ + 1]
  /\ nextID' = nextID + 1
  /\ UNCHANGED <<enable, acks, masterVars>>

\* A faulty variant: resends without starting the timer again.
Resend_Once(s, id) ==
  /\ resends[id] > 0
  /\ resends' = [resends EXCEPT ![id] = @ - 1]
  /\ \/ \E m \in active[s] : m.MessageID = id /\ Transmit(s, m)
     \/ (\A m \in active[s] : m.MessageID # id) /\ UNCHANGED wire
  /\ UNCHANGED <<enable, active, nextID, sent, acks, masterVars>>

\* A resend that is due: what is still active is sent, and its timer starts again.
Resend(s, id) ==
  /\ resends[id] > 0
  /\ \/ /\ \E m \in active[s] : m.MessageID = id /\ Transmit(s, m)
        /\ UNCHANGED resends
     \/ /\ \A t \in Slaves : \A m \in active[t] : m.MessageID # id
        /\ resends' = [resends EXCEPT ![id] = @ - 1]
        /\ UNCHANGED wire
  /\ UNCHANGED <<enable, active, nextID, sent, acks, masterVars>>

\* A faulty variant: an ack settles everything that is active.
ReceiveAck_All(s, id) ==
  /\ id \in acks /\ acks' = acks \ {id}
  /\ active' = [active EXCEPT ![s] = {}]
  /\ UNCHANGED <<enable, resends, nextID, sent, wire, masterVars>>

ReceiveAck(s, id) ==
  /\ id \in acks /\ acks' = acks \ {id}
  /\ active' = [active EXCEPT ![s] = {m \in @ : m.MessageID # id}]
  /\ UNCHANGED <<enable, resends, nextID, sent, wire, masterVars>>

-----------------------------------------------------------------------------
(* The network and the master.                                             *)

TakeOff(s) == wire[s] # <<>> /\ wire' = [wire EXCEPT ![s] = Tail(@)]

LoseMessage(s) == TakeOff(s) /\ UNCHANGED <<slaveVars, acks, masterVars>>

LoseAck(id) == id \in acks /\ acks' = acks \ {id} /\ UNCHANGED <<slaveVars, wire, masterVars>>

\* History: the window of processed moves on.
Record(id) == processed' = IF Len(processed) < BufferSize THEN Append(processed, id)
                                                        ELSE Append(Tail(processed), id)

\* A faulty variant: only a new completion is acknowledged.
ProcessHAComplete_AckNew(m) ==
  /\ \/ /\ ~Contains(m.MessageID)
        /\ requests' = requests \ {m.call}
        /\ Add(m.MessageID)
        /\ Record(m.MessageID)
        /\ settled' = settled \cup {m.MessageID}
        /\ acks' = acks \cup {m.MessageID}
     \/ Contains(m.MessageID) /\ UNCHANGED <<requests, buffer, index, processed, settled, acks>>
  /\ UNCHANGED master

\* A new completion clears the call; every completion is acknowledged.
ProcessHAComplete(m) ==
  /\ \/ /\ ~Contains(m.MessageID)
        /\ requests' = requests \ {m.call}
        /\ Add(m.MessageID)
        /\ Record(m.MessageID)
        /\ settled' = settled \cup {m.MessageID}
     \/ Contains(m.MessageID) /\ UNCHANGED <<requests, buffer, index, processed, settled>>
  /\ acks' = acks \cup {m.MessageID}
  /\ UNCHANGED master

ReceiveHallAssignmentComplete(s) ==
  /\ master /\ TakeOff(s)
  /\ ProcessHAComplete(Head(wire[s]))
  /\ UNCHANGED slaveVars

\* A call is pressed.
NewHallRequest(call) ==
  /\ master
  /\ requests' = requests \cup {call}
  /\ UNCHANGED <<slaveVars, wire, acks, master, buffer, index, processed, settled>>

\* A node becomes master, with an empty buffer; the master leaves.
StartMaster ==
  /\ ~master /\ master' = TRUE
  /\ buffer' = [i \in Slots |-> NoID] /\ index' = 0 /\ processed' = <<>>
  /\ UNCHANGED <<slaveVars, wire, acks, requests, settled>>

MasterLeaves == master /\ master' = FALSE
                /\ UNCHANGED <<slaveVars, wire, acks, requests, buffer, index, processed, settled>>

-----------------------------------------------------------------------------
Init ==
  /\ enable = [s \in Slaves |-> FALSE] /\ active = [s \in Slaves |-> {}]
  /\ resends = [id \in IDs |-> 0] /\ nextID = 1 /\ sent = [s \in Slaves |-> {}]
  /\ wire = [s \in Slaves |-> <<>>] /\ acks = {}
  /\ master = FALSE /\ requests = {}
  /\ buffer = [i \in Slots |-> NoID] /\ index = 0 /\ processed = <<>> /\ settled = {}

Next ==
  \/ \E s \in Slaves : \/ \E on \in BOOLEAN : EnableTransmitter(s, on)
                       \/ \E call \in HallCalls : HallAssignmentComplete(s, call)
                       \/ \E id \in IDs : Resend(s, id) \/ ReceiveAck(s, id)
                       \/ LoseMessage(s) \/ ReceiveHallAssignmentComplete(s)
  \/ \E id \in IDs : LoseAck(id)
  \/ \E call \in HallCalls : NewHallRequest(call)
  \/ StartMaster \/ MasterLeaves

Spec == Init /\ [][Next]_vars

\* Timers go off and the network loses no message for ever: what is sent again and again gets
\* through again and again.
Fairness ==
  \A s \in Slaves, id \in IDs :
     /\ WF_vars(Resend(s, id)) /\ SF_vars(ReceiveAck(s, id))
     /\ SF_vars(ReceiveHallAssignmentComplete(s) /\ Head(wire[s]).MessageID = id)

FairSpec == Spec /\ Fairness

-----------------------------------------------------------------------------
(* Properties.                                                             *)

TypeOK ==
  /\ enable \in [Slaves -> BOOLEAN] /\ active \in [Slaves -> SUBSET Message]
  /\ resends \in [IDs -> Nat] /\ nextID \in 1 .. MaxMessages + 1
  /\ sent \in [Slaves -> SUBSET IDs]
  /\ wire \in [Slaves -> Seq(Message)] /\ acks \subseteq IDs
  /\ master \in BOOLEAN /\ requests \subseteq HallCalls
  /\ buffer \in [Slots -> IDs \cup {NoID}] /\ index \in Slots
  /\ processed \in Seq(IDs) /\ Len(processed) <= BufferSize /\ settled \subseteq IDs

\* Through every turn of the ring, the buffer holds the last BufferSize - 1 ids.  (Add never
\* writes the last slot: BufferSize of them, as node/master.go:16 says, are not held.)
RemembersRecent ==
  \A i \in DOMAIN processed : Len(processed) - (BufferSize - 1) < i => Contains(processed[i])

\* A resent completion does not clear a call pressed since, unless BufferSize - 1 other
\* completions came in between.
OnlyFreshClears ==
  [][\A i \in DOMAIN processed : Len(processed) - (BufferSize - 1) < i
        => ~(processed' # processed /\ processed' # <<>>
             /\ processed'[Len(processed')] = processed[i])]_vars

\* The completions of s that may still arrive: on the wire, or to be resent.
UnderWay(s) == {wire[s][i] : i \in DOMAIN wire[s]} \cup active[s]
Pending     == [s \in Slaves |-> UnderWay(s)]
OnDuty      == {s \in Slaves : enable[s]}

Reports == INSTANCE ReportChannel WITH Memory <- BufferSize - 1, onDuty <- OnDuty, made <- nextID - 1,
              outstanding <- active, underWay <- Pending, log <- processed

\* Transmitters, timers, network and the master's ring together are a channel that takes every
\* report once: resends and duplicates are no steps of it, a call goes out only on a report not
\* taken before, and a report leaves its transmitter only after it was taken or with the slave's mode.
ImplementsReportChannel == Reports!ReportSpec

\* A completion leaves the transmitter only after a master has processed it, or with the slave's
\* mode: the master cannot miss that a call was served.
NothingForgotten ==
  \A s \in Slaves : \A id \in sent[s] : id \in settled \/ \E m \in active[s] : m.MessageID = id

\* What is active is resent, once per timeout.
ResendDue == \A s \in Slaves : \A m \in active[s] : resends[m.MessageID] = 1

\* Once a master stays, every completion is settled, through lost messages and lost acks.
CompletionsSettle ==
  <>[]master => \A s \in Slaves, id \in IDs : (\E m \in active[s] : m.MessageID = id)
                                             ~> ~(\E m \in active[s] : m.MessageID = id)
=============================================================================
