----------------------------- MODULE CabBackup -----------------------------
(***************************************************************************)
(* The cab calls of elevators that crash and restart: the states a         *)
(* master's NodeElevStateServer keeps of nodes that are gone, and the      *)
(* CabRequestInfo with which it answers a connection request.              *)
(*                                                                         *)
(* One master that stays, and no other (Election).  Messages get lost.  A  *)
(* request is answered before the next is asked about: the command for the *)
(* next one would block (NodeProgram).                                     *)
(***************************************************************************)
EXTENDS Integers

CONSTANTS Others,    \* ids of the other nodes
          CabCalls,  \* the cab buttons of an elevator
          NoNode     \* none of them

ASSUME BackupAssumption == NoNode \notin Others

VARIABLES
  mode,        \* node.State: of interest are Inactive, for a process that is down, Disconnected, Slave
  fresh,       \* nodes whose TOLC is zero
  cabs,        \* the cab calls in each elevator's table
  orders,      \* those of a cab order the elevator has not taken yet
  knownNodes,  \* the cab calls in the last state the master has of each node
  asked,       \* the node in activeConnReq, or NoNode
  lost,        \* history: calls the master knew when a process ended, not served since
  gone,        \* history: those of them that ended with a process in the window of short
  short,       \* history: nodes whose last state left out calls that were to come back
  misled       \* history: nodes whose process became Slave by the answer to another

history == <<lost, gone, short, misled>>
vars    == <<mode, fresh, cabs, orders, knownNodes, asked, history>>

Modes == {"Inactive", "Disconnected", "Slave"}
In(m) == {n \in Others : mode[n] = m}

Init ==
  /\ mode = [n \in Others |-> "Inactive"]
  /\ fresh = Others
  /\ cabs = [n \in Others |-> {}] /\ orders = [n \in Others |-> {}]
  /\ knownNodes = [n \in Others |-> {}]
  /\ asked = NoNode
  /\ lost = [n \in Others |-> {}] /\ gone = [n \in Others |-> {}]
  /\ short = {} /\ misled = {}

-----------------------------------------------------------------------------
(* The elevator and its process.                                           *)

Start(n) ==
  /\ mode[n] = "Inactive"
  /\ mode' = [mode EXCEPT ![n] = "Disconnected"]
  /\ UNCHANGED <<fresh, cabs, orders, knownNodes, asked, history>>

\* History: what the master has a copy of may come back.  A crash in the window of short ends
\* what it has no copy of.
AccountOfCrash(n) ==
  /\ lost' = [lost EXCEPT ![n] = @ \cup knownNodes[n]]
  /\ gone' = [gone EXCEPT ![n] = (IF n \in short THEN @ \cup lost[n] ELSE @) \ knownNodes[n]]
  /\ short' = short \ {n} /\ misled' = misled \ {n}

\* A faulty variant: an order waits in a channel that outlives the process.
Crash_KeepsOrders(n) ==
  /\ mode[n] # "Inactive"
  /\ mode' = [mode EXCEPT ![n] = "Inactive"]
  /\ fresh' = fresh \cup {n}
  /\ cabs' = [cabs EXCEPT ![n] = {}]
  /\ AccountOfCrash(n)
  /\ UNCHANGED <<orders, knownNodes, asked>>

\* Whatever the process had is gone.
Crash(n) ==
  /\ mode[n] # "Inactive"
  /\ mode' = [mode EXCEPT ![n] = "Inactive"]
  /\ fresh' = fresh \cup {n}
  /\ cabs' = [cabs EXCEPT ![n] = {}] /\ orders' = [orders EXCEPT ![n] = {}]
  /\ AccountOfCrash(n)
  /\ UNCHANGED <<knownNodes, asked>>

\* Cab buttons are the elevator's own business in every mode.
CabButton(n, c) ==
  /\ mode[n] # "Inactive"
  /\ cabs' = [cabs EXCEPT ![n] = @ \cup {c}]
  /\ UNCHANGED <<mode, fresh, orders, knownNodes, asked, history>>

Serve(n, c) ==
  /\ c \in cabs[n]
  /\ cabs' = [cabs EXCEPT ![n] = @ \ {c}]
  /\ lost' = [lost EXCEPT ![n] = @ \ {c}]
  /\ UNCHANGED <<mode, fresh, orders, knownNodes, asked, gone, short, misled>>

TakeCabOrder(n) ==
  /\ orders[n] # {}
  /\ cabs' = [cabs EXCEPT ![n] = @ \cup orders[n]]
  /\ orders' = [orders EXCEPT ![n] = {}]
  /\ UNCHANGED <<mode, fresh, knownNodes, asked, history>>

-----------------------------------------------------------------------------
(* Node and master.                                                        *)

\* History: the state leaves out what an order not yet taken, or a missing one, was to bring back.
AccountOfState(n) ==
  /\ short' = IF n \in misled \/ ~(orders[n] \subseteq cabs[n]) THEN short \cup {n} ELSE short \ {n}
  /\ UNCHANGED <<lost, gone, misled>>

\* A faulty variant: a Disconnected node passes its states on, too.
ReceiveElevState_Any(n) ==
  /\ mode[n] # "Inactive"
  /\ knownNodes' = [knownNodes EXCEPT ![n] = cabs[n]]
  /\ AccountOfState(n)
  /\ UNCHANGED <<mode, fresh, cabs, orders, asked>>

\* A slave passes its states on, which may overtake a cab order it has not taken.
ReceiveElevState(n) ==
  /\ mode[n] = "Slave"
  /\ knownNodes' = [knownNodes EXCEPT ![n] = cabs[n]]
  /\ AccountOfState(n)
  /\ UNCHANGED <<mode, fresh, cabs, orders, asked>>

ReceiveConnectionReq(n) ==
  /\ mode[n] = "Disconnected" /\ asked = NoNode
  /\ asked' = n
  /\ UNCHANGED <<mode, fresh, cabs, orders, knownNodes, history>>

\* A faulty variant: the slave makes no cab order of the answer.
AnswerConnectionReq_NoOrder ==
  /\ asked # NoNode
  /\ \E hearers \in SUBSET In("Disconnected") :
       /\ mode' = [n \in Others |-> IF n \in hearers THEN "Slave" ELSE mode[n]]
       /\ misled' = misled \cup ((hearers \cap fresh) \ {asked})
  /\ asked' = NoNode
  /\ UNCHANGED <<fresh, cabs, orders, knownNodes, lost, gone, short>>

\* CabRequestInfo for the node asked about reaches some of the Disconnected nodes and
\* makes all of these slaves; a cab order is made of it by that node only, and only by
\* a process that had no contact yet.
AnswerConnectionReq ==
  /\ asked # NoNode
  /\ \E hearers \in SUBSET In("Disconnected") :
       /\ mode' = [n \in Others |-> IF n \in hearers THEN "Slave" ELSE mode[n]]
       /\ orders' = [n \in Others |-> IF n = asked /\ n \in hearers \cap fresh
                                      THEN orders[n] \cup knownNodes[n] ELSE orders[n]]
       /\ misled' = misled \cup ((hearers \cap fresh) \ {asked})
  /\ asked' = NoNode
  /\ UNCHANGED <<fresh, cabs, knownNodes, lost, gone, short>>

ReceiveGlobalHallRequest(n) ==
  /\ mode[n] = "Slave"
  /\ fresh' = fresh \ {n}
  /\ UNCHANGED <<mode, cabs, orders, knownNodes, asked, history>>

\* The slave has lost the master.
LeaveSlave(n) ==
  /\ mode[n] = "Slave"
  /\ mode' = [mode EXCEPT ![n] = "Disconnected"]
  /\ UNCHANGED <<fresh, cabs, orders, knownNodes, asked, history>>

NodeStep(n) ==
  \/ Start(n) \/ Crash(n) \/ TakeCabOrder(n)
  \/ ReceiveElevState(n) \/ ReceiveConnectionReq(n) \/ ReceiveGlobalHallRequest(n) \/ LeaveSlave(n)
  \/ \E c \in CabCalls : CabButton(n, c) \/ Serve(n, c)

Next == AnswerConnectionReq \/ \E n \in Others : NodeStep(n)

Spec == Init /\ [][Next]_vars

\* The elevator reads its channel; connection requests and answers are repeated until they are
\* heard: what is sent again and again arrives.
Fairness ==
  /\ WF_vars(AnswerConnectionReq)
  /\ \A n \in Others : /\ WF_vars(TakeCabOrder(n)) /\ SF_vars(ReceiveConnectionReq(n))
                       /\ SF_vars(asked = n /\ AnswerConnectionReq /\ mode'[n] = "Slave")

FairSpec == Spec /\ Fairness

-----------------------------------------------------------------------------
(* Properties.                                                             *)

\* Every variable keeps its type, and an elevator that is down has no calls.
TypeOK ==
  /\ mode \in [Others -> Modes]
  /\ fresh \subseteq Others /\ misled \subseteq Others /\ short \subseteq Others
  /\ cabs \in [Others -> SUBSET CabCalls]
  /\ orders \in [Others -> SUBSET CabCalls]
  /\ knownNodes \in [Others -> SUBSET CabCalls]
  /\ lost \in [Others -> SUBSET CabCalls] /\ gone \in [Others -> SUBSET CabCalls]
  /\ asked \in Others \cup {NoNode}
  /\ \A n \in In("Inactive") : cabs[n] = {} /\ orders[n] = {}

AtElevator(n) == cabs[n] \cup orders[n]

\* The calls that crashes of n have taken and that the backup still owes it.
Owed(n) == lost[n] \ gone[n]

\* Through any number of crashes, and whoever answers whom, what the backup owes an elevator is
\* in the master's copy, unless the last state that overwrote it (receivers.go:123) came before
\* the cab order was taken or from a misled node.  A process that is or was a slave by the
\* answer to its own request has it in its table or in the order it is about to take.  So a
\* call is lost for good only by a crash after such a state.
BackupKept ==
  \A n \in Others :
    /\ n \notin short => Owed(n) \subseteq knownNodes[n]
    /\ n \notin misled /\ (mode[n] = "Slave" \/ n \notin fresh \/ n \in short)
          => Owed(n) \subseteq AtElevator(n)

\* "a backup of your internal states" (messagetypes.go:24): the calls the backup owes a running
\* elevator get into its table or are served, though requests, answers and connections get
\* lost, unless it crashes again or takes the answer to another for its own.
OwedCallsReturn ==
  \A n \in Others, c \in CabCalls :
     c \in Owed(n) ~> c \in cabs[n] \/ c \notin Owed(n) \/ n \in misled \/ mode[n] = "Inactive"
=============================================================================
