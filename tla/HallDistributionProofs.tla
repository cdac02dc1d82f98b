------------------------ MODULE HallDistributionProofs ------------------------
(***************************************************************************)
(* Proofs about HallDistribution, for any number of slaves and any hall    *)
(* calls: CallsCovered is inductive once the types are known, and every    *)
(* step is one of CallService.                                             *)
(***************************************************************************)
EXTENDS HallDistribution, TLAPS

-----------------------------------------------------------------------------
(* Types.                                                                  *)

LEMMA InitType == Init => TypeOK
  BY DEF Init, TypeOK, Answers, Nodes

\* Asking for the states sets the server's answer.
LEMMA AskType ==
  ASSUME TypeOK, NEW kind \in Answers, Ask(kind)
  PROVE  answer' \in Answers /\ seen' \subseteq Slaves
  BY DEF Ask, TypeOK

LEMMA AskWhenDueType ==
  ASSUME TypeOK, NEW due \in BOOLEAN, AskWhenDue(due)
  PROVE  should' = due /\ recent' \in BOOLEAN /\ answer' \in Answers /\ seen' \subseteq Slaves
<1>1. CASE due /\ ~recent
  BY <1>1, AskType DEF AskWhenDue, Answers
<1>2. CASE ~(due /\ ~recent)
  BY <1>2 DEF AskWhenDue, TypeOK
<1> QED  BY <1>1, <1>2

\* Calls and completions.
LEMMA CallsType ==
  ASSUME TypeOK, NEW c \in HallCalls,
         \/ HallButton(c) \/ LocalHallAssignmentComplete(c)
         \/ \E s \in Slaves : NewHallRequest(s, c) \/ SlaveServes(s, c) \/ ReceiveHallAssignmentComplete(s, c)
         \/ \E n \in Nodes : ServedUnreported(n, c)
  PROVE  TypeOK'
<1>1. CASE HallButton(c)
  <2>1. should' = TRUE /\ recent' \in BOOLEAN /\ answer' \in Answers /\ seen' \subseteq Slaves
    BY <1>1, AskWhenDueType DEF HallButton
  <2> QED  BY <1>1, <2>1 DEF HallButton, SetRequests, slaveVars, TypeOK
<1>2. CASE LocalHallAssignmentComplete(c)
  <2>1. should' \in BOOLEAN /\ recent' \in BOOLEAN /\ answer' \in Answers /\ seen' \subseteq Slaves
    BY <1>2, AskWhenDueType DEF LocalHallAssignmentComplete, TypeOK
  <2> QED  BY <1>2, <2>1 DEF LocalHallAssignmentComplete, SetRequests, slaveVars, TypeOK
<1>3. ASSUME NEW s \in Slaves, NewHallRequest(s, c) PROVE TypeOK'
  <2>1. should' = TRUE /\ recent' \in BOOLEAN /\ answer' \in Answers /\ seen' \subseteq Slaves
    BY <1>3, AskWhenDueType DEF NewHallRequest
  <2> QED  BY <1>3, <2>1 DEF NewHallRequest, SetRequests, slaveVars, TypeOK
<1>4. ASSUME NEW s \in Slaves, SlaveServes(s, c) PROVE TypeOK'
  <2>1. reports' = reports \cup {<<s, c>>} /\ <<s, c>> \in Slaves \X HallCalls
    BY <1>4 DEF SlaveServes
  <2>2. reports' \subseteq Slaves \X HallCalls
    BY <2>1 DEF TypeOK
  <2>3. share' \in [Nodes -> SUBSET HallCalls]
    BY <1>4 DEF SlaveServes, TypeOK
  <2> QED  BY <1>4, <2>2, <2>3 DEF SlaveServes, serverVars, slaveVars, TypeOK
<1>5. ASSUME NEW s \in Slaves, ReceiveHallAssignmentComplete(s, c) PROVE TypeOK'
  BY <1>5 DEF ReceiveHallAssignmentComplete, SetRequests, serverVars, slaveVars, TypeOK
<1>6. ASSUME NEW n \in Nodes, ServedUnreported(n, c) PROVE TypeOK'
  BY <1>6 DEF ServedUnreported, serverVars, slaveVars, TypeOK
<1> QED  BY <1>1, <1>2, <1>3, <1>4, <1>5, <1>6

\* A distribution, by its function from calls to elevators.
LEMMA DistributeIs ==
  ASSUME Distribute
  PROVE  \E to \in [requests -> seen \cup {OwnID}] :
           /\ share' = [n \in Nodes |-> CASE n = Master -> {c \in requests : to[c] = OwnID}
                          [] n \in seen \ {OwnID} -> IF n \in present THEN {c \in requests : to[c] = n} ELSE {}
                          [] OTHER -> share[n]]
           /\ dropped' = UNION {{c \in requests : to[c] = n} : n \in (seen \ {OwnID}) \ present}
  BY DEF Distribute

LEMMA UpdateType ==
  ASSUME TypeOK, TakeUpdate
  PROVE  TypeOK'
<1>1. CASE Distribute
  <2>1. PICK to \in [requests -> seen \cup {OwnID}] :
           /\ share' = [n \in Nodes |-> CASE n = Master -> {c \in requests : to[c] = OwnID}
                          [] n \in seen \ {OwnID} -> IF n \in present THEN {c \in requests : to[c] = n} ELSE {}
                          [] OTHER -> share[n]]
           /\ dropped' = UNION {{c \in requests : to[c] = n} : n \in (seen \ {OwnID}) \ present}
    BY <1>1, DistributeIs
  <2>2. share' \in [Nodes -> SUBSET HallCalls] /\ dropped' \subseteq HallCalls
    BY <2>1 DEF TypeOK
  <2> QED  BY <1>1, <2>2 DEF Distribute, slaveVars, TypeOK, Answers
<1>2. CASE DistributeFails
  BY <1>2 DEF DistributeFails, slaveVars, TypeOK, Answers
<1>3. CASE AnswerOnly
  BY <1>3 DEF AnswerOnly, slaveVars, TypeOK, Answers
<1> QED  BY <1>1, <1>2, <1>3 DEF TakeUpdate

LEMMA RestType ==
  ASSUME TypeOK,
         \/ ReceiveConnectionReq \/ PollPeers \/ ReceiveOwnState \/ IntervalPasses
         \/ \E s \in Slaves : SlaveComes(s) \/ SlaveGoes(s) \/ SlaveExpires(s)
  PROVE  TypeOK'
<1>1. CASE ReceiveConnectionReq
  BY <1>1, AskType DEF ReceiveConnectionReq, slaveVars, TypeOK, Answers
<1>2. CASE PollPeers
  <2>1. CASE active # {}
    BY <1>2, <2>1, AskType DEF PollPeers, slaveVars, TypeOK, Answers
  <2>2. CASE active = {}
    BY <1>2, <2>2 DEF PollPeers, slaveVars, TypeOK
  <2> QED  BY <2>1, <2>2
<1>3. CASE ReceiveOwnState
  BY <1>3 DEF ReceiveOwnState, serverVars, slaveVars, TypeOK
<1>4. CASE IntervalPasses
  BY <1>4 DEF IntervalPasses, serverVars, slaveVars, TypeOK
<1>5. ASSUME NEW s \in Slaves, SlaveComes(s) PROVE TypeOK'
  BY <1>5 DEF SlaveComes, serverVars, TypeOK
<1>6. ASSUME NEW s \in Slaves, SlaveGoes(s) PROVE TypeOK'
  BY <1>6 DEF SlaveGoes, serverVars, TypeOK
<1>7. ASSUME NEW s \in Slaves, SlaveExpires(s) PROVE TypeOK'
  BY <1>7 DEF SlaveExpires, serverVars, TypeOK
<1> QED  BY <1>1, <1>2, <1>3, <1>4, <1>5, <1>6, <1>7

LEMMA NextType == TypeOK /\ [Next]_vars => TypeOK'
<1> SUFFICES ASSUME TypeOK, [Next]_vars PROVE TypeOK'
  OBVIOUS
<1>1. CASE UNCHANGED vars
  BY <1>1 DEF vars, serverVars, slaveVars, TypeOK
<1>2. CASE Next
  BY <1>2, CallsType, UpdateType, RestType DEF Next, ElevatorEvent
<1> QED  BY <1>1, <1>2

\* Every variable keeps its type, for any slaves and calls.
THEOREM TypeCorrect == Spec => []TypeOK
  BY InitType, NextType, PTL DEF Spec
-----------------------------------------------------------------------------
(* Where a lit call is.                                                    *)

\* What CallsCovered says of one call.
Covered(c) ==
  \/ should
  \/ \E n \in present \cup {Master} : c \in share[n]
  \/ \E s \in present : <<s, c>> \in reports
  \/ c \in dropped

\* A press is to be distributed from the moment it is in the requests.
LEMMA PressCovers ==
  ASSUME NEW c \in HallCalls, HallButton(c) \/ \E s \in Slaves : NewHallRequest(s, c)
  PROVE  should'
  BY DEF HallButton, NewHallRequest, AskWhenDue

\* A completion that is processed takes the call out of the requests and leaves the others alone.
LEMMA CompletionCovers ==
  ASSUME TypeOK, NEW d \in HallCalls, NEW c \in requests', c \in requests => Covered(c),
         \/ LocalHallAssignmentComplete(d)
         \/ \E s \in Slaves : ReceiveHallAssignmentComplete(s, d)
  PROVE  Covered(c)'
<1>1. CASE LocalHallAssignmentComplete(d)
  <2>1. c # d /\ c \in requests /\ should' = should /\ present' = present /\ reports' = reports
    BY <1>1 DEF LocalHallAssignmentComplete, SetRequests, AskWhenDue, slaveVars
  <2>2. /\ dropped' = dropped \ {d}
        /\ share' = [share EXCEPT ![Master] = @ \ {d}]
    BY <1>1 DEF LocalHallAssignmentComplete
  <2>3. ASSUME NEW n \in present \cup {Master}, c \in share[n] PROVE c \in share'[n]
    BY <2>1, <2>2, <2>3 DEF TypeOK, Nodes
  <2> QED  BY <2>1, <2>2, <2>3 DEF Covered
<1>2. ASSUME NEW s \in Slaves, ReceiveHallAssignmentComplete(s, d)
      PROVE  Covered(c)'
  <2>1. /\ c # d /\ c \in requests /\ should' = should /\ present' = present /\ share' = share
        /\ dropped' = dropped \ {d} /\ reports' = reports \ {<<s, d>>}
    BY <1>2 DEF ReceiveHallAssignmentComplete, SetRequests, slaveVars
  <2> QED  BY <2>1 DEF Covered
<1> QED  BY <1>1, <1>2

\* A served call is reported, or falls.
LEMMA ServiceCovers ==
  ASSUME TypeOK, NEW d \in HallCalls, NEW c \in requests, Covered(c),
         \/ \E s \in Slaves : SlaveServes(s, d)
         \/ \E n \in Nodes : ServedUnreported(n, d)
  PROVE  Covered(c)'
<1>1. ASSUME NEW s \in Slaves, SlaveServes(s, d)
      PROVE  Covered(c)'
  <2>1. /\ s \in present /\ should' = should /\ present' = present /\ dropped' = dropped
        /\ reports' = reports \cup {<<s, d>>} /\ share' = [share EXCEPT ![s] = @ \ {d}]
    BY <1>1 DEF SlaveServes, slaveVars
  <2>2. CASE c = d
    BY <2>1, <2>2 DEF Covered
  <2>3. ASSUME c # d, NEW n \in present \cup {Master}, c \in share[n] PROVE c \in share'[n]
    BY <2>1, <2>3 DEF TypeOK, Nodes
  <2> QED  BY <2>1, <2>2, <2>3 DEF Covered
<1>2. ASSUME NEW n \in Nodes, ServedUnreported(n, d)
      PROVE  Covered(c)'
  <2>1. /\ should' = should /\ present' = present /\ reports' = reports
        /\ dropped' = dropped \cup ({d} \cap requests) /\ share' = [share EXCEPT ![n] = @ \ {d}]
    BY <1>2 DEF ServedUnreported, slaveVars
  <2>2. CASE c = d
    BY <2>1, <2>2 DEF Covered
  <2>3. ASSUME c # d, NEW m \in present \cup {Master}, c \in share[m] PROVE c \in share'[m]
    BY <2>1, <2>3 DEF TypeOK, Nodes
  <2> QED  BY <2>1, <2>2, <2>3 DEF Covered
<1> QED  BY <1>1, <1>2

\* A distribution gives every call to an elevator, or to one that is gone: then it falls.
LEMMA DistributeCovers ==
  ASSUME TypeOK, Distribute, NEW c \in requests
  PROVE  Covered(c)'
<1>1. PICK to \in [requests -> seen \cup {OwnID}] :
         /\ share' = [n \in Nodes |-> CASE n = Master -> {d \in requests : to[d] = OwnID}
                        [] n \in seen \ {OwnID} -> IF n \in present THEN {d \in requests : to[d] = n} ELSE {}
                        [] OTHER -> share[n]]
         /\ dropped' = UNION {{d \in requests : to[d] = n} : n \in (seen \ {OwnID}) \ present}
  BY DistributeIs
<1>2. present' = present
  BY DEF Distribute, slaveVars
<1>3. CASE to[c] = OwnID
  <2>0. Master \in Nodes /\ Master \notin seen
    BY DistributionAssumption DEF TypeOK, Nodes
  <2>1. c \in share'[Master]
    BY <1>1, <1>3, <2>0
  <2> QED  BY <2>1 DEF Covered
<1>4. CASE to[c] # OwnID /\ to[c] \in present
  <2>1. to[c] \in seen \ {OwnID} /\ to[c] \in Nodes /\ to[c] # Master
    BY <1>1, <1>4, DistributionAssumption DEF TypeOK, Nodes
  <2>2. c \in share'[to[c]]
    BY <1>1, <1>4, <2>1
  <2> QED  BY <1>2, <1>4, <2>2 DEF Covered
<1>5. CASE to[c] # OwnID /\ to[c] \notin present
  <2>1. to[c] \in (seen \ {OwnID}) \ present /\ c \in {d \in requests : to[d] = to[c]}
    BY <1>1, <1>5
  <2>2. c \in dropped'
    BY <1>1, <2>1
  <2> QED  BY <2>2 DEF Covered
<1> QED  BY <1>3, <1>4, <1>5

\* An update that is not for a distribution takes the master's own orders only, and those fall.
LEMMA AnswerCovers ==
  ASSUME TypeOK, NEW c \in requests, Covered(c), DistributeFails \/ AnswerOnly
  PROVE  Covered(c)'
<1>1. CASE DistributeFails
  BY <1>1 DEF DistributeFails, Covered
<1>2. CASE AnswerOnly
  <2>1. /\ should' = should /\ present' = present /\ reports' = reports
        /\ dropped' = dropped \cup (share[Master] \cap requests)
        /\ share' = [share EXCEPT ![Master] = {}]
    BY <1>2 DEF AnswerOnly, slaveVars
  <2>2. ASSUME NEW n \in present, n # Master, c \in share[n] PROVE c \in share'[n]
    BY <2>1, <2>2 DEF TypeOK, Nodes
  <2> QED  BY <2>1, <2>2 DEF Covered
<1> QED  BY <1>1, <1>2

\* With a slave that goes its orders and completions fall; the rest touches no call.
LEMMA RestCovers ==
  ASSUME TypeOK, NEW c \in requests, Covered(c),
         \/ ReceiveConnectionReq \/ PollPeers \/ ReceiveOwnState \/ IntervalPasses
         \/ \E s \in Slaves : SlaveComes(s) \/ SlaveGoes(s) \/ SlaveExpires(s)
  PROVE  Covered(c)'
<1>1. CASE ReceiveConnectionReq \/ PollPeers \/ ReceiveOwnState \/ IntervalPasses
  <2>1. (should => should') /\ UNCHANGED <<present, share, reports, dropped>>
    BY <1>1 DEF ReceiveConnectionReq, PollPeers, ReceiveOwnState, IntervalPasses, slaveVars
  <2> QED  BY <2>1 DEF Covered
<1>2. ASSUME NEW s \in Slaves, SlaveComes(s) \/ SlaveExpires(s)
      PROVE  Covered(c)'
  <2>1. present \subseteq present' /\ UNCHANGED <<should, share, reports, dropped>>
    BY <1>2 DEF SlaveComes, SlaveExpires
  <2> QED  BY <2>1 DEF Covered
<1>3. ASSUME NEW s \in Slaves, SlaveGoes(s)
      PROVE  Covered(c)'
  <2>1. /\ should' = should /\ present' = present \ {s} /\ share' = [share EXCEPT ![s] = {}]
        /\ reports' = {r \in reports : r[1] # s}
        /\ dropped' = dropped \cup ({d \in HallCalls : d \in share[s] \/ <<s, d>> \in reports} \cap requests)
    BY <1>3 DEF SlaveGoes
  <2>2. c \in HallCalls /\ s # Master
    BY DistributionAssumption DEF TypeOK
  <2>3. ASSUME NEW n \in present \cup {Master}, c \in share[n], n # s PROVE c \in share'[n]
    BY <2>1, <2>3 DEF TypeOK, Nodes
  <2>4. ASSUME NEW t \in present, <<t, c>> \in reports, t # s PROVE <<t, c>> \in reports'
    BY <2>1, <2>4
  <2> QED  BY <2>1, <2>2, <2>3, <2>4 DEF Covered
<1> QED  BY <1>1, <1>2, <1>3

\* Only a press adds a request.
LEMMA NoOtherPress ==
  ASSUME Next, NEW c \in requests', ~should'
  PROVE  c \in requests
  BY DEF Next, ElevatorEvent, HallButton, NewHallRequest, AskWhenDue, LocalHallAssignmentComplete,
         SlaveServes, ReceiveHallAssignmentComplete, ServedUnreported, SetRequests,
         TakeUpdate, Distribute, DistributeFails, AnswerOnly, ReceiveConnectionReq, PollPeers,
         ReceiveOwnState, IntervalPasses, SlaveComes, SlaveGoes, SlaveExpires

LEMMA NextCovered == TypeOK /\ CallsCovered /\ [Next]_vars => CallsCovered'
<1> SUFFICES ASSUME TypeOK, CallsCovered, [Next]_vars, NEW c \in requests', ~should'
             PROVE  Covered(c)'
  BY DEF CallsCovered, Covered
<1>0. c \in requests => Covered(c)
  BY DEF CallsCovered, Covered
<1>1. CASE UNCHANGED vars
  BY <1>0, <1>1 DEF vars, slaveVars, Covered
<1>2. CASE Next
  <2>1. c \in requests /\ Covered(c)
    BY <1>0, <1>2, NoOtherPress
  <2>2. CASE TakeUpdate
    BY <2>1, <2>2, DistributeCovers, AnswerCovers DEF TakeUpdate
  <2>3. CASE ~TakeUpdate
    BY <1>2, <2>1, <2>3, PressCovers, CompletionCovers, ServiceCovers, RestCovers
       DEF Next, ElevatorEvent
  <2> QED  BY <2>2, <2>3
<1> QED  BY <1>1, <1>2

LEMMA InitCovered == Init => CallsCovered
  BY DEF Init, CallsCovered

\* From the press (master.go:100, 132) to the completion (master.go:108, 191) a lit call is to be
\* distributed, ordered at a present elevator, reported served, or one of those the code lets fall.
THEOREM CallsAlwaysCovered == Spec => []CallsCovered
<1>1. Spec => []TypeOK
  BY TypeCorrect
<1> QED  BY <1>1, InitCovered, NextCovered, PTL DEF Spec
-----------------------------------------------------------------------------
(* The master keeps the promise of CallService.                            *)

\* Orders taken from one elevator leave those of the others, and add none.
LEMMA OrderedWithout ==
  ASSUME NEW n \in Nodes, share'[n] \subseteq share[n],
         \A m \in Nodes \ {n} : share'[m] = share[m]
  PROVE  Ordered' \subseteq Ordered /\ Ordered \ Ordered' \subseteq share[n] \ share'[n]
  BY DEF Ordered

LEMMA PressServes ==
  ASSUME NEW c \in HallCalls, HallButton(c) \/ \E s \in Slaves : NewHallRequest(s, c)
  PROVE  Service!Press(c)
<1>1. /\ requests' = requests \cup {c} /\ dropped' = dropped
      /\ share' = share /\ reports' = reports
  BY DEF HallButton, NewHallRequest, SetRequests
<1>2. should' = TRUE
  BY DEF HallButton, NewHallRequest, AskWhenDue
<1> QED  BY <1>1, <1>2 DEF Ordered, Reported, Service!Press

\* A completion that is processed puts out a call that was ordered, or reported by one that had it.
LEMMA CompletionServes ==
  ASSUME TypeOK, NEW c \in HallCalls,
         \/ LocalHallAssignmentComplete(c)
         \/ \E s \in Slaves : ReceiveHallAssignmentComplete(s, c)
  PROVE  Service!PutOut(c)
<1>1. CASE LocalHallAssignmentComplete(c)
  <2>1. /\ c \in share[Master] /\ share' = [share EXCEPT ![Master] = share[Master] \ {c}]
        /\ requests' = requests \ {c} /\ dropped' = dropped \ {c} /\ reports' = reports
    BY <1>1 DEF LocalHallAssignmentComplete, SetRequests, TypeOK, Nodes
  <2>2. should' = should
    BY <1>1 DEF LocalHallAssignmentComplete, AskWhenDue
  <2>3. c \in Ordered
    BY <2>1 DEF Ordered, Nodes
  <2>4. Ordered' \subseteq Ordered /\ Ordered \ Ordered' \subseteq {c}
    <3>1. /\ Master \in Nodes /\ share'[Master] = share[Master] \ {c}
          /\ \A m \in Nodes \ {Master} : share'[m] = share[m]
      BY <2>1 DEF Nodes, TypeOK
    <3> QED  BY <3>1, OrderedWithout
  <2>5. Ordered' \in {Ordered, Ordered \ {c}}
    BY <2>4
  <2>6. Reported' = Reported
    BY <2>1 DEF Reported
  <2> QED  BY <2>1, <2>2, <2>3, <2>5, <2>6 DEF Service!PutOut, Service!MayLose
<1>2. ASSUME NEW s \in Slaves, ReceiveHallAssignmentComplete(s, c)
      PROVE  Service!PutOut(c)
  <2>1. /\ <<s, c>> \in reports /\ reports' = reports \ {<<s, c>>} /\ share' = share
        /\ requests' = requests \ {c} /\ dropped' = dropped \ {c} /\ should' = should
    BY <1>2 DEF ReceiveHallAssignmentComplete, SetRequests
  <2>2. c \in Reported /\ Reported' \subseteq Reported
    BY <2>1 DEF Reported
  <2>3. ASSUME NEW d \in Reported, d # c PROVE d \in Reported'
    BY <2>1, <2>3 DEF Reported
  <2>4. Reported' \in {Reported, Reported \ {c}}
    BY <2>2, <2>3
  <2>5. Ordered' = Ordered
    BY <2>1 DEF Ordered
  <2> QED  BY <2>1, <2>2, <2>4, <2>5 DEF Service!PutOut, Service!MayLose
<1> QED  BY <1>1, <1>2

LEMMA SlaveServesCall ==
  ASSUME TypeOK, NEW s \in Slaves, NEW c \in HallCalls, SlaveServes(s, c)
  PROVE  Service!Serve(c)
<1>1. /\ c \in share[s] /\ share' = [share EXCEPT ![s] = share[s] \ {c}]
      /\ reports' = reports \cup {<<s, c>>}
      /\ requests' = requests /\ should' = should /\ dropped' = dropped
  BY DEF SlaveServes, TypeOK, Nodes
<1>2. c \in Ordered
  BY <1>1 DEF Ordered, Nodes
<1>3. Ordered' \subseteq Ordered /\ Ordered \ Ordered' \subseteq {c}
  <2>1. /\ s \in Nodes /\ share'[s] = share[s] \ {c}
        /\ \A m \in Nodes \ {s} : share'[m] = share[m]
    BY <1>1 DEF Nodes, TypeOK
  <2> QED  BY <2>1, OrderedWithout
<1>4. Ordered' \in {Ordered, Ordered \ {c}}
  BY <1>3
<1>5. Reported' = Reported \cup {c}
  <2>1. Reported' \subseteq Reported \cup {c}
    BY <1>1 DEF Reported
  <2>2. Reported \cup {c} \subseteq Reported'
    <3>1. <<s, c>> \in reports' /\ <<s, c>>[2] = c
      BY <1>1
    <3>2. c \in Reported'
      BY <3>1 DEF Reported
    <3>3. Reported \subseteq Reported'
      BY <1>1 DEF Reported
    <3> QED  BY <3>2, <3>3
  <2> QED  BY <2>1, <2>2
<1> QED  BY <1>1, <1>2, <1>4, <1>5 DEF Service!Serve

\* The distribution orders lit calls only, and what it lets fall it knows.
LEMMA DistributeServes ==
  ASSUME TypeOK, Distribute \/ DistributeFails
  PROVE  Service!HandOut
<1>1. /\ should = TRUE /\ should' = FALSE /\ requests' = requests /\ reports' = reports
  BY DEF Distribute, DistributeFails, Distributing, TypeOK
<1>2. Reported' = Reported
  BY <1>1 DEF Reported
<1>3. CASE Distribute
  <2>1. PICK to \in [requests -> seen \cup {OwnID}] :
           /\ share' = [n \in Nodes |-> CASE n = Master -> {d \in requests : to[d] = OwnID}
                          [] n \in seen \ {OwnID} -> IF n \in present THEN {d \in requests : to[d] = n} ELSE {}
                          [] OTHER -> share[n]]
           /\ dropped' = UNION {{d \in requests : to[d] = n} : n \in (seen \ {OwnID}) \ present}
    BY <1>3, DistributeIs
  <2>2. \A n \in Nodes : share'[n] \subseteq share[n] \cup requests
    BY <2>1
  <2>3. Ordered' \subseteq Ordered \cup requests
    BY <2>2 DEF Ordered
  <2>4. dropped' \subseteq requests
    BY <2>1
  <2>5. ASSUME NEW c \in requests PROVE c \in Ordered' \cup dropped'
    <3>1. CASE to[c] = OwnID
      <4>1. c \in share'[Master]
        <5>1. Master \in Nodes /\ Master \notin seen
          BY DistributionAssumption DEF TypeOK, Nodes
        <5> QED  BY <2>1, <3>1, <5>1
      <4> QED  BY <4>1 DEF Ordered, Nodes
    <3>2. CASE to[c] # OwnID /\ to[c] \in present
      <4>1. to[c] \in seen \ {OwnID} /\ to[c] \in Nodes /\ to[c] # Master
        BY <2>1, <3>2, DistributionAssumption DEF TypeOK, Nodes
      <4>2. c \in share'[to[c]]
        BY <2>1, <3>2, <4>1
      <4> QED  BY <4>1, <4>2 DEF Ordered
    <3>3. CASE to[c] # OwnID /\ to[c] \notin present
      <4>1. to[c] \in (seen \ {OwnID}) \ present /\ c \in {d \in requests : to[d] = to[c]}
        BY <2>1, <3>3
      <4> QED  BY <2>1, <4>1
    <3> QED  BY <3>1, <3>2, <3>3
  <2> QED  BY <1>1, <1>2, <2>3, <2>4, <2>5 DEF Service!HandOut
<1>4. CASE DistributeFails
  <2>1. dropped' = requests /\ share' = [share EXCEPT ![Master] = {}]
    BY <1>4 DEF DistributeFails
  <2>2. Ordered' \subseteq Ordered
    BY <2>1 DEF Ordered, TypeOK
  <2> QED  BY <1>1, <1>2, <2>1, <2>2 DEF Service!HandOut
<1> QED  BY <1>3, <1>4

\* The orders of one elevator, or some of them, and the reports of one slave are lost.
LEMMA LossServes ==
  ASSUME TypeOK,
         \/ AnswerOnly \/ \E s \in Slaves : SlaveGoes(s)
         \/ \E n \in Nodes, c \in HallCalls : ServedUnreported(n, c)
  PROVE  Service!LetFall
<1>1. should' = should /\ requests' = requests
  BY DEF AnswerOnly, SlaveGoes, ServedUnreported
<1>2. CASE AnswerOnly
  <2>1. /\ share' = [share EXCEPT ![Master] = {}] /\ reports' = reports
        /\ dropped' = dropped \cup (share[Master] \cap requests)
    BY <1>2 DEF AnswerOnly
  <2>2. Ordered' \subseteq Ordered /\ Ordered \ Ordered' \subseteq share[Master] /\ share[Master] \subseteq Ordered
    <3>1. /\ Master \in Nodes /\ share'[Master] = {}
          /\ \A m \in Nodes \ {Master} : share'[m] = share[m]
      BY <2>1 DEF Nodes, TypeOK
    <3>2. share[Master] \subseteq Ordered
      BY <3>1 DEF Ordered
    <3> QED  BY <3>1, <3>2, OrderedWithout
  <2>3. Reported' = Reported
    BY <2>1 DEF Reported
  <2> QED  BY <1>1, <2>1, <2>2, <2>3 DEF Service!LetFall
<1>3. ASSUME NEW n \in Nodes, NEW c \in HallCalls, ServedUnreported(n, c)
      PROVE  Service!LetFall
  <2>1. /\ c \in share[n] /\ share' = [share EXCEPT ![n] = share[n] \ {c}] /\ reports' = reports
        /\ dropped' = dropped \cup ({c} \cap requests)
    BY <1>3 DEF ServedUnreported, TypeOK
  <2>2. Ordered' \subseteq Ordered /\ Ordered \ Ordered' \subseteq {c} /\ c \in Ordered
    <3>1. /\ share'[n] = share[n] \ {c}
          /\ \A m \in Nodes \ {n} : share'[m] = share[m]
      BY <2>1 DEF TypeOK
    <3>2. c \in Ordered
      BY <2>1 DEF Ordered
    <3> QED  BY <3>1, <3>2, OrderedWithout
  <2>3. Reported' = Reported
    BY <2>1 DEF Reported
  <2> QED  BY <1>1, <2>1, <2>2, <2>3 DEF Service!LetFall
<1>4. ASSUME NEW s \in Slaves, SlaveGoes(s)
      PROVE  Service!LetFall
  <2> DEFINE gone == {c \in HallCalls : c \in share[s] \/ <<s, c>> \in reports}
  <2>1. /\ share' = [share EXCEPT ![s] = {}] /\ reports' = {r \in reports : r[1] # s}
        /\ dropped' = dropped \cup (gone \cap requests)
    BY <1>4 DEF SlaveGoes
  <2>2. /\ Ordered' \subseteq Ordered /\ Ordered \ Ordered' \subseteq share[s]
        /\ share[s] \subseteq Ordered /\ share[s] \subseteq gone
    <3>1. /\ s \in Nodes /\ share'[s] = {}
          /\ \A m \in Nodes \ {s} : share'[m] = share[m]
      BY <2>1 DEF Nodes, TypeOK
    <3>2. share[s] \subseteq Ordered
      BY <3>1 DEF Ordered
    <3>3. share[s] \subseteq gone
      BY <3>1 DEF TypeOK
    <3> QED  BY <3>1, <3>2, <3>3, OrderedWithout
  <2>3. Reported' \subseteq Reported
    BY <2>1 DEF Reported
  <2>4. ASSUME NEW c \in Reported, c \notin Reported' PROVE c \in gone
    <3>1. PICK r \in reports : r[2] = c
      BY <2>4 DEF Reported
    <3>2. r[1] = s
      BY <2>1, <2>4, <3>1 DEF Reported
    <3>3. r = <<s, c>> /\ c \in HallCalls
      BY <3>1, <3>2 DEF TypeOK
    <3> QED  BY <3>1, <3>3
  <2>5. gone \subseteq Ordered \cup Reported
    <3>1. ASSUME NEW c \in gone, <<s, c>> \in reports PROVE c \in Reported
      BY <3>1 DEF Reported
    <3> QED  BY <2>2, <3>1
  <2> HIDE DEF gone
  <2> QED  BY <1>1, <2>1, <2>2, <2>3, <2>4, <2>5 DEF Service!LetFall
<1> QED  BY <1>2, <1>3, <1>4

\* What only asks for states, or is told of them, changes no call; a distribution may be due again.
LEMMA RestServes ==
  ASSUME TypeOK,
         \/ ReceiveConnectionReq \/ PollPeers \/ ReceiveOwnState \/ IntervalPasses
         \/ \E s \in Slaves : SlaveComes(s) \/ SlaveExpires(s)
  PROVE  Service!Repeat \/ UNCHANGED Service!serviceVars
<1>1. UNCHANGED <<requests, share, reports, dropped>> /\ (should' = TRUE \/ should' = should)
  BY DEF ReceiveConnectionReq, PollPeers, ReceiveOwnState, IntervalPasses, SlaveComes, SlaveExpires
<1>2. Ordered' = Ordered /\ Reported' = Reported
  BY <1>1 DEF Ordered, Reported
<1> QED  BY <1>1, <1>2 DEF Service!Repeat, Service!serviceVars

LEMMA StepServes == TypeOK /\ [Next]_vars => [Service!ServiceNext]_(Service!serviceVars)
<1> SUFFICES ASSUME TypeOK, [Next]_vars PROVE [Service!ServiceNext]_(Service!serviceVars)
  OBVIOUS
<1>1. CASE UNCHANGED vars
  BY <1>1 DEF vars, Ordered, Reported, Service!serviceVars
<1>2. CASE TakeUpdate
  BY <1>2, DistributeServes, LossServes DEF TakeUpdate, Service!ServiceNext
<1>3. CASE Next /\ ~TakeUpdate
  <2>1. ASSUME NEW c \in HallCalls, HallButton(c) \/ \E s \in Slaves : NewHallRequest(s, c)
        PROVE  Service!ServiceNext
    BY <2>1, PressServes DEF Service!ServiceNext
  <2>2. ASSUME NEW c \in HallCalls,
               \/ LocalHallAssignmentComplete(c)
               \/ \E s \in Slaves : ReceiveHallAssignmentComplete(s, c)
        PROVE  Service!ServiceNext
    BY <2>2, CompletionServes DEF Service!ServiceNext
  <2>3. ASSUME NEW s \in Slaves, NEW c \in HallCalls, SlaveServes(s, c) PROVE Service!ServiceNext
    BY <2>3, SlaveServesCall DEF Service!ServiceNext
  <2>4. ASSUME \/ \E s \in Slaves : SlaveGoes(s)
               \/ \E n \in Nodes, c \in HallCalls : ServedUnreported(n, c)
        PROVE  Service!ServiceNext
    BY <2>4, LossServes DEF Service!ServiceNext
  <2>5. ASSUME \/ ReceiveConnectionReq \/ PollPeers \/ ReceiveOwnState \/ IntervalPasses
               \/ \E s \in Slaves : SlaveComes(s) \/ SlaveExpires(s)
        PROVE  Service!ServiceNext \/ UNCHANGED Service!serviceVars
    BY <2>5, RestServes DEF Service!ServiceNext
  <2> QED  BY <1>3, <2>1, <2>2, <2>3, <2>4, <2>5 DEF Next, ElevatorEvent
<1> QED  BY <1>1, <1>2, <1>3

LEMMA InitServes == Init => Service!ServiceInit
  BY DEF Init, Ordered, Reported, Service!ServiceInit

\* For any slaves and calls, MasterProgram with ComputeHallAssignments puts out no call that was
\* not served, and loses sight of none, as CallService promises.
THEOREM ServesCalls == Spec => ImplementsCallService
<1>1. Spec => []TypeOK
  BY TypeCorrect
<1> QED  BY <1>1, InitServes, StepServes, PTL DEF Spec, ImplementsCallService, Service!ServiceSpec

\* The promise is enough: whatever serves calls as it says (master.go:100-208) has every lit call
\* waiting for a distribution, in somebody's orders, reported served or known to have fallen.
THEOREM PromiseForgetsNone == Service!ServiceSpec => []Service!NoneForgotten
<1> USE DEF Service!NoneForgotten
<1>1. Service!ServiceInit => Service!NoneForgotten
  BY DEF Service!ServiceInit
<1>2. ASSUME Service!NoneForgotten, [Service!ServiceNext]_(Service!serviceVars)
      PROVE  Service!NoneForgotten'
  <2>1. ASSUME NEW c \in HallCalls, Service!Press(c) PROVE Service!NoneForgotten'
    BY <2>1 DEF Service!Press
  <2>2. ASSUME NEW c \in HallCalls, Service!Serve(c) PROVE Service!NoneForgotten'
    BY <1>2, <2>2 DEF Service!Serve
  <2>3. ASSUME NEW c \in HallCalls, Service!PutOut(c) PROVE Service!NoneForgotten'
    BY <1>2, <2>3 DEF Service!PutOut, Service!MayLose
  <2>4. ASSUME Service!HandOut PROVE Service!NoneForgotten'
    BY <2>4 DEF Service!HandOut
  <2>5. ASSUME Service!LetFall PROVE Service!NoneForgotten'
    BY <1>2, <2>5 DEF Service!LetFall
  <2>6. ASSUME UNCHANGED Service!serviceVars PROVE Service!NoneForgotten'
    BY <1>2, <2>6 DEF Service!serviceVars
  <2>7. ASSUME Service!Repeat PROVE Service!NoneForgotten'
    BY <2>7 DEF Service!Repeat
  <2> QED  BY <1>2, <2>1, <2>2, <2>3, <2>4, <2>5, <2>6, <2>7 DEF Service!ServiceNext
<1> QED  BY <1>1, <1>2, PTL DEF Service!ServiceSpec
=============================================================================
