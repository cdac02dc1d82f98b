------------------------ MODULE HallAssignmentProofs ------------------------
(***************************************************************************)
(* Proofs about HallAssignmentDelivery for any slaves, calls and bounds:   *)
(* resends neither stop nor multiply, slaves never go back to an           *)
(* assignment that was replaced, and an acknowledgement means that the     *)
(* assignment is the last the slave has accepted, in force or waiting for  *)
(* the elevator: they deliver as OrderChannel promises.                    *)
(***************************************************************************)
EXTENDS HallAssignmentDelivery, SequenceTheorems, TLAPS

USE DeliveryAssumption DEF IDs, NoID

\* An id not drawn yet is nowhere: no timer, not in the channel.
FreshIDs == \A id \in IDs : id >= nextID =>
               timers[id] = 0 /\ ~Waits(id, timeoutChannel)

\* Sorted by message id; all ids between lo and hi.
Sorted(q)         == \A i, j \in DOMAIN q : i <= j => q[i].MessageID <= q[j].MessageID
Within(q, lo, hi) == \A i \in DOMAIN q : lo <= q[i].MessageID /\ q[i].MessageID <= hi

\* No message to s is newer than this: the last assignment, if the master is still there.
Newest(s) == IF latest[s] = NoID THEN nextID - 1 ELSE latest[s]

\* The wire to a slave is sorted, from the last order accepted there to the newest assignment.
WireOrdered(s) == /\ Sorted(wire[s]) /\ Within(wire[s], LastOrder(s), Newest(s))
                  /\ LastOrder(s) <= Newest(s) /\ latest[s] < nextID

\* The orders waiting for the elevator are sorted, from the one in force there.
ChannelOrdered(s) ==
  /\ \A i, j \in DOMAIN orders[s] : i <= j => orders[s][i] <= orders[s][j]
  /\ \A i \in DOMAIN orders[s] : inForce[s] <= orders[s][i]

\* An acknowledged assignment has been accepted; lastID speaks of the last that was.
AcksHonest == /\ \A ack \in acks : ack.MessageID <= LastOrder(ack.NodeID)
              /\ \A s \in Slaves : lastID[s] \in {NoID, LastOrder(s)}

OrderInv == /\ TypeOK /\ OnlyLatestActive /\ AcksHonest /\ AcknowledgedIsAccepted
            /\ \A s \in Slaves : WireOrdered(s) /\ ChannelOrdered(s)

-----------------------------------------------------------------------------
(* Types.                                                                  *)

\* Sending appends to one wire or to none.
LEMMA TransmitType ==
  ASSUME NEW m \in Message, wire \in [Slaves -> Seq(Message)], Transmit(m)
  PROVE  wire' \in [Slaves -> Seq(Message)]
<1>1. m.NodeID \in Slaves /\ wire[m.NodeID] \in Seq(Message)
  BY DEF Message
<1>2. Append(wire[m.NodeID], m) \in Seq(Message)
  BY <1>1
<1> QED  BY <1>1, <1>2 DEF Transmit

\* Taking off a wire yields a message and leaves a wire.
LEMMA TakeOffType ==
  ASSUME NEW s \in Slaves, wire \in [Slaves -> Seq(Message)], TakeOff(s)
  PROVE  wire' \in [Slaves -> Seq(Message)] /\ Head(wire[s]) \in Message
<1>1. wire[s] \in Seq(Message) /\ wire[s] # <<>>
  BY DEF TakeOff
<1>2. Tail(wire[s]) \in Seq(Message) /\ Head(wire[s]) \in Message
  BY <1>1
<1> QED  BY <1>2 DEF TakeOff

\* The transmitter starts disabled and empty, the slaves with nothing.
LEMMA InitType == Init => TypeOK
<1> SUFFICES ASSUME Init PROVE TypeOK
  OBVIOUS
<1>1. timeoutChannel \in Seq(IDs) /\ Len(timeoutChannel) <= TimeoutCapacity
  BY DEF Init
<1>2. wire \in [Slaves -> Seq(Message)]
  BY DEF Init
<1>3. enable \in BOOLEAN
  BY DEF Init
<1>4. orders \in [Slaves -> Seq(IDs)] /\ lights \in [Slaves -> Nat] /\ deadlocked \subseteq Slaves
  BY DEF Init
<1> QED  BY <1>1, <1>2, <1>3, <1>4 DEF Init, TypeOK

\* Every handler keeps the types; the timer waits for room, so the channel never exceeds two.
LEMMA StepType == TypeOK /\ [Next]_vars => TypeOK'
<1> SUFFICES ASSUME TypeOK, [Next]_vars PROVE TypeOK'
  OBVIOUS
<1> USE DEF masterVars, slaveVars, elevatorVars
<1>1. ASSUME NEW call \in HallCalls, NewHallRequest(call) \/ HallRequestDone(call) PROVE TypeOK'
  BY <1>1 DEF TypeOK, NewHallRequest, HallRequestDone
<1>2. ASSUME NEW on \in BOOLEAN, EnableTransmitter(on) PROVE TypeOK'
  <2>1. active' \subseteq Message /\ enable' \in BOOLEAN /\ broadcast' \subseteq HallCalls
    BY <1>2, Zenon DEF TypeOK, EnableTransmitter
  <2> QED  BY <1>2, <2>1 DEF TypeOK, EnableTransmitter
<1>3. ASSUME NEW s \in Slaves, NEW calls \in SUBSET HallCalls, NewAssignment(s, calls) PROVE TypeOK'
  <2> DEFINE m == [NodeID |-> s, HallAssignment |-> calls, MessageID |-> nextID]
  <2>1. m \in Message
    BY <1>3 DEF NewAssignment, Message
  <2>2. wire' \in [Slaves -> Seq(Message)]
    BY <1>3, <2>1, TransmitType DEF NewAssignment, TypeOK
  <2>3. active' \subseteq Message
    BY <1>3, <2>1 DEF NewAssignment, TypeOK
  <2>4. timers' \in [IDs -> Nat] /\ latest' \in [Slaves -> IDs \cup {NoID}]
        /\ nextID' \in 1 .. MaxMessages + 1
    BY <1>3 DEF NewAssignment, TypeOK
  <2> HIDE DEF m
  <2> QED  BY <1>3, <2>2, <2>3, <2>4 DEF NewAssignment, TypeOK
<1>4. ASSUME NEW id \in IDs, TimerFires(id) PROVE TypeOK'
  <2>1. timeoutChannel' \in Seq(IDs) /\ Len(timeoutChannel') <= TimeoutCapacity
    BY <1>4 DEF TimerFires, TypeOK
  <2>2. timers' \in [IDs -> Nat]
    BY <1>4 DEF TimerFires, TypeOK
  <2> QED  BY <1>4, <2>1, <2>2 DEF TimerFires, TypeOK
<1>5. ASSUME Retry PROVE TypeOK'
  <2>1. timeoutChannel' \in Seq(IDs) /\ Len(timeoutChannel') <= TimeoutCapacity /\ Head(timeoutChannel) \in IDs
    BY <1>5 DEF Retry, TypeOK
  <2>2. wire' \in [Slaves -> Seq(Message)]
    BY <1>5, TransmitType DEF Retry, TypeOK
  <2>3. timers' \in [IDs -> Nat]
    <3>1. \/ timers' = timers
          \/ timers' = [timers EXCEPT ![Head(timeoutChannel)] = @ + 1]
      BY <1>5 DEF Retry
    <3>2. ASSUME NEW id \in IDs PROVE [timers EXCEPT ![id] = @ + 1] \in [IDs -> Nat]
      BY DEF TypeOK
    <3> QED  BY <2>1, <3>1, <3>2 DEF TypeOK
  <2> QED  BY <1>5, <2>1, <2>2, <2>3 DEF Retry, TypeOK
<1>6. ASSUME NEW ack \in acks, ReceiveAck(ack) \/ LoseAck(ack) PROVE TypeOK'
  BY <1>6 DEF ReceiveAck, LoseAck, TypeOK
<1>7. ASSUME NEW s \in Slaves, LoseMessage(s) PROVE TypeOK'
  BY <1>7, TakeOffType DEF LoseMessage, TypeOK
<1>8. ASSUME NEW s \in Slaves, DeliverHallAssignment(s) PROVE TypeOK'
  <2>1. wire' \in [Slaves -> Seq(Message)] /\ Head(wire[s]) \in Message
    BY <1>8, TakeOffType DEF DeliverHallAssignment, TypeOK
  <2>2. /\ acks' \subseteq Ack /\ lastID' \in [Slaves -> IDs \cup {NoID}]
        /\ orders' \in [Slaves -> Seq(IDs)]
    <3> DEFINE m == Head(wire[s])
    <3>1. m.MessageID \in IDs /\ [NodeID |-> s, MessageID |-> m.MessageID] \in Ack
      BY <2>1 DEF Message, Ack
    <3> HIDE DEF m
    <3>2. ReceiveHallAssignment(s, m)
      BY <1>8 DEF DeliverHallAssignment, m
    <3>3. orders \in [Slaves -> Seq(IDs)] /\ Append(orders[s], m.MessageID) \in Seq(IDs)
      BY <3>1 DEF TypeOK
    <3> QED  BY <3>1, <3>2, <3>3 DEF ReceiveHallAssignment, TypeOK
  <2> QED  BY <1>8, <2>1, <2>2 DEF DeliverHallAssignment, ReceiveHallAssignment, TypeOK
<1>9. ASSUME NEW s \in Slaves, ReceiveGlobalHallRequest(s) \/ ReenterSlaveProgram(s) PROVE TypeOK'
  <2>1. CASE ReceiveGlobalHallRequest(s)
    <3>1. lights' \in [Slaves -> Nat] /\ known' \in [Slaves -> SUBSET HallCalls]
      BY <2>1 DEF ReceiveGlobalHallRequest, TypeOK
    <3> QED  BY <2>1, <3>1 DEF ReceiveGlobalHallRequest, TypeOK
  <2>2. CASE ReenterSlaveProgram(s)
    BY <2>2 DEF ReenterSlaveProgram, TypeOK
  <2> QED  BY <1>9, <2>1, <2>2
<1>10. ASSUME UpdateWithoutDistribution PROVE TypeOK'
  BY <1>10 DEF UpdateWithoutDistribution, TypeOK
<1>11. ASSUME NEW s \in Slaves, ElevatorTakesOrder(s) PROVE TypeOK'
  <2>1. orders[s] \in Seq(IDs) /\ orders[s] # <<>>
    BY <1>11 DEF ElevatorTakesOrder, TypeOK
  <2>2. Head(orders[s]) \in IDs /\ Tail(orders[s]) \in Seq(IDs)
    BY <2>1, HeadTailProperties
  <2>3. orders' \in [Slaves -> Seq(IDs)] /\ inForce' \in [Slaves -> IDs \cup {NoID}]
    BY <1>11, <2>2 DEF ElevatorTakesOrder, TypeOK
  <2> QED  BY <1>11, <2>3 DEF ElevatorTakesOrder, TypeOK
<1>12. ASSUME NEW s \in Slaves, ElevatorTakesLights(s) \/ ElevatorSends(s) PROVE TypeOK'
  <2>1. CASE ElevatorTakesLights(s)
    <3>1. lights' \in [Slaves -> Nat]
      BY <2>1 DEF ElevatorTakesLights, TypeOK
    <3> QED  BY <2>1, <3>1 DEF ElevatorTakesLights, TypeOK
  <2>2. CASE ElevatorSends(s)
    BY <2>2 DEF ElevatorSends, TypeOK
  <2> QED  BY <1>12, <2>1, <2>2
<1>13. CASE UNCHANGED vars
  BY <1>13 DEF vars, TypeOK
<1> QED
  BY <1>1, <1>2, <1>3, <1>4, <1>5, <1>6, <1>7, <1>8, <1>9, <1>10, <1>11, <1>12, <1>13 DEF Next

\* Every variable keeps its type, for any slaves, calls and bounds.
THEOREM TypeCorrect == Spec => []TypeOK
  BY InitType, StepType, PTL DEF Spec

-----------------------------------------------------------------------------
(* Resends.                                                                *)

ResendInv == TypeOK /\ FreshIDs /\ OneResendAhead /\ (\A m \in active : m.MessageID < nextID)

\* At the start there is no timer, and nothing waits.
LEMMA InitResend == Init => ResendInv
  BY InitType DEF Init, ResendInv, FreshIDs, OneResendAhead, Waits

\* An id joins the channel at its end and leaves it at its head.
LEMMA ChannelAppend ==
  ASSUME NEW q \in Seq(IDs), NEW id \in IDs, NEW x \in IDs
  PROVE  /\ Waits(x, Append(q, id)) <=> Waits(x, q) \/ x = id
         /\ WaitsOnce(x, q) /\ x # id => WaitsOnce(x, Append(q, id))
         /\ ~Waits(id, q) => WaitsOnce(id, Append(q, id))
<1> DEFINE r == Append(q, id)
<1>1. /\ Len(q) \in Nat /\ DOMAIN q = 1 .. Len(q) /\ DOMAIN r = 1 .. Len(q) + 1
      /\ \A i \in 1 .. Len(q) : r[i] = q[i]
      /\ r[Len(q) + 1] = id
  OBVIOUS
<1> HIDE DEF r
<1>2. \A i \in DOMAIN r : (i \in DOMAIN q /\ r[i] = q[i]) \/ (i = Len(q) + 1 /\ r[i] = id)
  BY <1>1
<1>3. Waits(x, r) <=> Waits(x, q) \/ x = id
  <2>1. Waits(x, q) => Waits(x, r)
    BY <1>1 DEF Waits
  <2>2. Len(q) + 1 \in DOMAIN r
    BY <1>1
  <2>3. x = id => Waits(x, r)
    BY <1>1, <2>2 DEF Waits
  <2>4. Waits(x, r) => Waits(x, q) \/ x = id
    BY <1>2 DEF Waits
  <2> QED  BY <2>1, <2>3, <2>4
<1>4. ASSUME WaitsOnce(x, q), x # id PROVE WaitsOnce(x, r)
  BY <1>2, <1>3, <1>4 DEF WaitsOnce
<1>5. ASSUME ~Waits(id, q) PROVE WaitsOnce(id, r)
  <2>1. Waits(id, r)
    BY <1>1 DEF Waits
  <2> QED  BY <1>2, <1>5, <2>1 DEF WaitsOnce, Waits
<1> QED  BY <1>3, <1>4, <1>5 DEF r

\* Taking the head off a channel leaves the other ids as they were, and takes the head's only copy.
LEMMA ChannelTail ==
  ASSUME NEW q \in Seq(IDs), q # <<>>, NEW x \in IDs
  PROVE  /\ Head(q) \in IDs /\ Tail(q) \in Seq(IDs)
         /\ x # Head(q) => (Waits(x, Tail(q)) <=> Waits(x, q))
         /\ ~Waits(x, q) => ~Waits(x, Tail(q))
         /\ WaitsOnce(x, q) /\ x # Head(q) => WaitsOnce(x, Tail(q))
         /\ WaitsOnce(x, q) /\ x = Head(q) => ~Waits(x, Tail(q))
         /\ Waits(Head(q), q)
<1> DEFINE r == Tail(q)
<1>1. /\ Len(q) \in Nat \ {0} /\ DOMAIN q = 1 .. Len(q) /\ DOMAIN r = 1 .. Len(q) - 1
      /\ \A i \in 1 .. Len(q) - 1 : r[i] = q[i + 1]
      /\ Head(q) = q[1] /\ Head(q) \in IDs /\ r \in Seq(IDs)
  OBVIOUS
<1> HIDE DEF r
<1>2. \A i \in DOMAIN r : i + 1 \in DOMAIN q /\ r[i] = q[i + 1] /\ i + 1 # 1 /\ i \in Int
  <2>1. ASSUME NEW i \in DOMAIN r PROVE i \in Int /\ 1 <= i /\ i <= Len(q) - 1
    BY <1>1, <2>1
  <2>2. ASSUME NEW i \in DOMAIN r PROVE i + 1 \in DOMAIN q /\ r[i] = q[i + 1] /\ i + 1 # 1
    <3>1. i \in 1 .. Len(q) - 1 /\ i + 1 \in 1 .. Len(q)
      BY <1>1, <2>1, <2>2
    <3> QED  BY <1>1, <2>1, <3>1
  <2> QED  BY <2>1, <2>2
<1>3. \A i \in DOMAIN q : i \in Int /\ (i = 1 \/ (i - 1 \in DOMAIN r /\ q[i] = r[i - 1]))
  BY <1>1
<1>4. x # Head(q) => (Waits(x, r) <=> Waits(x, q))
  BY <1>1, <1>2, <1>3 DEF Waits
<1>5. ~Waits(x, q) => ~Waits(x, r)
  BY <1>2 DEF Waits
<1>6. ASSUME WaitsOnce(x, q), x # Head(q) PROVE WaitsOnce(x, r)
  <2>1. \A i, j \in DOMAIN r : r[i] = x /\ r[j] = x => i + 1 = j + 1
    BY <1>2, <1>6 DEF WaitsOnce
  <2> QED  BY <1>2, <1>4, <1>6, <2>1 DEF WaitsOnce
<1>7. ASSUME WaitsOnce(x, q), x = Head(q) PROVE ~Waits(x, r)
  <2>1. 1 \in DOMAIN q /\ q[1] = x
    BY <1>1, <1>7
  <2>2. ASSUME NEW i \in DOMAIN r, r[i] = x PROVE FALSE
    <3>1. i + 1 \in DOMAIN q /\ q[i + 1] = x /\ i + 1 # 1
      BY <1>2, <2>2
    <3> QED  BY <1>7, <2>1, <3>1 DEF WaitsOnce
  <2> QED  BY <2>2 DEF Waits
<1>8. Waits(Head(q), q)
  <2>1. 1 \in DOMAIN q /\ q[1] = Head(q)
    BY <1>1
  <2> QED  BY <2>1 DEF Waits
<1> QED  BY <1>1, <1>4, <1>5, <1>6, <1>7, <1>8 DEF r

\* Steps that leave timers, channel, fresh ids alone and drop no more than messages from active.
LEMMA ResendFrame ==
  ASSUME ResendInv, TypeOK', UNCHANGED <<timers, timeoutChannel, nextID>>, active' \subseteq active
  PROVE  ResendInv'
  BY DEF ResendInv, FreshIDs, OneResendAhead, ResendAhead

\* Every step keeps one resend ahead of every active message, and fresh ids fresh.
LEMMA StepResend == ResendInv /\ [Next]_vars => ResendInv'
<1> SUFFICES ASSUME ResendInv, [Next]_vars PROVE ResendInv'
  OBVIOUS
<1>0. /\ TypeOK /\ TypeOK' /\ timers \in [IDs -> Nat] /\ timeoutChannel \in Seq(IDs)
      /\ nextID \in Nat
  <2>1. TypeOK /\ TypeOK'
    BY StepType DEF ResendInv
  <2>2. timers \in [IDs -> Nat] /\ timeoutChannel \in Seq(IDs) /\ nextID \in Nat
    BY <2>1 DEF TypeOK
  <2> QED  BY <2>1, <2>2
<1>00. \A m \in active : m.MessageID \in IDs /\ m.MessageID < nextID /\ ResendAhead(m.MessageID)
  BY <1>0 DEF ResendInv, OneResendAhead, TypeOK, Message
<1>1. ASSUME NEW s \in Slaves, NEW calls \in SUBSET HallCalls, NewAssignment(s, calls)
      PROVE ResendInv'
  <2> DEFINE m == [NodeID |-> s, HallAssignment |-> calls, MessageID |-> nextID]
  <2>1. /\ nextID \in IDs /\ nextID' = nextID + 1 /\ timeoutChannel' = timeoutChannel
        /\ timers' = [timers EXCEPT ![nextID] = @ + 1]
        /\ active' = {old \in active : old.NodeID # s} \cup {m} /\ m.MessageID = nextID
    BY <1>1 DEF NewAssignment
  <2> HIDE DEF m
  <2>2. timers[nextID] = 0 /\ ~Waits(nextID, timeoutChannel)
    BY <1>0, <2>1 DEF ResendInv, FreshIDs
  <2>3. \A id \in IDs : timers'[id] = IF id = nextID THEN timers[id] + 1 ELSE timers[id]
    BY <1>0, <2>1
  <2>4. ASSUME NEW id \in IDs, id = nextID PROVE ResendAhead(id)'
    BY <2>1, <2>2, <2>3, <2>4 DEF ResendAhead
  <2>5. ASSUME NEW old \in active PROVE old.MessageID < nextID' /\ ResendAhead(old.MessageID)'
    <3>1. old.MessageID \in IDs /\ old.MessageID < nextID /\ ResendAhead(old.MessageID)
      BY <1>00
    <3> QED  BY <1>0, <2>1, <2>3, <3>1 DEF ResendAhead
  <2>6. \A n \in active' : n.MessageID < nextID' /\ ResendAhead(n.MessageID)'
    <3>1. SUFFICES ASSUME NEW n \in active' PROVE n.MessageID < nextID' /\ ResendAhead(n.MessageID)'
      OBVIOUS
    <3>2. CASE n \in active
      BY <2>5, <3>2
    <3>3. CASE n.MessageID = nextID
      BY <1>0, <2>1, <2>4, <3>3
    <3> QED  BY <2>1, <3>2, <3>3
  <2>7. FreshIDs'
    BY <1>0, <2>1, <2>3 DEF ResendInv, FreshIDs
  <2> QED  BY <1>0, <2>6, <2>7 DEF ResendInv, OneResendAhead
<1>2. ASSUME NEW id \in IDs, TimerFires(id) PROVE ResendInv'
  <2>1. /\ timers[id] > 0 /\ timers' = [timers EXCEPT ![id] = @ - 1]
        /\ timeoutChannel' = Append(timeoutChannel, id) /\ UNCHANGED <<active, nextID>>
    BY <1>2 DEF TimerFires
  <2>2. \A x \in IDs : timers'[x] = IF x = id THEN timers[x] - 1 ELSE timers[x]
    BY <1>0, <2>1
  <2>3. \A x \in IDs : /\ Waits(x, timeoutChannel') <=> Waits(x, timeoutChannel) \/ x = id
                       /\ WaitsOnce(x, timeoutChannel) /\ x # id => WaitsOnce(x, timeoutChannel')
                       /\ ~Waits(id, timeoutChannel) => WaitsOnce(id, timeoutChannel')
    BY <1>0, <2>1, ChannelAppend
  <2>4. FreshIDs'
    BY <1>0, <2>1, <2>2, <2>3 DEF ResendInv, FreshIDs
  <2>5. ASSUME NEW m \in active PROVE ResendAhead(m.MessageID)'
    <3>1. m.MessageID \in IDs /\ ResendAhead(m.MessageID)
      BY <1>00
    <3> QED  BY <1>0, <2>1, <2>2, <2>3, <3>1 DEF ResendAhead
  <2> QED  BY <1>0, <2>1, <2>4, <2>5 DEF ResendInv, OneResendAhead
<1>3. ASSUME Retry PROVE ResendInv'
  <2> DEFINE id == Head(timeoutChannel)
  <2>1. /\ timeoutChannel # <<>> /\ timeoutChannel' = Tail(timeoutChannel)
        /\ UNCHANGED <<active, nextID>>
        /\ \/ (\E m \in active : m.MessageID = id) /\ timers' = [timers EXCEPT ![id] = @ + 1]
           \/ (\A m \in active : m.MessageID # id) /\ timers' = timers
    BY <1>3 DEF Retry
  <2>2. \A x \in IDs :
           /\ id \in IDs
           /\ x # id => (Waits(x, timeoutChannel') <=> Waits(x, timeoutChannel))
           /\ ~Waits(x, timeoutChannel) => ~Waits(x, timeoutChannel')
           /\ WaitsOnce(x, timeoutChannel) /\ x # id => WaitsOnce(x, timeoutChannel')
           /\ WaitsOnce(x, timeoutChannel) /\ x = id => ~Waits(x, timeoutChannel')
           /\ Waits(id, timeoutChannel)
    BY <1>0, <2>1, ChannelTail
  <2> HIDE DEF id
  <2>3. \A x \in IDs : x # id => timers'[x] = timers[x]
    BY <1>0, <2>1
  <2>4. FreshIDs'
    <3>1. ASSUME NEW x \in IDs, x >= nextID PROVE timers'[x] = 0 /\ ~Waits(x, timeoutChannel')
      <4>1. timers[x] = 0 /\ ~Waits(x, timeoutChannel)
        BY <3>1 DEF ResendInv, FreshIDs
      <4>2. x # id
        BY <2>2, <4>1
      <4> QED  BY <2>2, <2>3, <4>1, <4>2
    <3> QED  BY <2>1, <3>1 DEF FreshIDs
  <2>5. ASSUME NEW m \in active PROVE ResendAhead(m.MessageID)'
    <3>1. m.MessageID \in IDs /\ ResendAhead(m.MessageID)
      BY <1>00
    <3>2. CASE m.MessageID = id
      <4>1. timers[id] = 0 /\ ~Waits(id, timeoutChannel')
        BY <2>2, <3>1, <3>2 DEF ResendAhead
      <4>2. timers'[id] = 1
        BY <1>0, <2>1, <2>2, <3>1, <3>2, <4>1
      <4> QED  BY <3>2, <4>1, <4>2 DEF ResendAhead
    <3>3. CASE m.MessageID # id
      BY <2>2, <2>3, <3>1, <3>3 DEF ResendAhead
    <3> QED  BY <3>2, <3>3
  <2> QED  BY <1>0, <2>1, <2>4, <2>5 DEF ResendInv, OneResendAhead
<1>4. CASE \/ \E call \in HallCalls : NewHallRequest(call) \/ HallRequestDone(call)
           \/ \E on \in BOOLEAN : EnableTransmitter(on)
           \/ \E ack \in acks : ReceiveAck(ack) \/ LoseAck(ack)
           \/ \E s \in Slaves : \/ LoseMessage(s) \/ DeliverHallAssignment(s)
                                \/ ReceiveGlobalHallRequest(s) \/ ReenterSlaveProgram(s)
                                \/ ElevatorTakesOrder(s) \/ ElevatorTakesLights(s) \/ ElevatorSends(s)
           \/ UpdateWithoutDistribution \/ UNCHANGED vars
  <2>1. UNCHANGED <<timers, timeoutChannel, nextID>> /\ active' \subseteq active
    BY <1>4
    DEF NewHallRequest, HallRequestDone, EnableTransmitter, ReceiveAck, LoseAck, LoseMessage,
        DeliverHallAssignment, ReceiveHallAssignment, ReceiveGlobalHallRequest,
        ReenterSlaveProgram, ElevatorTakesOrder, ElevatorTakesLights, ElevatorSends,
        UpdateWithoutDistribution, vars, masterVars
  <2> QED  BY <1>0, <2>1, ResendFrame
<1> QED  BY <1>1, <1>2, <1>3, <1>4 DEF Next

\* Every unacknowledged assignment has exactly one resend ahead of it, for ever.
THEOREM ResendsNeverStop == Spec => []OneResendAhead
<1>1. ResendInv => OneResendAhead
  BY DEF ResendInv
<1> QED  BY <1>1, InitResend, StepResend, PTL DEF Spec

-----------------------------------------------------------------------------
(* Order.                                                                  *)

\* A message at least as new as all on the wire keeps the wire sorted.
LEMMA SortedAppend ==
  ASSUME NEW q \in Seq(Message), NEW m \in Message, NEW lo \in Int, NEW hi \in Int,
         Sorted(q), Within(q, lo, m.MessageID), lo <= m.MessageID, m.MessageID <= hi
  PROVE  Sorted(Append(q, m)) /\ Within(Append(q, m), lo, hi)
<1> DEFINE r == Append(q, m)
<1>1. /\ Len(q) \in Nat /\ DOMAIN q = 1 .. Len(q) /\ DOMAIN r = 1 .. Len(q) + 1
      /\ \A i \in 1 .. Len(q) : r[i] = q[i] /\ q[i] \in Message
      /\ r[Len(q) + 1] = m
  OBVIOUS
<1> HIDE DEF r
<1>0. \A n \in Message : n.MessageID \in Int
  BY DEF Message
<1>2. \A i \in DOMAIN r : i \in Int /\ ((i \in DOMAIN q /\ r[i] = q[i] /\ i <= Len(q))
                                        \/ (i = Len(q) + 1 /\ r[i] = m))
  BY <1>1
<1>3. Within(r, lo, m.MessageID)
  BY <1>0, <1>1, <1>2 DEF Within
<1>4. Within(r, lo, hi)
  BY <1>0, <1>1, <1>2, <1>3 DEF Within
<1>5. Sorted(r)
  BY <1>0, <1>1, <1>2, <1>3 DEF Sorted, Within
<1> QED  BY <1>4, <1>5 DEF r

\* The first message of a sorted wire is the oldest on it.
LEMMA SortedTail ==
  ASSUME NEW q \in Seq(Message), q # <<>>, NEW lo \in Int, NEW hi \in Int,
         Sorted(q), Within(q, lo, hi)
  PROVE  /\ Sorted(Tail(q)) /\ Within(Tail(q), lo, hi)
         /\ Within(Tail(q), Head(q).MessageID, hi)
         /\ lo <= Head(q).MessageID /\ Head(q).MessageID <= hi
<1> DEFINE r == Tail(q)
<1>1. /\ Len(q) \in Nat \ {0} /\ DOMAIN q = 1 .. Len(q) /\ DOMAIN r = 1 .. Len(q) - 1
      /\ \A i \in 1 .. Len(q) - 1 : r[i] = q[i + 1]
      /\ Head(q) = q[1]
  OBVIOUS
<1> HIDE DEF r
<1>2. \A i \in DOMAIN r : i \in Int /\ 1 <= i + 1 /\ i + 1 \in DOMAIN q /\ r[i] = q[i + 1]
  BY <1>1
<1>3. 1 \in DOMAIN q
  BY <1>1
<1>4. Sorted(r)
  BY <1>2 DEF Sorted
<1>5. Within(r, lo, hi)
  BY <1>2 DEF Within
<1>6. Within(r, Head(q).MessageID, hi)
  BY <1>1, <1>2, <1>3 DEF Within, Sorted
<1>7. lo <= Head(q).MessageID /\ Head(q).MessageID <= hi
  BY <1>1, <1>3 DEF Within
<1> QED  BY <1>4, <1>5, <1>6, <1>7 DEF r

\* What is appended to a sequence is its last.
LEMMA LastOfAppend ==
  ASSUME NEW S, NEW q \in Seq(S), NEW x \in S
  PROVE  Append(q, x) # <<>> /\ Append(q, x)[Len(Append(q, x))] = x
  OBVIOUS

\* Taking the head off a sequence leaves its last, unless the head was the last.
LEMMA LastOfTail ==
  ASSUME NEW S, NEW q \in Seq(S), q # <<>>
  PROVE  /\ Tail(q) = <<>> => Head(q) = q[Len(q)]
         /\ Tail(q) # <<>> => Tail(q)[Len(Tail(q))] = q[Len(q)]
<1>1. ASSUME Tail(q) = <<>> PROVE Head(q) = q[Len(q)]
  <2> DEFINE r == Tail(q)
  <2>1. Len(r) = Len(q) - 1 /\ Len(q) \in Nat /\ Head(q) = q[1]
    BY HeadTailProperties
  <2> HIDE DEF r
  <2>2. r = <<>>
    BY <1>1 DEF r
  <2>3. Len(q) = 1
    BY <2>1, <2>2, EmptySeq
  <2> QED  BY <2>1, <2>3
<1>2. ASSUME Tail(q) # <<>> PROVE Tail(q)[Len(Tail(q))] = q[Len(q)]
  <2>1. Len(Tail(q)) = Len(q) - 1 /\ Len(q) \in Nat /\ Tail(q) \in Seq(S)
    OBVIOUS
  <2>2. Len(Tail(q)) # 0
    BY <1>2, <2>1
  <2>3. Len(q) - 1 \in 1 .. Len(q) - 1 /\ Len(q) - 1 + 1 = Len(q)
    BY <2>1, <2>2
  <2>4. Tail(q)[Len(q) - 1] = q[Len(q) - 1 + 1]
    BY <2>1, <2>3
  <2> QED  BY <2>1, <2>3, <2>4
<1> QED  BY <1>1, <1>2

\* What TypeOK says of the order's ingredients.
LEMMA OrderTypes ==
  ASSUME TypeOK
  PROVE  /\ nextID \in 1 .. MaxMessages + 1 /\ latest \in [Slaves -> 0 .. MaxMessages]
         /\ wire \in [Slaves -> Seq(Message)] /\ inForce \in [Slaves -> 0 .. MaxMessages]
         /\ lastID \in [Slaves -> 0 .. MaxMessages] /\ orders \in [Slaves -> Seq(1 .. MaxMessages)]
         /\ \A m \in Message : m.MessageID \in 1 .. MaxMessages /\ m.NodeID \in Slaves
         /\ \A ack \in acks : ack.MessageID \in 1 .. MaxMessages /\ ack.NodeID \in Slaves
         /\ active \subseteq Message
         /\ \A s \in Slaves : Newest(s) \in Int /\ LastOrder(s) \in 0 .. MaxMessages
<1>1. latest \in [Slaves -> 0 .. MaxMessages] /\ inForce \in [Slaves -> 0 .. MaxMessages]
      /\ lastID \in [Slaves -> 0 .. MaxMessages] /\ orders \in [Slaves -> Seq(1 .. MaxMessages)]
  BY DEF TypeOK
<1>2. /\ nextID \in 1 .. MaxMessages + 1 /\ wire \in [Slaves -> Seq(Message)]
      /\ active \subseteq Message
  BY DEF TypeOK
<1>3. \A m \in Message : m.MessageID \in 1 .. MaxMessages /\ m.NodeID \in Slaves
  BY DEF Message
<1>4. \A ack \in acks : ack.MessageID \in 1 .. MaxMessages /\ ack.NodeID \in Slaves
  BY DEF TypeOK, Ack
<1>5. \A s \in Slaves : Newest(s) \in Int
  BY <1>1, <1>2 DEF Newest
<1>6. ASSUME NEW s \in Slaves PROVE LastOrder(s) \in 0 .. MaxMessages
  <2>1. orders[s] \in Seq(1 .. MaxMessages) /\ inForce[s] \in 0 .. MaxMessages
    BY <1>1
  <2>2. orders[s] # <<>> => orders[s][Len(orders[s])] \in 1 .. MaxMessages
    BY <2>1
  <2> QED  BY <2>1, <2>2 DEF LastOrder
<1> QED  BY <1>1, <1>2, <1>3, <1>4, <1>5, <1>6

\* The elevator's channel is left alone.
LEMMA ChannelFrame ==
  ASSUME NEW t \in Slaves, orders'[t] = orders[t], inForce'[t] = inForce[t]
  PROVE  LastOrder(t)' = LastOrder(t) /\ (ChannelOrdered(t) => ChannelOrdered(t)')
  BY DEF LastOrder, ChannelOrdered

\* Everything in an ordered channel lies between what is in force and the last order.
LEMMA ChannelBounds ==
  ASSUME TypeOK, NEW s \in Slaves, ChannelOrdered(s)
  PROVE  /\ inForce[s] <= LastOrder(s)
         /\ \A i \in DOMAIN orders[s] : orders[s][i] \in Int /\ orders[s][i] <= LastOrder(s)
<1> DEFINE q == orders[s]
<1>1. /\ q \in Seq(1 .. MaxMessages) /\ inForce[s] \in Int
      /\ Len(q) \in Nat /\ DOMAIN q = 1 .. Len(q)
  BY OrderTypes
<1>2. /\ \A i \in DOMAIN q : q[i] \in Int /\ i <= Len(q) /\ q # <<>>
      /\ q # <<>> => Len(q) \in DOMAIN q
  BY <1>1
<1>3. q = <<>> => LastOrder(s) = inForce[s]
  BY DEF LastOrder
<1>4. q # <<>> => LastOrder(s) = q[Len(q)]
  BY DEF LastOrder
<1>5. inForce[s] <= LastOrder(s)
  BY <1>1, <1>2, <1>3, <1>4 DEF ChannelOrdered
<1>6. ASSUME NEW i \in DOMAIN q PROVE q[i] \in Int /\ q[i] <= LastOrder(s)
  BY <1>2, <1>4 DEF ChannelOrdered
<1> QED  BY <1>5, <1>6

\* An order joins the channel behind the others: it is then the last accepted.
LEMMA AcceptOrder ==
  ASSUME TypeOK, NEW s \in Slaves, ChannelOrdered(s), NEW id \in IDs, LastOrder(s) <= id,
         orders'[s] = Append(orders[s], id), inForce'[s] = inForce[s]
  PROVE  ChannelOrdered(s)' /\ LastOrder(s)' = id
<1> DEFINE q == orders[s]
           r == Append(q, id)
<1>1. /\ q \in Seq(IDs) /\ Len(q) \in Nat /\ DOMAIN q = 1 .. Len(q) /\ DOMAIN r = 1 .. Len(q) + 1
      /\ \A i \in 1 .. Len(q) : r[i] = q[i]
      /\ r[Len(q) + 1] = id
  BY OrderTypes
<1>2. r # <<>> /\ r[Len(r)] = id
  BY <1>1, LastOfAppend
<1>3. /\ inForce[s] <= LastOrder(s) /\ inForce[s] \in Int /\ LastOrder(s) \in Int
      /\ \A i \in DOMAIN q : q[i] \in Int /\ q[i] <= LastOrder(s)
  BY ChannelBounds, OrderTypes
<1> HIDE DEF r
<1>4. \A i \in DOMAIN r : i \in Int /\ ((i \in DOMAIN q /\ r[i] = q[i] /\ i <= Len(q))
                                        \/ (i = Len(q) + 1 /\ r[i] = id))
  BY <1>1
<1>5. \A i \in DOMAIN r : r[i] \in Int /\ r[i] <= id /\ inForce[s] <= r[i]
  BY <1>3, <1>4 DEF ChannelOrdered
<1>6. \A i, j \in DOMAIN r : i <= j => r[i] <= r[j]
  BY <1>1, <1>4, <1>5 DEF ChannelOrdered
<1>7. orders'[s] = r
  BY DEF r
<1> HIDE DEF q
<1> QED  BY <1>2, <1>5, <1>6, <1>7 DEF LastOrder, ChannelOrdered

\* The elevator takes the first order of its channel: it is not older than the one it had, and
\* the last accepted stays the last.
LEMMA TakeOrder ==
  ASSUME TypeOK, NEW s \in Slaves, ChannelOrdered(s), orders[s] # <<>>,
         orders'[s] = Tail(orders[s]), inForce'[s] = Head(orders[s])
  PROVE  /\ ChannelOrdered(s)' /\ LastOrder(s)' = LastOrder(s)
         /\ inForce'[s] >= inForce[s]
<1> DEFINE q == orders[s]
           r == Tail(q)
<1>1. /\ q \in Seq(IDs) /\ Len(q) \in Nat \ {0} /\ DOMAIN q = 1 .. Len(q)
      /\ DOMAIN r = 1 .. Len(q) - 1 /\ Head(q) = q[1] /\ Head(q) \in IDs
      /\ \A i \in 1 .. Len(q) - 1 : r[i] = q[i + 1]
  BY OrderTypes
<1>2. /\ r = <<>> => Head(q) = q[Len(q)]
      /\ r # <<>> => r[Len(r)] = q[Len(q)]
  BY <1>1, LastOfTail
<1>3. inForce[s] \in Int /\ \A i \in DOMAIN q : q[i] \in Int
  BY <1>1, OrderTypes
<1> HIDE DEF r
<1>4. \A i \in DOMAIN r : i \in Int /\ 1 <= i + 1 /\ i + 1 \in DOMAIN q /\ r[i] = q[i + 1]
  BY <1>1
<1>5. 1 \in DOMAIN q
  BY <1>1
<1>6. inForce[s] <= Head(q)
  BY <1>1, <1>5 DEF ChannelOrdered
<1>7. \A i \in DOMAIN r : Head(q) <= r[i]
  BY <1>1, <1>4, <1>5 DEF ChannelOrdered
<1>8. \A i, j \in DOMAIN r : i <= j => r[i] <= r[j]
  BY <1>4 DEF ChannelOrdered
<1>9. orders'[s] = r /\ orders[s] # <<>>
  BY DEF r
<1>10. LastOrder(s)' = LastOrder(s)
  BY <1>2, <1>9 DEF LastOrder
<1>11. ChannelOrdered(s)'
  BY <1>7, <1>8, <1>9 DEF ChannelOrdered
<1> QED  BY <1>1, <1>3, <1>6, <1>10, <1>11

\* Nothing is on the way at the start.
LEMMA InitOrder == Init => OrderInv
<1> SUFFICES ASSUME Init PROVE OrderInv
  OBVIOUS
<1>1. TypeOK
  BY InitType
<1>2. \A s \in Slaves : LastOrder(s) = 0
  BY DEF Init, LastOrder
<1>3. OnlyLatestActive /\ AcksHonest /\ AcknowledgedIsAccepted
  BY <1>2 DEF Init, OnlyLatestActive, AcksHonest, AcknowledgedIsAccepted
<1>4. ASSUME NEW s \in Slaves PROVE WireOrdered(s) /\ ChannelOrdered(s)
  <2>1. wire[s] = <<>> /\ orders[s] = <<>> /\ latest[s] = 0 /\ nextID = 1
    BY DEF Init
  <2>2. DOMAIN wire[s] = {} /\ DOMAIN orders[s] = {}
    BY <2>1
  <2> QED  BY <1>2, <2>1, <2>2 DEF WireOrdered, ChannelOrdered, Sorted, Within, Newest
<1> QED  BY <1>1, <1>3, <1>4 DEF OrderInv

\* A slave whose wire and elevator are left alone stays in order when assignments get newer.
LEMMA OrderFrame ==
  ASSUME TypeOK, TypeOK', NEW t \in Slaves, WireOrdered(t),
         wire'[t] = wire[t], LastOrder(t)' = LastOrder(t), Newest(t) <= Newest(t)', latest'[t] < nextID'
  PROVE  WireOrdered(t)'
<1>1. Newest(t) \in Int /\ Newest(t)' \in Int /\ LastOrder(t) \in Int
  <2>1. latest'[t] \in Int /\ nextID' \in Int
    BY DEF TypeOK
  <2> QED  BY <2>1, OrderTypes DEF Newest
<1>2. \A i \in DOMAIN wire[t] : wire[t][i].MessageID \in Int
  BY OrderTypes
<1>3. Within(wire[t], LastOrder(t), Newest(t)')
  BY <1>1, <1>2 DEF WireOrdered, Within
<1> QED  BY <1>1, <1>3 DEF WireOrdered

\* Sending the newest assignment of its slave keeps that slave's wire in order.
LEMMA TransmitOrder ==
  ASSUME TypeOK, TypeOK', NEW m \in Message, NEW t \in Slaves, WireOrdered(t), Transmit(m),
         LastOrder(t)' = LastOrder(t), Newest(t) <= Newest(t)', latest'[t] < nextID',
         m.NodeID = t => m.MessageID = Newest(t)' /\ Newest(t) <= m.MessageID
  PROVE  WireOrdered(t)'
<1>1. /\ wire[t] \in Seq(Message) /\ LastOrder(t) \in Int /\ Newest(t) \in Int
      /\ m.MessageID \in Int /\ wire \in [Slaves -> Seq(Message)]
  BY OrderTypes
<1>2. CASE wire'[t] = wire[t]
  BY <1>2, OrderFrame
<1>3. CASE m.NodeID = t /\ wire'[t] = Append(wire[t], m)
  <2>1. \A i \in DOMAIN wire[t] : wire[t][i].MessageID \in Int
    <3>1. \A i \in DOMAIN wire[t] : wire[t][i] \in Message
      BY <1>1
    <3>2. \A n \in Message : n.MessageID \in Int
      BY DEF Message
    <3> QED  BY <3>1, <3>2
  <2>2. Sorted(wire[t]) /\ Within(wire[t], LastOrder(t), m.MessageID)
    BY <1>1, <1>3, <2>1 DEF WireOrdered, Within
  <2>3. LastOrder(t) <= m.MessageID /\ m.MessageID <= Newest(t)' /\ Newest(t)' \in Int
    BY <1>1, <1>3 DEF WireOrdered
  <2>4. Sorted(wire'[t]) /\ Within(wire'[t], LastOrder(t), Newest(t)')
    BY <1>1, <1>3, <2>2, <2>3, SortedAppend
  <2> QED  BY <1>1, <2>3, <2>4 DEF WireOrdered
<1> QED  BY <1>1, <1>2, <1>3 DEF Transmit

\* The step takes the first message off the wire to s and leaves that wire in order above it.
LEMMA TakeOffOrder ==
  ASSUME TypeOK, NEW s \in Slaves, WireOrdered(s), TakeOff(s)
  PROVE  /\ Sorted(wire'[s]) /\ Within(wire'[s], LastOrder(s), Newest(s))
         /\ Within(wire'[s], Head(wire[s]).MessageID, Newest(s))
         /\ LastOrder(s) <= Head(wire[s]).MessageID /\ Head(wire[s]).MessageID <= Newest(s)
         /\ \A t \in Slaves : t # s => wire'[t] = wire[t]
<1>1. /\ wire[s] \in Seq(Message) /\ LastOrder(s) \in Int /\ Newest(s) \in Int
      /\ wire \in [Slaves -> Seq(Message)]
  BY OrderTypes
<1>2. wire[s] # <<>> /\ wire'[s] = Tail(wire[s]) /\ \A t \in Slaves : t # s => wire'[t] = wire[t]
  BY <1>1 DEF TakeOff
<1> QED  BY <1>1, <1>2, SortedTail DEF WireOrdered

\* An assignment that the master makes.
LEMMA AssignOrder ==
  ASSUME OrderInv, TypeOK', NEW s \in Slaves, NEW calls \in SUBSET HallCalls, NewAssignment(s, calls)
  PROVE  OrderInv'
<1> DEFINE m == [NodeID |-> s, HallAssignment |-> calls, MessageID |-> nextID]
<1>0. TypeOK /\ TypeOK'
  BY DEF OrderInv
<1>1. /\ m \in Message /\ m.NodeID = s /\ m.MessageID = nextID
  BY DEF NewAssignment, Message
<1>2. /\ enable /\ enable' = enable /\ nextID \in IDs /\ nextID' = nextID + 1
      /\ active' = {old \in active : old.NodeID # s} \cup {m} /\ Transmit(m)
      /\ latest' = [latest EXCEPT ![s] = nextID]
      /\ UNCHANGED <<acks, orders, inForce, lastID>>
  BY DEF NewAssignment, slaveVars, elevatorVars
<1> HIDE DEF m
<1>3. \A t \in Slaves : latest'[t] = IF t = s THEN nextID ELSE latest[t]
  BY <1>0, <1>2, OrderTypes
<1>31. \A t \in Slaves : LastOrder(t)' = LastOrder(t) /\ ChannelOrdered(t)'
  BY <1>2, ChannelFrame DEF OrderInv
<1>4. ASSUME NEW t \in Slaves PROVE WireOrdered(t)'
  <2>1. WireOrdered(t) /\ latest[t] < nextID /\ LastOrder(t)' = LastOrder(t)
    BY <1>31 DEF OrderInv, WireOrdered
  <2>2. latest'[t] < nextID' /\ Newest(t) <= Newest(t)' /\ Newest(t) <= nextID
        /\ (t = s => Newest(t)' = nextID)
    <3>1. latest[t] \in Int /\ nextID \in Int
      BY <1>0, OrderTypes
    <3> QED  BY <1>2, <1>3, <2>1, <3>1 DEF Newest
  <2> QED  BY <1>0, <1>1, <1>2, <2>1, <2>2, TransmitOrder
<1>5. OnlyLatestActive'
  <2>1. SUFFICES ASSUME NEW n \in active' PROVE enable' /\ n.MessageID = latest'[n.NodeID]
    BY DEF OnlyLatestActive
  <2>2. CASE n \in active /\ n.NodeID # s
    <3>1. n.NodeID \in Slaves /\ n.MessageID = latest[n.NodeID]
      BY <1>0, <2>2, OrderTypes DEF OrderInv, OnlyLatestActive
    <3> QED  BY <1>2, <1>3, <2>2, <3>1
  <2>3. CASE n = m
    BY <1>1, <1>2, <1>3, <2>3
  <2> QED  BY <1>2, <2>2, <2>3
<1>6. AcksHonest'
  BY <1>0, <1>2, <1>31, OrderTypes DEF OrderInv, AcksHonest
<1>7. AcknowledgedIsAccepted'
  <2>1. SUFFICES ASSUME NEW t \in Slaves, latest'[t] # NoID, \A n \in active' : n.NodeID # t
                 PROVE  LastOrder(t)' = latest'[t]
    BY DEF AcknowledgedIsAccepted
  <2>2. t # s
    BY <1>1, <1>2, <2>1
  <2>3. latest[t] # NoID /\ \A n \in active : n.NodeID # t
    BY <1>2, <1>3, <2>1, <2>2
  <2> QED  BY <1>3, <1>31, <2>2, <2>3 DEF OrderInv, AcknowledgedIsAccepted
<1> QED  BY <1>0, <1>31, <1>4, <1>5, <1>6, <1>7 DEF OrderInv

\* The master comes or goes: nothing is active then, and older ids stay below fresh ones.
LEMMA EnableOrder ==
  ASSUME OrderInv, TypeOK', NEW on \in BOOLEAN, EnableTransmitter(on)
  PROVE  OrderInv'
<1>0. TypeOK /\ TypeOK'
  BY DEF OrderInv
<1>1. active' = {}
  <2>1. active' = IF on THEN active ELSE {}
    BY DEF EnableTransmitter
  <2>2. CASE on
    <3>1. ~enable
      BY <2>2, Zenon DEF EnableTransmitter
    <3> QED  BY <2>1, <3>1 DEF OrderInv, OnlyLatestActive
  <2> QED  BY <2>1, <2>2
<1>2. /\ \A t \in Slaves : latest'[t] = NoID
      /\ UNCHANGED <<nextID, wire, acks, orders, inForce, lastID>>
  BY DEF EnableTransmitter, slaveVars, elevatorVars
<1>21. \A t \in Slaves : LastOrder(t)' = LastOrder(t) /\ ChannelOrdered(t)'
  BY <1>2, ChannelFrame DEF OrderInv
<1>3. ASSUME NEW t \in Slaves PROVE WireOrdered(t)'
  <2>1. WireOrdered(t) /\ latest[t] < nextID
    BY DEF OrderInv, WireOrdered
  <2>2. latest'[t] < nextID' /\ Newest(t) <= Newest(t)'
    <3>1. latest[t] \in Int /\ nextID \in 1 .. MaxMessages + 1
      BY <1>0, OrderTypes
    <3> QED  BY <1>2, <2>1, <3>1 DEF Newest
  <2> QED  BY <1>0, <1>2, <1>21, <2>1, <2>2, OrderFrame
<1>4. OnlyLatestActive' /\ AcknowledgedIsAccepted'
  BY <1>1, <1>2 DEF OnlyLatestActive, AcknowledgedIsAccepted
<1>5. AcksHonest'
  BY <1>0, <1>2, <1>21, OrderTypes DEF OrderInv, AcksHonest
<1> QED  BY <1>0, <1>21, <1>3, <1>4, <1>5 DEF OrderInv

\* A resend, which is one of the newest assignment, or nothing.
LEMMA RetryOrder ==
  ASSUME OrderInv, TypeOK', Retry
  PROVE  OrderInv'
<1>0. TypeOK /\ TypeOK'
  BY DEF OrderInv
<1>1. UNCHANGED <<enable, active, nextID, latest, acks, orders, inForce, lastID>>
  BY DEF Retry, slaveVars, elevatorVars
<1>11. \A t \in Slaves : LastOrder(t)' = LastOrder(t) /\ ChannelOrdered(t)'
  BY <1>1, ChannelFrame DEF OrderInv
<1>2. ASSUME NEW t \in Slaves PROVE WireOrdered(t)'
  <2>1. WireOrdered(t) /\ latest'[t] < nextID' /\ Newest(t)' = Newest(t) /\ Newest(t) \in Int
        /\ LastOrder(t)' = LastOrder(t)
    BY <1>0, <1>1, <1>11, OrderTypes DEF OrderInv, WireOrdered, Newest
  <2>2. CASE wire' = wire
    BY <1>0, <1>1, <2>1, <2>2, OrderFrame
  <2>3. ASSUME NEW m \in active, Transmit(m) PROVE WireOrdered(t)'
    <3>1. m \in Message /\ m.MessageID \in 1 .. MaxMessages /\ m.MessageID = latest[m.NodeID]
      BY <1>0, OrderTypes DEF OrderInv, OnlyLatestActive
    <3>2. m.NodeID = t => m.MessageID = Newest(t)
      BY <3>1 DEF Newest
    <3> QED  BY <1>0, <1>1, <2>1, <2>3, <3>1, <3>2, TransmitOrder
  <2> QED  BY <2>2, <2>3 DEF Retry
<1>3. OnlyLatestActive' /\ AcknowledgedIsAccepted' /\ AcksHonest'
  BY <1>0, <1>1, <1>11, OrderTypes DEF OrderInv, OnlyLatestActive, AcknowledgedIsAccepted, AcksHonest
<1> QED  BY <1>0, <1>11, <1>2, <1>3 DEF OrderInv

\* An ack that arrives settles the assignment last accepted.
LEMMA AckOrder ==
  ASSUME OrderInv, TypeOK', NEW ack \in acks, ReceiveAck(ack)
  PROVE  OrderInv'
<1>0. TypeOK /\ TypeOK'
  BY DEF OrderInv
<1>1. /\ acks' = acks \ {ack}
      /\ active' = {m \in active : ~(m.NodeID = ack.NodeID /\ m.MessageID = ack.MessageID)}
      /\ UNCHANGED <<enable, nextID, latest, wire, orders, inForce, lastID>>
  BY DEF ReceiveAck, slaveVars, elevatorVars
<1>11. \A t \in Slaves : LastOrder(t)' = LastOrder(t) /\ ChannelOrdered(t)'
  BY <1>1, ChannelFrame DEF OrderInv
<1>2. \A t \in Slaves : WireOrdered(t)'
  BY <1>1, <1>11 DEF OrderInv, WireOrdered, Newest
<1>3. OnlyLatestActive' /\ AcksHonest'
  BY <1>0, <1>1, <1>11, OrderTypes DEF OrderInv, OnlyLatestActive, AcksHonest
<1>4. AcknowledgedIsAccepted'
  <2>1. SUFFICES ASSUME NEW t \in Slaves, latest[t] # NoID, \A m \in active' : m.NodeID # t
                 PROVE  LastOrder(t) = latest[t]
    BY <1>1, <1>11 DEF AcknowledgedIsAccepted
  <2>2. CASE \A m \in active : m.NodeID # t
    BY <2>1, <2>2 DEF OrderInv, AcknowledgedIsAccepted
  <2>3. ASSUME NEW m \in active, m.NodeID = t PROVE LastOrder(t) = latest[t]
    <3>1. m.NodeID = ack.NodeID /\ m.MessageID = ack.MessageID
      BY <1>1, <2>1, <2>3
    <3>2. m.MessageID = latest[t] /\ ack.MessageID <= LastOrder(t)
      BY <2>3, <3>1 DEF OrderInv, OnlyLatestActive, AcksHonest
    <3>3. LastOrder(t) <= latest[t]
      BY <2>1 DEF OrderInv, WireOrdered, Newest
    <3>4. LastOrder(t) \in Int /\ latest[t] \in Int
      BY <1>0, OrderTypes
    <3> QED  BY <3>1, <3>2, <3>3, <3>4
  <2> QED  BY <2>2, <2>3
<1> QED  BY <1>0, <1>11, <1>2, <1>3, <1>4 DEF OrderInv

\* A lost message only shortens a wire.
LEMMA LossOrder ==
  ASSUME OrderInv, TypeOK', NEW s \in Slaves, LoseMessage(s)
  PROVE  OrderInv'
<1>0. TypeOK /\ TypeOK'
  BY DEF OrderInv
<1>1. TakeOff(s) /\ UNCHANGED <<enable, active, nextID, latest, acks, orders, inForce, lastID>>
  BY DEF LoseMessage, masterVars, slaveVars, elevatorVars
<1>11. \A t \in Slaves : LastOrder(t)' = LastOrder(t) /\ ChannelOrdered(t)'
  BY <1>1, ChannelFrame DEF OrderInv
<1>2. ASSUME NEW t \in Slaves PROVE WireOrdered(t)'
  <2>1. WireOrdered(t) /\ WireOrdered(s)
    BY DEF OrderInv
  <2>2. Sorted(wire'[t]) /\ Within(wire'[t], LastOrder(t), Newest(t))
    BY <1>0, <1>1, <2>1, TakeOffOrder DEF WireOrdered
  <2> QED  BY <1>1, <1>11, <2>1, <2>2 DEF WireOrdered, Newest
<1>3. OnlyLatestActive' /\ AcknowledgedIsAccepted' /\ AcksHonest'
  BY <1>0, <1>1, <1>11, OrderTypes DEF OrderInv, OnlyLatestActive, AcknowledgedIsAccepted, AcksHonest
<1> QED  BY <1>0, <1>11, <1>2, <1>3 DEF OrderInv

\* An assignment that arrives is not older than the last accepted, and not newer than the latest.
LEMMA DeliverOrder ==
  ASSUME OrderInv, TypeOK', NEW s \in Slaves, DeliverHallAssignment(s)
  PROVE  OrderInv'
<1> DEFINE id == Head(wire[s]).MessageID
<1>0. TypeOK /\ TypeOK'
  BY DEF OrderInv
<1>1. /\ TakeOff(s) /\ UNCHANGED <<enable, active, nextID, latest, inForce>>
      /\ \/ UNCHANGED <<acks, lastID, orders>>
         \/ /\ acks' = acks \cup {[NodeID |-> s, MessageID |-> id]}
            /\ \/ /\ orders' = [orders EXCEPT ![s] = Append(@, id)]
                  /\ lastID' = [lastID EXCEPT ![s] = id]
               \/ id = lastID[s] /\ UNCHANGED <<lastID, orders>>
  BY DEF DeliverHallAssignment, ReceiveHallAssignment, masterVars
<1>2. /\ Sorted(wire'[s]) /\ Within(wire'[s], LastOrder(s), Newest(s)) /\ Within(wire'[s], id, Newest(s))
      /\ LastOrder(s) <= id /\ id <= Newest(s)
      /\ \A t \in Slaves : t # s => wire'[t] = wire[t]
  BY <1>0, <1>1, TakeOffOrder DEF OrderInv
<1>3. id \in 1 .. MaxMessages
  <2>1. Head(wire[s]) \in Message
    BY <1>0, <1>1, TakeOffType DEF TypeOK
  <2> QED  BY <1>0, <2>1, OrderTypes
<1> HIDE DEF id
<1>4. /\ \A t \in Slaves : t # s => orders'[t] = orders[t] /\ lastID'[t] = lastID[t]
      /\ \/ orders'[s] = orders[s] /\ lastID'[s] = lastID[s]
         \/ orders'[s] = Append(orders[s], id) /\ lastID'[s] = id
      /\ \/ acks' = acks
         \/ /\ acks' = acks \cup {[NodeID |-> s, MessageID |-> id]}
            /\ orders'[s] = Append(orders[s], id) \/ (orders'[s] = orders[s] /\ LastOrder(s) = id)
  <2>1. orders \in [Slaves -> Seq(1 .. MaxMessages)] /\ lastID \in [Slaves -> 0 .. MaxMessages]
    BY <1>0, OrderTypes
  <2>2. id = lastID[s] => LastOrder(s) = id
    BY <1>3 DEF OrderInv, AcksHonest
  <2> QED  BY <1>1, <2>1, <2>2
<1>5. /\ \A t \in Slaves : ChannelOrdered(t)'
      /\ \A t \in Slaves : t # s => LastOrder(t)' = LastOrder(t)
      /\ orders'[s] = orders[s] => LastOrder(s)' = LastOrder(s)
      /\ orders'[s] = Append(orders[s], id) => LastOrder(s)' = id
  <2>1. \A t \in Slaves : orders'[t] = orders[t] => LastOrder(t)' = LastOrder(t) /\ ChannelOrdered(t)'
    BY <1>1, ChannelFrame DEF OrderInv
  <2>2. orders'[s] = Append(orders[s], id) => LastOrder(s)' = id /\ ChannelOrdered(s)'
    BY <1>0, <1>1, <1>2, <1>3, AcceptOrder DEF OrderInv
  <2> QED  BY <1>4, <2>1, <2>2
<1>6. \A t \in Slaves : /\ LastOrder(t) \in Int /\ LastOrder(t)' \in Int /\ LastOrder(t) <= LastOrder(t)'
                        /\ Newest(t) \in Int
  <2>1. \A t \in Slaves : LastOrder(t) \in Int /\ Newest(t) \in Int
    BY <1>0, OrderTypes
  <2> QED  BY <1>2, <1>3, <1>4, <1>5, <2>1
<1>7. ASSUME NEW t \in Slaves PROVE WireOrdered(t)'
  <2>1. WireOrdered(t) /\ Newest(t)' = Newest(t) /\ latest'[t] < nextID'
    BY <1>1 DEF OrderInv, WireOrdered, Newest
  <2>2. CASE t = s
    BY <1>2, <1>4, <1>5, <2>1, <2>2 DEF WireOrdered
  <2>3. CASE t # s
    BY <1>2, <1>5, <2>1, <2>3 DEF WireOrdered
  <2> QED  BY <2>2, <2>3
<1>8. AcksHonest'
  <2>1. ASSUME NEW ack \in acks' PROVE ack.MessageID <= LastOrder(ack.NodeID)'
    <3>1. CASE ack \in acks
      <4>1. ack.NodeID \in Slaves /\ ack.MessageID \in Int /\ ack.MessageID <= LastOrder(ack.NodeID)
        BY <1>0, <3>1, OrderTypes DEF OrderInv, AcksHonest
      <4> QED  BY <1>6, <4>1
    <3>2. CASE ack = [NodeID |-> s, MessageID |-> id] /\ LastOrder(s)' = id
      BY <1>3, <3>2
    <3> QED  BY <1>4, <1>5, <2>1, <3>1, <3>2
  <2>2. \A t \in Slaves : lastID'[t] \in {NoID, LastOrder(t)'}
    BY <1>4, <1>5 DEF OrderInv, AcksHonest
  <2> QED  BY <2>1, <2>2 DEF AcksHonest
<1>9. OnlyLatestActive'
  BY <1>1 DEF OrderInv, OnlyLatestActive
<1>10. AcknowledgedIsAccepted'
  <2>1. SUFFICES ASSUME NEW t \in Slaves, latest[t] # NoID, \A m \in active : m.NodeID # t
                 PROVE  LastOrder(t)' = latest[t]
    BY <1>1 DEF AcknowledgedIsAccepted
  <2>2. LastOrder(t) = latest[t] /\ Newest(t) = latest[t]
    BY <2>1 DEF OrderInv, AcknowledgedIsAccepted, Newest
  <2> QED  BY <1>2, <1>3, <1>4, <1>5, <1>6, <2>2
<1> QED  BY <1>0, <1>5, <1>7, <1>8, <1>9, <1>10 DEF OrderInv

\* The elevator takes an order: what it then has in force is not older, and the last accepted
\* is the same.
LEMMA TakesOrder ==
  ASSUME OrderInv, TypeOK', NEW s \in Slaves, ElevatorTakesOrder(s)
  PROVE  OrderInv' /\ \A t \in Slaves : inForce'[t] >= inForce[t]
<1>0. TypeOK /\ TypeOK' /\ orders \in [Slaves -> Seq(1 .. MaxMessages)]
      /\ inForce \in [Slaves -> 0 .. MaxMessages]
  BY OrderTypes DEF OrderInv
<1>1. /\ UNCHANGED <<enable, active, nextID, latest, wire, acks, lastID>>
      /\ orders[s] # <<>> /\ orders'[s] = Tail(orders[s]) /\ inForce'[s] = Head(orders[s])
      /\ \A t \in Slaves : t # s => orders'[t] = orders[t] /\ inForce'[t] = inForce[t]
  BY <1>0 DEF ElevatorTakesOrder, masterVars
<1>2. ASSUME NEW t \in Slaves
      PROVE  ChannelOrdered(t)' /\ LastOrder(t)' = LastOrder(t) /\ inForce'[t] >= inForce[t]
  <2>1. CASE t = s
    BY <1>0, <1>1, <2>1, TakeOrder DEF OrderInv
  <2>2. CASE t # s
    BY <1>0, <1>1, <2>2, ChannelFrame DEF OrderInv
  <2> QED  BY <2>1, <2>2
<1>3. \A t \in Slaves : WireOrdered(t)'
  BY <1>1, <1>2 DEF OrderInv, WireOrdered, Newest
<1>4. OnlyLatestActive' /\ AcknowledgedIsAccepted' /\ AcksHonest'
  BY <1>0, <1>1, <1>2, OrderTypes DEF OrderInv, OnlyLatestActive, AcknowledgedIsAccepted, AcksHonest
<1> QED  BY <1>0, <1>2, <1>3, <1>4 DEF OrderInv

\* The other steps of master, network, slaves and elevators.
OtherStep == \/ \E call \in HallCalls : NewHallRequest(call) \/ HallRequestDone(call)
             \/ \E id \in IDs : TimerFires(id)
             \/ UpdateWithoutDistribution
             \/ \E ack \in acks : LoseAck(ack)
             \/ \E s \in Slaves : \/ ReceiveGlobalHallRequest(s) \/ ReenterSlaveProgram(s)
                                  \/ ElevatorTakesLights(s) \/ ElevatorSends(s)
             \/ UNCHANGED vars

\* They touch neither what the transmitter wants nor what is under way, accepted or in force.
LEMMA OtherFrame ==
  ASSUME OtherStep
  PROVE  /\ UNCHANGED <<enable, active, nextID, latest, wire, orders, inForce>> /\ acks' \subseteq acks
         /\ lastID' = lastID \/ \E s \in Slaves : lastID' = [lastID EXCEPT ![s] = NoID]
<1> USE DEF vars, masterVars, slaveVars, elevatorVars
<1>1. CASE \E s \in Slaves : ReceiveGlobalHallRequest(s) \/ ReenterSlaveProgram(s)
  BY <1>1 DEF ReceiveGlobalHallRequest, ReenterSlaveProgram
<1>2. CASE \E s \in Slaves : ElevatorTakesLights(s) \/ ElevatorSends(s)
  BY <1>2 DEF ElevatorTakesLights, ElevatorSends
<1>3. CASE UpdateWithoutDistribution \/ \E ack \in acks : LoseAck(ack)
  BY <1>3 DEF UpdateWithoutDistribution, LoseAck
<1>4. CASE (\E call \in HallCalls : NewHallRequest(call) \/ HallRequestDone(call)) \/ UNCHANGED vars
  BY <1>4 DEF NewHallRequest, HallRequestDone
<1>5. CASE \E id \in IDs : TimerFires(id)
  BY <1>5 DEF TimerFires
<1> QED  BY <1>1, <1>2, <1>3, <1>4, <1>5 DEF OtherStep

\* So the order stays as it was.
LEMMA OtherOrder ==
  ASSUME OrderInv, TypeOK', OtherStep
  PROVE  OrderInv' /\ inForce' = inForce
<1>1. /\ UNCHANGED <<enable, active, nextID, latest, wire, orders, inForce>> /\ acks' \subseteq acks
      /\ lastID' = lastID \/ \E s \in Slaves : lastID' = [lastID EXCEPT ![s] = NoID]
  BY OtherFrame
<1>2. \A t \in Slaves : LastOrder(t)' = LastOrder(t) /\ ChannelOrdered(t)'
  BY <1>1, ChannelFrame DEF OrderInv
<1>3. \A t \in Slaves : WireOrdered(t)'
  BY <1>1, <1>2 DEF OrderInv, WireOrdered, Newest
<1>4. OnlyLatestActive' /\ AcknowledgedIsAccepted'
  BY <1>1, <1>2 DEF OrderInv, OnlyLatestActive, AcknowledgedIsAccepted
<1>5. AcksHonest'
  <2>1. lastID \in [Slaves -> 0 .. MaxMessages] /\ \A ack \in acks : ack.NodeID \in Slaves
    BY OrderTypes DEF OrderInv
  <2> QED  BY <1>1, <1>2, <2>1 DEF OrderInv, AcksHonest
<1> QED  BY <1>1, <1>2, <1>3, <1>4, <1>5 DEF OrderInv

\* Every step keeps the order, and takes no elevator back.
LEMMA StepOrder ==
  ASSUME OrderInv, [Next]_vars
  PROVE  OrderInv' /\ \A s \in Slaves : inForce'[s] >= inForce[s]
<1> USE DEF slaveVars, elevatorVars
<1>0. TypeOK /\ TypeOK'
  BY StepType DEF OrderInv
<1>1. inForce' = inForce => \A s \in Slaves : inForce'[s] >= inForce[s]
  BY <1>0, OrderTypes
<1>2. ASSUME NEW s \in Slaves, NEW calls \in SUBSET HallCalls, NewAssignment(s, calls)
      PROVE  OrderInv' /\ inForce' = inForce
  BY <1>0, <1>2, AssignOrder DEF NewAssignment
<1>3. ASSUME NEW on \in BOOLEAN, EnableTransmitter(on) PROVE OrderInv' /\ inForce' = inForce
  BY <1>0, <1>3, EnableOrder DEF EnableTransmitter
<1>4. ASSUME Retry PROVE OrderInv' /\ inForce' = inForce
  BY <1>0, <1>4, RetryOrder DEF Retry
<1>5. ASSUME NEW ack \in acks, ReceiveAck(ack) PROVE OrderInv' /\ inForce' = inForce
  BY <1>0, <1>5, AckOrder DEF ReceiveAck
<1>6. ASSUME NEW s \in Slaves, LoseMessage(s) PROVE OrderInv' /\ inForce' = inForce
  BY <1>0, <1>6, LossOrder DEF LoseMessage
<1>7. ASSUME NEW s \in Slaves, DeliverHallAssignment(s) PROVE OrderInv' /\ inForce' = inForce
  BY <1>0, <1>7, DeliverOrder DEF DeliverHallAssignment, ReceiveHallAssignment
<1>8. ASSUME NEW s \in Slaves, ElevatorTakesOrder(s)
      PROVE  OrderInv' /\ \A t \in Slaves : inForce'[t] >= inForce[t]
  BY <1>0, <1>8, TakesOrder
<1>9. ASSUME OtherStep PROVE OrderInv' /\ inForce' = inForce
  BY <1>0, <1>9, OtherOrder
<1>10. \/ \E s \in Slaves, calls \in SUBSET HallCalls : NewAssignment(s, calls)
       \/ \E on \in BOOLEAN : EnableTransmitter(on)
       \/ Retry
       \/ \E ack \in acks : ReceiveAck(ack)
       \/ \E s \in Slaves : LoseMessage(s) \/ DeliverHallAssignment(s) \/ ElevatorTakesOrder(s)
       \/ OtherStep
  BY Zenon DEF Next, OtherStep
<1> QED  BY <1>1, <1>2, <1>3, <1>4, <1>5, <1>6, <1>7, <1>8, <1>9, <1>10

\* The order invariant holds for ever.
LEMMA OrderAlways == Spec => []OrderInv
<1>1. OrderInv /\ [Next]_vars => OrderInv'
  BY StepOrder
<1> QED  BY <1>1, InitOrder, PTL DEF Spec

\* The transmitter presses a slave only with the last assignment made for it: the filter on
\* NodeID in HallAssignmentsTransmitter, and the flush when it is disabled.
THEOREM OnlyLatestIsSent == Spec => []OnlyLatestActive
<1>1. OrderInv => OnlyLatestActive
  BY DEF OrderInv
<1> QED  BY <1>1, OrderAlways, PTL

\* When nothing is active for a slave, its last assignment is the last it has accepted: an ack
\* speaks of the order that is in force, or will be once the elevator has taken what waits for it.
THEOREM AcksAreTrue == Spec => []AcknowledgedIsAccepted
<1>1. OrderInv => AcknowledgedIsAccepted
  BY DEF OrderInv
<1> QED  BY <1>1, OrderAlways, PTL

\* No elevator is given an assignment older than the one it has, though SlaveProgram remembers
\* one message id only.
THEOREM AssignmentsOnlyGetNewer == Spec => NeverGoesBack
<1>1. OrderInv /\ [Next]_vars => [\A s \in Slaves : inForce'[s] >= inForce[s]]_vars
  BY StepOrder
<1> QED  BY <1>1, OrderAlways, PTL DEF Spec, NeverGoesBack

-----------------------------------------------------------------------------
(* Refinement: the abstract channel of orders.                             *)

\* The ids on a wire after a message has been appended, or the first one taken off.
OnWire(q) == {q[i].MessageID : i \in DOMAIN q}

LEMMA OnWireAppend ==
  ASSUME NEW q \in Seq(Message), NEW m \in Message
  PROVE  OnWire(Append(q, m)) = OnWire(q) \cup {m.MessageID}
<1> DEFINE r == Append(q, m)
<1>1. /\ Len(q) \in Nat /\ DOMAIN q = 1 .. Len(q) /\ DOMAIN r = 1 .. Len(q) + 1
      /\ \A i \in 1 .. Len(q) : r[i] = q[i]
      /\ r[Len(q) + 1] = m
  OBVIOUS
<1> HIDE DEF r
<1>2. \A i \in DOMAIN r : (i \in DOMAIN q /\ r[i] = q[i]) \/ r[i] = m
  BY <1>1
<1>3. \A i \in DOMAIN q : i \in DOMAIN r /\ r[i] = q[i]
  BY <1>1
<1>4. Len(q) + 1 \in DOMAIN r
  BY <1>1
<1>5. OnWire(r) \subseteq OnWire(q) \cup {m.MessageID}
  BY <1>2 DEF OnWire
<1>6. OnWire(q) \cup {m.MessageID} \subseteq OnWire(r)
  BY <1>1, <1>3, <1>4 DEF OnWire
<1> QED  BY <1>5, <1>6 DEF r

\* Taking the first message off leaves ids that were there, and all within the bounds it had.
LEMMA OnWireTail ==
  ASSUME NEW q \in Seq(Message), q # <<>>
  PROVE  OnWire(Tail(q)) \subseteq OnWire(q) /\ Head(q).MessageID \in OnWire(q)
<1> DEFINE r == Tail(q)
<1>1. /\ Len(q) \in Nat \ {0} /\ DOMAIN q = 1 .. Len(q) /\ DOMAIN r = 1 .. Len(q) - 1
      /\ \A i \in 1 .. Len(q) - 1 : r[i] = q[i + 1]
      /\ Head(q) = q[1]
  OBVIOUS
<1> HIDE DEF r
<1>2. \A i \in DOMAIN r : i + 1 \in DOMAIN q /\ r[i] = q[i + 1]
  BY <1>1
<1>3. 1 \in DOMAIN q
  BY <1>1
<1> QED  BY <1>1, <1>2, <1>3 DEF OnWire, r

\* Sending m adds at most its id, and only to the wire of its slave.
LEMMA OnWireTransmit ==
  ASSUME TypeOK, NEW m \in Message, Transmit(m), NEW t \in Slaves
  PROVE  /\ OnWire(wire[t]) \subseteq OnWire(wire'[t])
         /\ OnWire(wire'[t]) \subseteq OnWire(wire[t]) \cup (IF m.NodeID = t THEN {m.MessageID} ELSE {})
<1>1. wire \in [Slaves -> Seq(Message)] /\ wire[t] \in Seq(Message)
  BY OrderTypes
<1>2. wire'[t] = wire[t] \/ (m.NodeID = t /\ wire'[t] = Append(wire[t], m))
  BY <1>1 DEF Transmit
<1> QED  BY <1>1, <1>2, OnWireAppend

\* A step that leaves alone what is under way to the other slaves, and brings at s nothing but
\* the given orders, keeps the promise of the channel for s.
LEMMA KeepPending ==
  ASSUME NEW s \in Slaves, NEW ids, OnlyLatestActive',
         \A t \in Slaves : t # s => UnderWay(t)' = UnderWay(t),
         UnderWay(s)' \subseteq ids
  PROVE  /\ \E kept \in SUBSET ids : Pending' = [Pending EXCEPT ![s] = kept]
         /\ s \in Unconfirmed' => latest'[s] \in Pending'[s]
<1>1. Pending' = [Pending EXCEPT ![s] = UnderWay(s)']
  BY DEF Pending
<1>2. ASSUME NEW m \in active', m.NodeID = s PROVE latest'[s] \in UnderWay(s)'
  BY <1>2 DEF OnlyLatestActive, UnderWay
<1> QED  BY <1>1, <1>2 DEF Pending, Unconfirmed

\* At the start the channel is empty.
LEMMA InitChannel == Init => Orders!OrderInit
<1> SUFFICES ASSUME Init PROVE Orders!OrderInit
  OBVIOUS
<1>1. ASSUME NEW s \in Slaves PROVE UnderWay(s) = {}
  <2>1. wire[s] = <<>> /\ active = {}
    BY DEF Init
  <2>2. DOMAIN wire[s] = {}
    BY <2>1
  <2> QED  BY <2>1, <2>2 DEF UnderWay
<1> QED  BY <1>1 DEF Init, Pending, Unconfirmed, Orders!OrderInit

\* An assignment is an order given.
LEMMA AssignChannel ==
  ASSUME TypeOK, OnlyLatestActive', NEW s \in Slaves, NEW calls \in SUBSET HallCalls,
         NewAssignment(s, calls)
  PROVE  Orders!Assign(s)
<1> DEFINE m == [NodeID |-> s, HallAssignment |-> calls, MessageID |-> nextID]
<1>1. /\ m \in Message /\ m.NodeID = s /\ m.MessageID = nextID
  BY DEF NewAssignment, Message
<1>2. /\ nextID' = nextID + 1 /\ Transmit(m) /\ latest' = [latest EXCEPT ![s] = nextID]
      /\ active' = {old \in active : old.NodeID # s} \cup {m} /\ UNCHANGED <<orders, inForce>>
  BY DEF NewAssignment, slaveVars, elevatorVars
<1> HIDE DEF m
<1>3. nextID' - 1 = nextID - 1 + 1 /\ nextID' - 1 = nextID
  <2>1. nextID \in 1 .. MaxMessages + 1
    BY OrderTypes
  <2> QED  BY <1>2, <2>1
<1>4. Unconfirmed' = Unconfirmed \cup {s}
  BY <1>1, <1>2 DEF Unconfirmed
<1>5. ASSUME NEW t \in Slaves, t # s PROVE UnderWay(t)' = UnderWay(t)
  <2>1. OnWire(wire'[t]) = OnWire(wire[t])
    BY <1>1, <1>2, <1>5, OnWireTransmit
  <2>2. {n \in active' : n.NodeID = t} = {n \in active : n.NodeID = t}
    BY <1>1, <1>2, <1>5
  <2> QED  BY <2>1, <2>2 DEF UnderWay, OnWire
<1>6. UnderWay(s)' \subseteq UnderWay(s) \cup {nextID' - 1}
  <2>1. OnWire(wire'[s]) \subseteq OnWire(wire[s]) \cup {nextID}
    BY <1>1, <1>2, OnWireTransmit
  <2>2. \A n \in active' : n.NodeID = s => n.MessageID = nextID
    BY <1>1, <1>2
  <2> QED  BY <1>3, <2>1, <2>2 DEF UnderWay, OnWire
<1>7. Orders!Keep(s, Pending[s] \cup {nextID' - 1})
  BY <1>5, <1>6, KeepPending DEF Pending, Orders!Keep
<1> QED  BY <1>2, <1>3, <1>4, <1>7 DEF Orders!Assign

\* A master that comes or goes takes back what it wanted; the wires stay.
LEMMA EnableChannel ==
  ASSUME OrderInv, NEW on \in BOOLEAN, EnableTransmitter(on)
  PROVE  Orders!Handover
<1>1. active' = {}
  <2>1. active' = IF on THEN active ELSE {}
    BY DEF EnableTransmitter
  <2>2. on => ~enable
    BY Zenon DEF EnableTransmitter
  <2> QED  BY <2>1, <2>2 DEF OrderInv, OnlyLatestActive
<1>2. latest' = [t \in Slaves |-> 0] /\ UNCHANGED <<wire, nextID, orders, inForce>>
  BY DEF EnableTransmitter, slaveVars, elevatorVars
<1>3. \A t \in Slaves : UnderWay(t)' \subseteq UnderWay(t)
  BY <1>1, <1>2 DEF UnderWay
<1>4. /\ Pending' \in [Slaves -> SUBSET UNION {Pending[t] : t \in Slaves}]
      /\ \A t \in Slaves : Pending'[t] \subseteq Pending[t]
  BY <1>3 DEF Pending
<1> QED  BY <1>1, <1>2, <1>4 DEF Unconfirmed, Orders!Handover

\* A resend puts on the wire what is under way anyway: no step of the channel.
LEMMA RetryChannel ==
  ASSUME TypeOK, Retry
  PROVE  UNCHANGED Orders!orderVars
<1>1. UNCHANGED <<active, nextID, latest, orders, inForce>>
  BY DEF Retry, slaveVars, elevatorVars
<1>2. ASSUME NEW t \in Slaves PROVE UnderWay(t)' = UnderWay(t)
  <2>1. CASE wire' = wire
    BY <1>1, <2>1 DEF UnderWay
  <2>2. ASSUME NEW m \in active, Transmit(m) PROVE UnderWay(t)' = UnderWay(t)
    <3>1. m \in Message
      BY OrderTypes
    <3>2. /\ OnWire(wire[t]) \subseteq OnWire(wire'[t])
          /\ OnWire(wire'[t]) \subseteq OnWire(wire[t]) \cup (IF m.NodeID = t THEN {m.MessageID} ELSE {})
      BY <2>2, <3>1, OnWireTransmit
    <3> QED  BY <1>1, <3>2 DEF UnderWay, OnWire
  <2> QED  BY <2>1, <2>2 DEF Retry
<1> QED  BY <1>1, <1>2 DEF Pending, Unconfirmed, Orders!orderVars

\* The ack of the active assignment confirms it, which is the last accepted; any other ack
\* changes nothing.
LEMMA AckChannel ==
  ASSUME OrderInv, OnlyLatestActive', NEW ack \in acks, ReceiveAck(ack)
  PROVE  Orders!Confirm(ack.NodeID) \/ UNCHANGED Orders!orderVars
<1> DEFINE s == ack.NodeID
<1>0. TypeOK /\ s \in Slaves /\ ack.MessageID \in Int
  BY OrderTypes DEF OrderInv
<1> HIDE DEF s
<1>1. /\ active' = {m \in active : ~(m.NodeID = s /\ m.MessageID = ack.MessageID)}
      /\ UNCHANGED <<nextID, latest, wire, orders, inForce>>
  BY DEF ReceiveAck, slaveVars, elevatorVars, s
<1>2. CASE active' = active
  BY <1>1, <1>2 DEF Pending, Unconfirmed, UnderWay, Orders!orderVars
<1>3. ASSUME NEW m \in active, m.NodeID = s, m.MessageID = ack.MessageID
      PROVE  Orders!Confirm(s)
  <2>1. latest[s] = ack.MessageID /\ latest[s] # 0
    BY <1>0, <1>3, OrderTypes DEF OrderInv, OnlyLatestActive
  <2>2. LastOrder(s) = latest[s]
    <3>1. LastOrder(s) <= latest[s] /\ ack.MessageID <= LastOrder(s)
      BY <1>0, <2>1 DEF OrderInv, WireOrdered, Newest, AcksHonest, s
    <3>2. LastOrder(s) \in Int /\ latest[s] \in Int
      BY <1>0, OrderTypes
    <3> QED  BY <2>1, <3>1, <3>2
  <2>3. active' = {n \in active : n.NodeID # s}
    BY <1>1, <2>1 DEF OrderInv, OnlyLatestActive
  <2>4. Unconfirmed' = Unconfirmed \ {s} /\ s \in Unconfirmed
    BY <1>3, <2>3 DEF Unconfirmed
  <2>5. \A t \in Slaves : t # s => UnderWay(t)' = UnderWay(t)
    BY <1>1, <2>3 DEF UnderWay
  <2>6. UnderWay(s)' \subseteq UnderWay(s)
    BY <1>1 DEF UnderWay
  <2>7. Orders!Keep(s, Pending[s])
    BY <1>0, <2>5, <2>6, KeepPending DEF Pending, Orders!Keep
  <2> QED  BY <1>0, <1>1, <2>2, <2>4, <2>7 DEF LastOrder, Orders!Last, Orders!Confirm
<1> QED  BY <1>1, <1>2, <1>3 DEF s

\* A message that leaves the wire is lost, refused or repeated; or it is accepted, and what is
\* left under way is not older.
LEMMA TakeOffChannel ==
  ASSUME OrderInv, OnlyLatestActive', NEW s \in Slaves, TakeOff(s), UNCHANGED <<active, nextID, latest, inForce>>,
         \/ orders' = orders
         \/ orders' = [orders EXCEPT ![s] = Append(@, Head(wire[s]).MessageID)]
  PROVE  Orders!Lose(s) \/ Orders!Accept(s)
<1> DEFINE id == Head(wire[s]).MessageID
<1>0. TypeOK /\ WireOrdered(s)
  BY DEF OrderInv
<1>1. /\ wire[s] \in Seq(Message) /\ wire[s] # <<>> /\ wire'[s] = Tail(wire[s])
      /\ \A t \in Slaves : t # s => wire'[t] = wire[t]
  BY <1>0, OrderTypes DEF TakeOff
<1>2. OnWire(wire'[s]) \subseteq OnWire(wire[s]) /\ id \in OnWire(wire[s])
  BY <1>1, OnWireTail
<1>3. id \in 1 .. MaxMessages
  <2>1. Head(wire[s]) \in Message
    BY <1>1
  <2> QED  BY <1>0, <2>1, OrderTypes
<1>4. Within(wire'[s], id, Newest(s)) /\ LastOrder(s) <= id /\ id <= Newest(s)
  BY <1>0, TakeOffOrder
<1> HIDE DEF id
<1>5. \A t \in Slaves : t # s => UnderWay(t)' = UnderWay(t)
  BY <1>1 DEF UnderWay
<1>6. UnderWay(s)' \subseteq UnderWay(s)
  BY <1>2 DEF UnderWay, OnWire
<1>7. CASE orders' = orders
  <2>1. Orders!Keep(s, Pending[s])
    BY <1>5, <1>6, KeepPending DEF Pending, Orders!Keep
  <2> QED  BY <1>7, <2>1 DEF Unconfirmed, Orders!Lose
<1>8. CASE orders' = [orders EXCEPT ![s] = Append(@, id)]
  <2>1. \A x \in UnderWay(s)' : x >= id
    <3>1. \A x \in OnWire(wire'[s]) : x >= id
      <4>1. \A i \in DOMAIN wire'[s] : wire'[s][i].MessageID \in Int
        BY <1>0, <1>1, OrderTypes
      <4> QED  BY <1>3, <1>4, <4>1 DEF OnWire, Within
    <3>2. \A m \in active : m.NodeID = s => m.MessageID >= id
      <4>1. ASSUME NEW m \in active, m.NodeID = s PROVE m.MessageID >= id
        <5>1. m.MessageID = latest[s] /\ latest[s] \in 1 .. MaxMessages
          BY <1>0, <4>1, OrderTypes DEF OrderInv, OnlyLatestActive
        <5>2. Newest(s) = latest[s]
          BY <5>1 DEF Newest
        <5> QED  BY <1>3, <1>4, <5>1, <5>2
      <4> QED  BY <4>1
    <3> QED  BY <3>1, <3>2 DEF UnderWay, OnWire
  <2>2. /\ \E kept \in SUBSET {p \in Pending[s] : p >= id} : Pending' = [Pending EXCEPT ![s] = kept]
        /\ s \in Unconfirmed' => latest'[s] \in Pending'[s]
    BY <1>5, <1>6, <2>1, KeepPending DEF Pending
  <2>3. id \in Pending[s] /\ id >= LastOrder(s)
    <3>1. LastOrder(s) \in Int
      BY <1>0, OrderTypes
    <3> QED  BY <1>2, <1>3, <1>4, <3>1 DEF Pending, UnderWay, OnWire
  <2> QED  BY <1>8, <2>2, <2>3 DEF Unconfirmed, LastOrder, Orders!Last, Orders!Accept, Orders!Keep
<1> QED  BY <1>7, <1>8 DEF id

\* The elevator takes an order out of its channel: it gets into force.
LEMMA TakesChannel ==
  ASSUME OrderInv, NEW s \in Slaves, ElevatorTakesOrder(s)
  PROVE  Orders!TakeEffect(s)
<1>0. TypeOK /\ ChannelOrdered(s)
  BY DEF OrderInv
<1>1. /\ orders[s] # <<>> /\ UNCHANGED <<nextID, latest, active, wire>>
      /\ inForce' = [inForce EXCEPT ![s] = Head(orders[s])]
      /\ orders' = [orders EXCEPT ![s] = Tail(@)]
  BY DEF ElevatorTakesOrder, masterVars
<1>2. Head(orders[s]) >= inForce[s]
  <2>1. orders[s] \in Seq(1 .. MaxMessages) /\ inForce[s] \in Int
    BY <1>0, OrderTypes
  <2>2. 1 \in DOMAIN orders[s] /\ Head(orders[s]) = orders[s][1] /\ Head(orders[s]) \in Int
    BY <1>1, <2>1
  <2> QED  BY <1>0, <2>1, <2>2 DEF ChannelOrdered
<1>3. UNCHANGED <<Pending, Unconfirmed>>
  BY <1>1 DEF Pending, Unconfirmed, UnderWay
<1> QED  BY <1>1, <1>2, <1>3 DEF Orders!TakeEffect

\* Every step of transmitter, network and slaves is a step of the channel or none.
LEMMA StepChannel ==
  ASSUME OrderInv, OnlyLatestActive', [Next]_vars
  PROVE  [Orders!OrderNext]_Orders!orderVars
<1>0. TypeOK
  BY DEF OrderInv
<1>1. ASSUME NEW s \in Slaves, NEW calls \in SUBSET HallCalls, NewAssignment(s, calls)
      PROVE  Orders!OrderNext
  BY <1>0, <1>1, AssignChannel DEF Orders!OrderNext, Orders!OrderStep
<1>2. ASSUME NEW on \in BOOLEAN, EnableTransmitter(on) PROVE Orders!OrderNext
  BY <1>2, EnableChannel DEF Orders!OrderNext
<1>3. CASE Retry
  BY <1>0, <1>3, RetryChannel
<1>4. ASSUME NEW ack \in acks, ReceiveAck(ack) PROVE [Orders!OrderNext]_Orders!orderVars
  <2>1. ack.NodeID \in Slaves
    BY <1>0, OrderTypes
  <2> QED  BY <1>4, <2>1, AckChannel DEF Orders!OrderNext, Orders!OrderStep
<1>5. ASSUME NEW s \in Slaves, LoseMessage(s) \/ DeliverHallAssignment(s) PROVE Orders!OrderNext
  <2>1. /\ TakeOff(s) /\ UNCHANGED <<active, nextID, latest, inForce>>
        /\ orders' = orders \/ orders' = [orders EXCEPT ![s] = Append(@, Head(wire[s]).MessageID)]
    BY <1>5 DEF LoseMessage, DeliverHallAssignment, ReceiveHallAssignment, masterVars, slaveVars, elevatorVars
  <2> QED  BY <2>1, TakeOffChannel DEF Orders!OrderNext, Orders!OrderStep
<1>6. ASSUME NEW s \in Slaves, ElevatorTakesOrder(s) PROVE Orders!OrderNext
  BY <1>6, TakesChannel DEF Orders!OrderNext, Orders!OrderStep
<1>7. ASSUME OtherStep PROVE UNCHANGED Orders!orderVars
  <2>1. UNCHANGED <<active, nextID, latest, wire, orders, inForce>>
    BY <1>7, OtherFrame
  <2> QED  BY <2>1 DEF Pending, Unconfirmed, UnderWay, Orders!orderVars
<1> QED  BY <1>1, <1>2, <1>3, <1>4, <1>5, <1>6, <1>7 DEF Next, OtherStep

\* However many messages and acks are lost, resent or overtaken, for any number of slaves the
\* retrying transmitter and SlaveProgram's acceptance deliver orders as OrderChannel promises.
THEOREM DeliversInOrder == Spec => ImplementsOrderChannel
<1>1. OrderInv => OnlyLatestActive
  BY DEF OrderInv
<1>2. OrderInv /\ OnlyLatestActive' /\ [Next]_vars => [Orders!OrderNext]_Orders!orderVars
  BY StepChannel
<1> QED  BY <1>1, <1>2, InitChannel, OrderAlways, PTL DEF Spec, ImplementsOrderChannel, Orders!OrderSpec

\* The order wanted is the newest under way, and no order has a number not given yet.
Numbered == /\ nextID - 1 \in Nat
            /\ Pending \in [Slaves -> SUBSET Nat]
            /\ latest \in [Slaves -> Nat] /\ inForce \in [Slaves -> Nat] /\ orders \in [Slaves -> Seq(Nat)]
            /\ \A s \in Slaves : /\ \A o \in Pending[s] : o <= nextID - 1
                                 /\ latest[s] # 0 => \A o \in Pending[s] : o <= latest[s]

\* What leaves no more than these orders under way keeps them numbered.
LEMMA KeepNumbered ==
  ASSUME NEW s \in Slaves, NEW ids \in SUBSET Nat, Orders!Keep(s, ids),
         Pending \in [Slaves -> SUBSET Nat]
  PROVE  /\ Pending' \in [Slaves -> SUBSET Nat] /\ Pending'[s] \subseteq ids
         /\ \A t \in Slaves \ {s} : Pending'[t] = Pending[t]
  BY DEF Orders!Keep

\* The last order is the same where the channel and the order in force are.
LEMMA LastFrame ==
  ASSUME NEW t \in Slaves, orders'[t] = orders[t], inForce'[t] = inForce[t]
  PROVE  Orders!Last(t)' = Orders!Last(t)
  BY DEF Orders!Last

\* The order channel is promise enough: whatever delivers as it says, and lets the elevator take
\* its orders one after the other, never leaves an elevator with another order to come after the
\* one SlaveProgram has acknowledged, until the master sends the next assignment.
THEOREM PromiseHoldsInForce == Orders!OrderSpec => []Orders!ConfirmedIsLast
<1> DEFINE Inv == Numbered /\ Orders!ConfirmedIsLast
<1> USE DEF Numbered, Orders!ConfirmedIsLast
<1>1. Orders!OrderInit => Inv
  BY DEF Orders!OrderInit
<1>2. ASSUME Inv, [Orders!OrderNext]_(Orders!orderVars)
      PROVE  Inv'
  <2>1. ASSUME Orders!Handover PROVE Inv'
    BY <1>2, <2>1 DEF Orders!Handover
  <2>2. ASSUME NEW s \in Slaves, Orders!Assign(s) PROVE Inv'
    <3>1. Pending[s] \cup {nextID' - 1} \in SUBSET Nat
      BY <1>2, <2>2 DEF Orders!Assign
    <3>2. /\ Pending' \in [Slaves -> SUBSET Nat] /\ Pending'[s] \subseteq Pending[s] \cup {nextID' - 1}
          /\ \A t \in Slaves \ {s} : Pending'[t] = Pending[t]
      BY <1>2, <2>2, <3>1, KeepNumbered DEF Orders!Assign
    <3>3. /\ nextID' - 1 = nextID - 1 + 1 /\ UNCHANGED <<orders, inForce>>
          /\ latest' = [latest EXCEPT ![s] = nextID' - 1] /\ Unconfirmed' = Unconfirmed \cup {s}
      BY <2>2 DEF Orders!Assign
    <3>4. \A t \in Slaves \ {s} : latest'[t] = latest[t] /\ (t \in Unconfirmed' <=> t \in Unconfirmed)
      BY <1>2, <3>3
    <3>5. latest'[s] = nextID' - 1 /\ latest' \in [Slaves -> Nat] /\ s \in Unconfirmed' /\ nextID' - 1 \in Nat
      BY <1>2, <3>3
    <3>6. \A o \in Pending'[s] : o <= nextID' - 1
      <4>1. \A o \in Pending[s] : o \in Nat /\ o <= nextID - 1
        BY <1>2
      <4>2. nextID - 1 \in Nat
        BY <1>2
      <4> QED  BY <3>2, <3>3, <4>1, <4>2
    <3>7. \A t \in Slaves \ {s} : \A o \in Pending'[t] : o <= nextID' - 1 /\ (latest'[t] # 0 => o <= latest'[t])
      BY <1>2, <3>2, <3>3, <3>4
    <3>8. Numbered'
      BY <1>2, <3>2, <3>3, <3>5, <3>6, <3>7
    <3>9. \A t \in Slaves : Orders!Last(t)' = Orders!Last(t)
      BY <3>3, LastFrame
    <3>10. Orders!ConfirmedIsLast'
      BY <1>2, <3>4, <3>5, <3>9
    <3> QED  BY <3>8, <3>10
  <2>3. ASSUME NEW s \in Slaves, Orders!Accept(s) PROVE Inv'
    <3>1. PICK o \in Pending[s] :
            /\ o >= Orders!Last(s) /\ orders' = [orders EXCEPT ![s] = Append(@, o)]
            /\ nextID' - 1 = nextID - 1 /\ UNCHANGED <<latest, inForce>> /\ Unconfirmed' = Unconfirmed
            /\ Orders!Keep(s, {p \in Pending[s] : p >= o})
      BY <2>3 DEF Orders!Accept
    <3>2. {p \in Pending[s] : p >= o} \in SUBSET Nat
      BY <1>2
    <3>3. /\ Pending' \in [Slaves -> SUBSET Nat] /\ Pending'[s] \subseteq {p \in Pending[s] : p >= o}
          /\ \A t \in Slaves \ {s} : Pending'[t] = Pending[t]
      BY <1>2, <3>1, <3>2, KeepNumbered
    <3>4. /\ o \in Nat /\ orders[s] \in Seq(Nat) /\ Append(orders[s], o) \in Seq(Nat)
      BY <1>2
    <3>5. /\ orders' \in [Slaves -> Seq(Nat)] /\ orders'[s] = Append(orders[s], o)
          /\ \A t \in Slaves \ {s} : orders'[t] = orders[t]
      BY <1>2, <3>1, <3>4
    <3>6. Numbered'
      BY <1>2, <3>1, <3>3, <3>5
    <3>7. Orders!Last(s)' = o
      BY <3>4, <3>5, LastOfAppend DEF Orders!Last
    <3>8. \A t \in Slaves \ {s} : Orders!Last(t)' = Orders!Last(t)
      BY <3>1, <3>5, LastFrame
    <3>9. latest[s] # 0 /\ s \notin Unconfirmed => o = latest[s]
      <4>1. o \in Nat /\ latest[s] \in Nat
        BY <1>2
      <4> QED  BY <1>2, <3>1, <4>1
    <3>10. Orders!ConfirmedIsLast'
      BY <1>2, <3>1, <3>7, <3>8, <3>9
    <3> QED  BY <3>6, <3>10
  <2>4. ASSUME NEW s \in Slaves, Orders!TakeEffect(s) PROVE Inv'
    <3>1. /\ orders[s] # <<>> /\ inForce' = [inForce EXCEPT ![s] = Head(orders[s])]
          /\ orders' = [orders EXCEPT ![s] = Tail(@)]
          /\ nextID' - 1 = nextID - 1 /\ latest' = latest /\ Pending' = Pending /\ Unconfirmed' = Unconfirmed
      BY <2>4 DEF Orders!TakeEffect
    <3>2. orders[s] \in Seq(Nat) /\ Head(orders[s]) \in Nat /\ Tail(orders[s]) \in Seq(Nat)
      <4>1. orders[s] \in Seq(Nat)
        BY <1>2
      <4> QED  BY <3>1, <4>1
    <3>3. /\ orders' \in [Slaves -> Seq(Nat)] /\ inForce' \in [Slaves -> Nat]
          /\ orders'[s] = Tail(orders[s]) /\ inForce'[s] = Head(orders[s])
          /\ \A t \in Slaves \ {s} : orders'[t] = orders[t] /\ inForce'[t] = inForce[t]
      BY <1>2, <3>1, <3>2
    <3>4. Numbered'
      BY <1>2, <3>1, <3>3
    <3>5. Orders!Last(s)' = Orders!Last(s)
      BY <3>1, <3>2, <3>3, LastOfTail DEF Orders!Last
    <3>6. \A t \in Slaves : Orders!Last(t)' = Orders!Last(t)
      BY <3>3, <3>5, LastFrame
    <3> QED  BY <1>2, <3>1, <3>4, <3>6
  <2>5. ASSUME NEW s \in Slaves, Orders!Lose(s) \/ Orders!Confirm(s) PROVE Inv'
    <3>1. /\ nextID' - 1 = nextID - 1 /\ UNCHANGED <<latest, orders, inForce>>
          /\ Orders!Keep(s, Pending[s])
          /\ \A t \in Unconfirmed \ Unconfirmed' : Orders!Last(t) = latest[t]
      BY <2>5 DEF Orders!Lose, Orders!Confirm
    <3>2. /\ Pending' \in [Slaves -> SUBSET Nat] /\ Pending'[s] \subseteq Pending[s]
          /\ \A t \in Slaves \ {s} : Pending'[t] = Pending[t]
      BY <1>2, <3>1, KeepNumbered
    <3>3. \A t \in Slaves : Orders!Last(t)' = Orders!Last(t)
      BY <3>1, LastFrame
    <3> QED  BY <1>2, <3>1, <3>2, <3>3
  <2>6. ASSUME UNCHANGED Orders!orderVars PROVE Inv'
    <3>1. \A t \in Slaves : Orders!Last(t)' = Orders!Last(t)
      BY <2>6, LastFrame DEF Orders!orderVars
    <3> QED  BY <1>2, <2>6, <3>1 DEF Orders!orderVars
  <2> QED  BY <1>2, <2>1, <2>2, <2>3, <2>4, <2>5, <2>6 DEF Orders!OrderNext, Orders!OrderStep
<1> QED  BY <1>1, <1>2, PTL DEF Orders!OrderSpec
=============================================================================
