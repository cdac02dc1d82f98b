-------------------------- MODULE HACompleteProofs --------------------------
(***************************************************************************)
(* Proofs about HACompleteDelivery, for any slaves, calls and bounds and   *)
(* for a ring of any size: no completion is forgotten, every active one    *)
(* has its resend due, and the ring remembers what it should: completions  *)
(* are reported as ReportChannel promises.                                 *)
(***************************************************************************)
EXTENDS HACompleteDelivery, TLAPS

-----------------------------------------------------------------------------
(* Types.                                                                  *)

\* The size of the ring without the slot that is never used.
Used == BufferSize - 1

\* The ring starts over before its last slot, so an index is always a slot.
LEMMA SlotType ==
  ASSUME index \in Slots
  PROVE  /\ Used \in Nat \ {0} /\ Slots = 0 .. Used /\ AddSlot \in 0 .. Used - 1
         /\ AddSlot = (IF index = Used THEN 0 ELSE index) /\ AddSlot + 1 \in Slots
  BY CompleteAssumption DEF Slots, Used, AddSlot

\* Sending appends to one wire or to none.
LEMMA TransmitType ==
  ASSUME NEW s \in Slaves, NEW m \in Message, wire \in [Slaves -> Seq(Message)], Transmit(s, m)
  PROVE  wire' \in [Slaves -> Seq(Message)]
<1>1. wire[s] \in Seq(Message)
  OBVIOUS
<1>2. Append(wire[s], m) \in Seq(Message)
  BY <1>1
<1> QED  BY <1>1, <1>2 DEF Transmit

\* Taking off a wire yields a message and leaves a wire.
LEMMA TakeOffType ==
  ASSUME NEW s \in Slaves, wire \in [Slaves -> Seq(Message)], TakeOff(s)
  PROVE  wire' \in [Slaves -> Seq(Message)] /\ Head(wire[s]) \in Message
<1>1. wire[s] \in Seq(Message) /\ wire[s] # <<>>
  BY DEF TakeOff
<1>2. Tail(wire[s]) \in Seq(Message) /\ Head(wire[s]) \in Message
  BY <1>1
<1> QED  BY <1>2 DEF TakeOff

\* The window of processed ids moves on by one: the last is new, the others are as they were.
LEMMA RecordWindow ==
  ASSUME processed \in Seq(IDs), Len(processed) <= BufferSize, NEW id \in IDs, Record(id)
  PROVE  /\ processed' \in Seq(IDs) /\ Len(processed') <= BufferSize
         /\ Len(processed') > 0 /\ processed'[Len(processed')] = id
         /\ \A a \in 1 .. Len(processed') - 1 : /\ Len(processed) - (a - 1) \in DOMAIN processed
                                                /\ processed'[Len(processed') - a] =
                                                     processed[Len(processed) - (a - 1)]
<1>0. BufferSize \in Nat /\ BufferSize >= 2 /\ Len(processed) \in Nat
  BY CompleteAssumption
<1>1. CASE Len(processed) < BufferSize
  <2>1. processed' = Append(processed, id)
    BY <1>1 DEF Record
  <2> QED  BY <1>0, <1>1, <2>1
<1>2. CASE ~(Len(processed) < BufferSize)
  <2>1. Len(processed) = BufferSize /\ processed # <<>>
    BY <1>0, <1>2
  <2>2. DEFINE rest == Tail(processed)
  <2>3. /\ rest \in Seq(IDs) /\ Len(rest) = Len(processed) - 1
        /\ \A i \in 1 .. Len(processed) - 1 : rest[i] = processed[i + 1]
    BY <2>1
  <2>4. processed' = Append(rest, id)
    BY <1>2 DEF Record
  <2> HIDE DEF rest
  <2>5. /\ processed' \in Seq(IDs) /\ Len(processed') = Len(processed)
        /\ processed'[Len(processed')] = id
        /\ \A i \in 1 .. Len(rest) : processed'[i] = rest[i]
    BY <2>3, <2>4, <1>0
  <2>6. ASSUME NEW a \in 1 .. Len(processed') - 1
        PROVE  /\ Len(processed) - (a - 1) \in DOMAIN processed
               /\ processed'[Len(processed') - a] = processed[Len(processed) - (a - 1)]
    <3>1. Len(processed) - a \in 1 .. Len(rest) /\ Len(processed) - a \in 1 .. Len(processed) - 1
      BY <1>0, <2>3, <2>5
    <3>2. processed'[Len(processed) - a] = processed[Len(processed) - a + 1]
      BY <2>3, <2>5, <3>1
    <3>3. Len(processed) - a + 1 = Len(processed) - (a - 1)
      BY <1>0
    <3> QED  BY <1>0, <2>5, <3>1, <3>2, <3>3
  <2> QED  BY <1>0, <2>1, <2>5, <2>6
<1> QED  BY <1>1, <1>2

\* Everything starts off and empty.
LEMMA InitType == Init => TypeOK
<1> SUFFICES ASSUME Init PROVE TypeOK
  OBVIOUS
<1>1. wire \in [Slaves -> Seq(Message)] /\ processed \in Seq(IDs) /\ Len(processed) = 0
  BY DEF Init
<1>2. master \in BOOLEAN /\ enable \in [Slaves -> BOOLEAN]
  BY DEF Init
<1>3. index \in Slots /\ nextID \in 1 .. MaxMessages + 1 /\ Len(processed) <= BufferSize
  BY <1>1, CompleteAssumption DEF Init, Slots
<1> QED  BY <1>1, <1>2, <1>3 DEF Init, TypeOK

\* A completion that arrives keeps the types of the master and of what is under way.
LEMMA ReceiveType ==
  ASSUME TypeOK, NEW s \in Slaves, ReceiveHallAssignmentComplete(s)
  PROVE  TypeOK'
<1> DEFINE m == Head(wire[s])
<1>1. wire' \in [Slaves -> Seq(Message)] /\ m \in Message
  BY TakeOffType DEF ReceiveHallAssignmentComplete, TypeOK
<1>2. m.MessageID \in IDs /\ m.call \in HallCalls
  BY <1>1 DEF Message
<1>3. /\ acks' = acks \cup {m.MessageID} /\ master' = master
      /\ UNCHANGED <<enable, active, resends, nextID, sent>>
  BY DEF ReceiveHallAssignmentComplete, ProcessHAComplete, slaveVars
<1>4. /\ requests' \subseteq HallCalls /\ buffer' \in [Slots -> IDs \cup {NoID}] /\ index' \in Slots
      /\ processed' \in Seq(IDs) /\ Len(processed') <= BufferSize /\ settled' \subseteq IDs
  <2>1. CASE UNCHANGED <<requests, buffer, index, processed, settled>>
    BY <2>1 DEF TypeOK
  <2>2. CASE /\ requests' = requests \ {m.call} /\ Add(m.MessageID) /\ Record(m.MessageID)
             /\ settled' = settled \cup {m.MessageID}
    <3>1. buffer' \in [Slots -> IDs \cup {NoID}] /\ index' \in Slots
      BY <1>2, <2>2, SlotType DEF Add, TypeOK
    <3>2. processed' \in Seq(IDs) /\ Len(processed') <= BufferSize
      BY <1>2, <2>2, RecordWindow DEF TypeOK
    <3> QED  BY <1>2, <2>2, <3>1, <3>2 DEF TypeOK
  <2> QED
    BY <2>1, <2>2 DEF ReceiveHallAssignmentComplete, ProcessHAComplete
<1> HIDE DEF m
<1> QED  BY <1>1, <1>2, <1>3, <1>4 DEF TypeOK

\* Every handler keeps the types.
LEMMA StepType == TypeOK /\ [Next]_vars => TypeOK'
<1> SUFFICES ASSUME TypeOK, [Next]_vars PROVE TypeOK'
  OBVIOUS
<1> USE DEF slaveVars, masterVars
<1>1. ASSUME NEW s \in Slaves, NEW on \in BOOLEAN, EnableTransmitter(s, on) PROVE TypeOK'
  <2>1. enable' \in [Slaves -> BOOLEAN]
    BY <1>1, Zenon DEF TypeOK, EnableTransmitter
  <2>2. active' \in [Slaves -> SUBSET Message] /\ sent' \in [Slaves -> SUBSET IDs]
    BY <1>1 DEF TypeOK, EnableTransmitter
  <2>3. UNCHANGED <<resends, nextID, wire, acks, masterVars>>
    BY <1>1 DEF EnableTransmitter
  <2> QED  BY <2>1, <2>2, <2>3 DEF TypeOK
<1>2. ASSUME NEW s \in Slaves, NEW call \in HallCalls, HallAssignmentComplete(s, call) PROVE TypeOK'
  <2> DEFINE m == [call |-> call, MessageID |-> nextID]
  <2>1. m \in Message /\ nextID \in IDs /\ nextID + 1 \in 1 .. MaxMessages + 1
    BY <1>2, CompleteAssumption DEF HallAssignmentComplete, Message, IDs, TypeOK
  <2>2. /\ active' = [active EXCEPT ![s] = @ \cup {m}] /\ Transmit(s, m)
        /\ sent' = [sent EXCEPT ![s] = @ \cup {nextID}]
        /\ resends' = [resends EXCEPT ![nextID] = @ + 1] /\ nextID' = nextID + 1
        /\ UNCHANGED <<enable, acks, masterVars>>
    BY <1>2 DEF HallAssignmentComplete
  <2>3. wire' \in [Slaves -> Seq(Message)]
    BY <2>1, <2>2, TransmitType DEF TypeOK
  <2> HIDE DEF m
  <2>4. active' \in [Slaves -> SUBSET Message] /\ sent' \in [Slaves -> SUBSET IDs]
    BY <2>1, <2>2 DEF TypeOK
  <2>5. resends' \in [IDs -> Nat]
    BY <2>1, <2>2 DEF TypeOK
  <2> QED  BY <2>1, <2>2, <2>3, <2>4, <2>5 DEF TypeOK
<1>3. ASSUME NEW s \in Slaves, NEW id \in IDs, Resend(s, id) PROVE TypeOK'
  <2>1. /\ UNCHANGED <<enable, active, nextID, sent, acks, masterVars>> /\ resends[id] > 0
    BY <1>3 DEF Resend
  <2>2. CASE (\E m \in active[s] : m.MessageID = id /\ Transmit(s, m)) /\ UNCHANGED resends
    <3>1. PICK m \in active[s] : Transmit(s, m)
      BY <2>2
    <3>2. m \in Message
      BY DEF TypeOK
    <3>3. wire' \in [Slaves -> Seq(Message)]
      BY <3>1, <3>2, TransmitType DEF TypeOK
    <3> QED  BY <2>1, <2>2, <3>3 DEF TypeOK
  <2>3. CASE resends' = [resends EXCEPT ![id] = @ - 1] /\ UNCHANGED wire
    <3>1. resends[id] - 1 \in Nat
      BY <2>1 DEF TypeOK
    <3> QED  BY <2>1, <2>3, <3>1 DEF TypeOK
  <2> QED  BY <1>3, <2>2, <2>3 DEF Resend
<1>4. ASSUME NEW s \in Slaves, NEW id \in IDs, ReceiveAck(s, id) PROVE TypeOK'
  BY <1>4 DEF TypeOK, ReceiveAck
<1>5. ASSUME NEW s \in Slaves, LoseMessage(s) PROVE TypeOK'
  <2>1. wire' \in [Slaves -> Seq(Message)]
    BY <1>5, TakeOffType DEF LoseMessage, TypeOK
  <2> QED  BY <1>5, <2>1 DEF TypeOK, LoseMessage
<1>6. ASSUME NEW id \in IDs, LoseAck(id) PROVE TypeOK'
  BY <1>6 DEF TypeOK, LoseAck
<1>7. ASSUME NEW call \in HallCalls, NewHallRequest(call) PROVE TypeOK'
  BY <1>7 DEF TypeOK, NewHallRequest
<1>8. CASE StartMaster
  <2>1. /\ buffer' \in [Slots -> IDs \cup {NoID}] /\ index' \in Slots /\ processed' \in Seq(IDs)
        /\ Len(processed') <= BufferSize
    BY <1>8, CompleteAssumption DEF StartMaster, Slots
  <2>2. master' \in BOOLEAN /\ UNCHANGED <<slaveVars, wire, acks, requests, settled>>
    BY <1>8 DEF StartMaster
  <2> QED  BY <2>1, <2>2 DEF TypeOK
<1>9. CASE MasterLeaves
  <2>1. master' \in BOOLEAN
    BY <1>9 DEF MasterLeaves
  <2> QED  BY <1>9, <2>1 DEF TypeOK, MasterLeaves
<1>10. CASE UNCHANGED vars
  BY <1>10 DEF TypeOK, vars
<1> QED
  BY <1>1, <1>2, <1>3, <1>4, <1>5, <1>6, <1>7, <1>8, <1>9, <1>10, ReceiveType DEF Next

\* Every variable keeps its type, for any slaves, calls, bounds and size of the ring.
THEOREM TypeCorrect == Spec => []TypeOK
  BY InitType, StepType, PTL DEF Spec
-----------------------------------------------------------------------------
(* The ring.                                                               *)

\* Where the id processed as the last but age is, when index is where the next one goes.
SlotOf(age) == IF age < index THEN index - 1 - age ELSE index - 1 - age + Used

\* Every one of the last Used ids is in its slot.
RingInv ==
  /\ TypeOK
  /\ \A age \in 0 .. Len(processed) - 1 :
        age < Used => buffer[SlotOf(age)] = processed[Len(processed) - age]

\* An id that joins the ring takes a slot of no other that must stay, and those keep theirs.
LEMMA AddRing ==
  ASSUME RingInv, TypeOK', NEW id \in IDs, Add(id), Record(id)
  PROVE  RingInv'
<1>1. /\ index \in 0 .. Used /\ Used \in Nat \ {0} /\ AddSlot \in 0 .. Used - 1
      /\ AddSlot = (IF index = Used THEN 0 ELSE index) /\ index' = AddSlot + 1
      /\ Slots = 0 .. Used
  BY SlotType DEF RingInv, TypeOK, Add
<1>2. buffer' = [buffer EXCEPT ![AddSlot] = id] /\ buffer \in [Slots -> IDs \cup {NoID}]
  BY DEF Add, RingInv, TypeOK
<1>3. /\ Len(processed') > 0 /\ processed'[Len(processed')] = id
      /\ \A a \in 1 .. Len(processed') - 1 : /\ Len(processed) - (a - 1) \in DOMAIN processed
                                             /\ processed'[Len(processed') - a] =
                                                  processed[Len(processed) - (a - 1)]
      /\ processed \in Seq(IDs) /\ processed' \in Seq(IDs)
  BY RecordWindow DEF RingInv, TypeOK
<1>4. Len(processed) \in Nat /\ Len(processed') \in Nat /\ DOMAIN processed = 1 .. Len(processed)
  BY <1>3
<1>5. ASSUME NEW age \in 0 .. Len(processed') - 1, age < Used
      PROVE  buffer'[SlotOf(age)'] = processed'[Len(processed') - age]
  <2>1. SlotOf(age)' = IF age < AddSlot + 1 THEN AddSlot - age ELSE AddSlot - age + Used
    BY <1>1 DEF SlotOf, Used
  <2>2. CASE age = 0
    <3>1. SlotOf(age)' = AddSlot
      BY <1>1, <2>1, <2>2
    <3> QED  BY <1>1, <1>2, <1>3, <1>4, <2>2, <3>1
  <2>3. CASE age # 0
    <3>1. /\ age - 1 \in 0 .. Len(processed) - 1 /\ age - 1 < Used /\ age \in 1 .. Len(processed') - 1
      BY <1>1, <1>3, <1>4, <1>5, <2>3
    <3>2. buffer[SlotOf(age - 1)] = processed[Len(processed) - (age - 1)]
      BY <3>1 DEF RingInv
    <3>3. SlotOf(age)' = SlotOf(age - 1) /\ SlotOf(age - 1) \in Slots /\ SlotOf(age - 1) # AddSlot
      <4>1. SlotOf(age - 1) = IF age - 1 < index THEN index - age ELSE index - age + Used
        BY <1>1, <1>4 DEF SlotOf
      <4>2. CASE index = Used
        BY <1>1, <1>4, <1>5, <2>1, <2>3, <4>1, <4>2
      <4>3. CASE index # Used
        BY <1>1, <1>4, <1>5, <2>1, <2>3, <4>1, <4>3
      <4> QED  BY <4>2, <4>3
    <3>4. buffer'[SlotOf(age - 1)] = buffer[SlotOf(age - 1)]
      BY <1>1, <1>2, <3>3
    <3>5. processed'[Len(processed') - age] = processed[Len(processed) - (age - 1)]
      BY <1>3, <3>1
    <3> QED  BY <3>2, <3>3, <3>4, <3>5
  <2> QED  BY <2>2, <2>3
<1>6. \A age \in 0 .. Len(processed') - 1 :
         age < Used' => buffer'[SlotOf(age)'] = processed'[Len(processed') - age]
  BY <1>5 DEF Used
<1> QED  BY <1>6 DEF RingInv, SlotOf, Used

\* Steps that leave ring and window alone.
LEMMA RingFrame ==
  ASSUME RingInv, TypeOK', UNCHANGED <<index, buffer, processed>>
  PROVE  RingInv'
  BY DEF RingInv, SlotOf, Used

\* The ring starts empty, again with every master.
LEMMA InitRing == Init => RingInv
<1> SUFFICES ASSUME Init PROVE RingInv
  OBVIOUS
<1>1. TypeOK /\ Len(processed) = 0
  BY InitType DEF Init
<1> QED  BY <1>1 DEF RingInv

\* What a completion that arrives does to the ring.
LEMMA ReceiveRing ==
  ASSUME RingInv, TypeOK', NEW s \in Slaves, ReceiveHallAssignmentComplete(s)
  PROVE  RingInv'
<1> DEFINE id == Head(wire[s]).MessageID
<1>1. id \in IDs
  BY TakeOffType DEF ReceiveHallAssignmentComplete, RingInv, TypeOK, Message
<1>2. (Add(id) /\ Record(id)) \/ UNCHANGED <<index, buffer, processed>>
  BY DEF ReceiveHallAssignmentComplete, ProcessHAComplete
<1> HIDE DEF id
<1> QED  BY <1>1, <1>2, AddRing, RingFrame

\* Every step keeps the ring in order.
LEMMA StepRing == RingInv /\ [Next]_vars => RingInv'
<1> SUFFICES ASSUME RingInv, [Next]_vars PROVE RingInv'
  OBVIOUS
<1>1. TypeOK'
  BY StepType DEF RingInv
<1>2. CASE \E s \in Slaves : ReceiveHallAssignmentComplete(s)
  BY <1>1, <1>2, ReceiveRing
<1>3. CASE StartMaster
  <2>1. Len(processed') = 0
    BY <1>3 DEF StartMaster
  <2> QED  BY <1>1, <2>1 DEF RingInv
<1>4. CASE UNCHANGED <<index, buffer, processed>>
  BY <1>1, <1>4, RingFrame
<1>5. \/ \E s \in Slaves : ReceiveHallAssignmentComplete(s)
      \/ StartMaster
      \/ UNCHANGED <<index, buffer, processed>>
  BY DEF Next, EnableTransmitter, HallAssignmentComplete, Resend, ReceiveAck, LoseMessage, LoseAck,
         NewHallRequest, MasterLeaves, vars, masterVars
<1> QED  BY <1>2, <1>3, <1>4, <1>5

\* The slot of every recent id is a slot of the buffer, so the buffer contains the id.
LEMMA RingRemembers == RingInv => RemembersRecent
<1> SUFFICES ASSUME RingInv, NEW i \in DOMAIN processed, Len(processed) - (BufferSize - 1) < i
             PROVE  Contains(processed[i])
  BY DEF RemembersRecent
<1> DEFINE age == Len(processed) - i
<1>1. /\ index \in 0 .. Used /\ Used \in Nat \ {0} /\ Slots = 0 .. Used
      /\ processed \in Seq(IDs) /\ BufferSize \in Nat
  BY SlotType, CompleteAssumption DEF RingInv, TypeOK
<1>2. /\ age \in 0 .. Len(processed) - 1 /\ age < Used /\ Len(processed) - age = i
  BY <1>1 DEF Used
<1> HIDE DEF age
<1>3. buffer[SlotOf(age)] = processed[i]
  BY <1>2 DEF RingInv
<1>4. SlotOf(age) \in Slots
  BY <1>1, <1>2 DEF SlotOf
<1> QED  BY <1>3, <1>4 DEF Contains

\* The ring of MessageIDBuffer holds the ids processed last, but for one fewer than its size, through
\* every turn and for every size.
THEOREM RingRemembersRecent == Spec => []RemembersRecent
  BY InitRing, StepRing, RingRemembers, PTL DEF Spec

\* ProcessHAComplete counts no id as new that is among the ones processed last: a resent completion
\* clears no call that was pressed again.
THEOREM ResentClearsNothing == Spec => OnlyFreshClears
<1>1. RingInv /\ [Next]_vars =>
        [\A i \in DOMAIN processed : Len(processed) - (BufferSize - 1) < i
            => ~(processed' # processed /\ processed' # <<>>
                 /\ processed'[Len(processed')] = processed[i])]_vars
  <2> SUFFICES ASSUME RingInv, Next, NEW i \in DOMAIN processed,
                      Len(processed) - (BufferSize - 1) < i,
                      processed' # processed, processed' # <<>>
               PROVE  processed'[Len(processed')] # processed[i]
    OBVIOUS
  <2>1. PICK s \in Slaves : ReceiveHallAssignmentComplete(s)
    BY DEF Next, EnableTransmitter, HallAssignmentComplete, Resend, ReceiveAck, LoseMessage, LoseAck,
           NewHallRequest, MasterLeaves, StartMaster, vars, masterVars
  <2> DEFINE id == Head(wire[s]).MessageID
  <2>2. id \in IDs /\ Record(id) /\ ~Contains(id)
    BY <2>1, TakeOffType DEF ReceiveHallAssignmentComplete, ProcessHAComplete, RingInv, TypeOK, Message
  <2> HIDE DEF id
  <2>3. processed'[Len(processed')] = id
    BY <2>2, RecordWindow DEF RingInv, TypeOK
  <2>4. Contains(processed[i])
    BY RingRemembers DEF RemembersRecent
  <2> QED  BY <2>2, <2>3, <2>4
<1> QED  BY <1>1, InitRing, StepRing, PTL DEF Spec, OnlyFreshClears

-----------------------------------------------------------------------------
(* What the slaves keep.                                                   *)

\* Acks speak of ids that a master has processed; so does whatever is in the ring.
SettledInv ==
  /\ TypeOK /\ NothingForgotten
  /\ acks \subseteq settled
  /\ \A i \in Slots : buffer[i] \in settled \cup {NoID}

\* At the start nothing is sent, acknowledged or remembered.
LEMMA InitSettled == Init => SettledInv
  BY InitType DEF Init, SettledInv, NothingForgotten

\* A completion that arrives is settled when it is acknowledged.
LEMMA ReceiveSettled ==
  ASSUME SettledInv, TypeOK', NEW s \in Slaves, ReceiveHallAssignmentComplete(s)
  PROVE  SettledInv'
<1> DEFINE id == Head(wire[s]).MessageID
<1>1. id \in IDs /\ TypeOK
  BY TakeOffType DEF ReceiveHallAssignmentComplete, SettledInv, TypeOK, Message
<1>2. acks' = acks \cup {id} /\ UNCHANGED <<active, sent>>
  BY DEF ReceiveHallAssignmentComplete, ProcessHAComplete, slaveVars
<1>3. CASE ~Contains(id) /\ Add(id) /\ settled' = settled \cup {id}
  <2>1. buffer \in [Slots -> IDs \cup {NoID}] /\ buffer' = [buffer EXCEPT ![AddSlot] = id]
    BY <1>1, <1>3 DEF TypeOK, Add
  <2> QED  BY <1>1, <1>2, <1>3, <2>1 DEF SettledInv, NothingForgotten
<1>4. CASE Contains(id) /\ UNCHANGED <<buffer, settled>>
  <2>1. id \in settled
    BY <1>1, <1>4 DEF SettledInv, Contains, IDs, NoID
  <2> QED  BY <1>2, <1>4, <2>1 DEF SettledInv, NothingForgotten
<1> HIDE DEF id
<1>5. \/ ~Contains(id) /\ Add(id) /\ settled' = settled \cup {id}
      \/ Contains(id) /\ UNCHANGED <<buffer, settled>>
  BY DEF ReceiveHallAssignmentComplete, ProcessHAComplete, id
<1> QED  BY <1>3, <1>4, <1>5

\* What a slave does on its own.
SlaveStep(s) == \/ \E on \in BOOLEAN : EnableTransmitter(s, on)
                \/ \E call \in HallCalls : HallAssignmentComplete(s, call)
                \/ \E id \in IDs : Resend(s, id) \/ ReceiveAck(s, id)

\* What a slave does leaves the settled ids alone, and forgets none that is not settled.
LEMMA SlaveSettled ==
  ASSUME SettledInv, TypeOK', NEW s \in Slaves, SlaveStep(s)
  PROVE  SettledInv'
<1>0. /\ TypeOK /\ active \in [Slaves -> SUBSET Message] /\ sent \in [Slaves -> SUBSET IDs]
      /\ UNCHANGED <<settled, buffer>> /\ acks' \subseteq acks
  BY DEF SlaveStep, SettledInv, TypeOK, EnableTransmitter, HallAssignmentComplete, Resend, ReceiveAck, masterVars
<1>1. NothingForgotten'
  <2> SUFFICES ASSUME NEW t \in Slaves, NEW i \in sent'[t], i \notin settled
               PROVE  \E m \in active'[t] : m.MessageID = i
    BY <1>0 DEF NothingForgotten
  <2>1. i \in sent[t] => \E m \in active[t] : m.MessageID = i
    BY DEF SettledInv, NothingForgotten
  <2>2. ASSUME NEW on \in BOOLEAN, EnableTransmitter(s, on) PROVE \E m \in active'[t] : m.MessageID = i
    <3>1. sent' = [sent EXCEPT ![s] = {}]
      BY <2>2 DEF EnableTransmitter
    <3>2. t # s /\ sent'[t] = sent[t]
      BY <1>0, <3>1
    <3>3. active'[t] = active[t]
      BY <1>0, <2>2, <3>2 DEF EnableTransmitter
    <3> QED  BY <2>1, <3>2, <3>3
  <2>3. ASSUME NEW call \in HallCalls, HallAssignmentComplete(s, call)
        PROVE  \E m \in active'[t] : m.MessageID = i
    <3> DEFINE m == [call |-> call, MessageID |-> nextID]
    <3>1. /\ active' = [active EXCEPT ![s] = @ \cup {m}] /\ m.MessageID = nextID
          /\ sent' = [sent EXCEPT ![s] = @ \cup {nextID}]
      BY <2>3 DEF HallAssignmentComplete
    <3> HIDE DEF m
    <3>2. active[t] \subseteq active'[t]
      BY <1>0, <3>1
    <3>3. CASE i \in sent[t]
      BY <2>1, <3>2, <3>3
    <3>4. CASE i \notin sent[t]
      <4>1. t = s /\ i = nextID /\ m \in active'[t]
        BY <1>0, <3>1, <3>4
      <4> QED  BY <3>1, <4>1
    <3> QED  BY <3>3, <3>4
  <2>4. ASSUME NEW id \in IDs, Resend(s, id) PROVE \E m \in active'[t] : m.MessageID = i
    BY <2>1, <2>4 DEF Resend
  <2>5. ASSUME NEW id \in IDs, ReceiveAck(s, id) PROVE \E m \in active'[t] : m.MessageID = i
    <3>1. /\ sent' = sent /\ id \in settled
          /\ active' = [active EXCEPT ![s] = {m \in @ : m.MessageID # id}]
      BY <2>5 DEF ReceiveAck, SettledInv
    <3>2. PICK m \in active[t] : m.MessageID = i
      BY <2>1, <3>1
    <3>3. m \in active'[t]
      BY <1>0, <3>1, <3>2
    <3> QED  BY <3>2, <3>3
  <2> QED  BY <2>2, <2>3, <2>4, <2>5 DEF SlaveStep
<1> QED  BY <1>0, <1>1 DEF SettledInv

\* Every step keeps it.
LEMMA StepSettled == SettledInv /\ [Next]_vars => SettledInv'
<1> SUFFICES ASSUME SettledInv, [Next]_vars PROVE SettledInv'
  OBVIOUS
<1>1. TypeOK'
  BY StepType DEF SettledInv
<1>2. ASSUME NEW s \in Slaves, ReceiveHallAssignmentComplete(s) PROVE SettledInv'
  BY <1>1, <1>2, ReceiveSettled
<1>3. ASSUME NEW s \in Slaves, SlaveStep(s) PROVE SettledInv'
  BY <1>1, <1>3, SlaveSettled
<1>4. CASE /\ UNCHANGED <<active, sent, settled>> /\ acks' \subseteq acks
           /\ \/ buffer' = buffer
              \/ buffer' = [i \in Slots |-> NoID]
  BY <1>1, <1>4 DEF SettledInv, NothingForgotten
<1>5. (\E s \in Slaves : LoseMessage(s)) \/ (\E id \in IDs : LoseAck(id))
         \/ (\E call \in HallCalls : NewHallRequest(call)) \/ StartMaster \/ MasterLeaves
         \/ UNCHANGED vars
      => /\ UNCHANGED <<active, sent, settled>> /\ acks' \subseteq acks
         /\ \/ buffer' = buffer
            \/ buffer' = [i \in Slots |-> NoID]
  BY DEF LoseMessage, LoseAck, NewHallRequest, StartMaster, MasterLeaves, vars, slaveVars, masterVars
<1>6. \/ \E s \in Slaves : ReceiveHallAssignmentComplete(s)
      \/ \E s \in Slaves : SlaveStep(s)
      \/ \/ \E s \in Slaves : LoseMessage(s)
         \/ \E id \in IDs : LoseAck(id)
         \/ \E call \in HallCalls : NewHallRequest(call)
         \/ StartMaster \/ MasterLeaves \/ UNCHANGED vars
  BY Zenon DEF Next, SlaveStep
<1> QED  BY <1>2, <1>3, <1>4, <1>5, <1>6

\* No completion leaves HallAssignmentCompleteTransmitter before a master has processed it.
THEOREM NoneForgotten == Spec => []NothingForgotten
<1>1. SettledInv => NothingForgotten
  BY DEF SettledInv
<1> QED  BY <1>1, InitSettled, StepSettled, PTL DEF Spec
-----------------------------------------------------------------------------
(* The resends.                                                            *)

\* Ids are taken in turn: those not taken yet have no resend due and are active nowhere, and no id
\* is active with two slaves.
ResendInv ==
  /\ TypeOK /\ ResendDue
  /\ \A id \in IDs : id >= nextID => resends[id] = 0
  /\ \A s \in Slaves : \A m \in active[s] : m.MessageID < nextID

\* At the start nothing is active and nothing is due.
LEMMA InitResend == Init => ResendInv
  BY InitType DEF Init, ResendInv, ResendDue, IDs

\* A completed call takes the next id, and its first resend is due.
LEMMA CompleteResend ==
  ASSUME ResendInv, TypeOK', NEW s \in Slaves, NEW call \in HallCalls, HallAssignmentComplete(s, call)
  PROVE  ResendInv'
<1> DEFINE m == [call |-> call, MessageID |-> nextID]
<1>1. /\ active' = [active EXCEPT ![s] = @ \cup {m}] /\ m.MessageID = nextID
      /\ resends' = [resends EXCEPT ![nextID] = @ + 1] /\ nextID' = nextID + 1 /\ nextID \in IDs
  BY DEF HallAssignmentComplete
<1> HIDE DEF m
<1>2. /\ resends \in [IDs -> Nat] /\ resends[nextID] = 0 /\ nextID \in Nat
      /\ active \in [Slaves -> SUBSET Message] /\ IDs \subseteq Nat
  BY <1>1 DEF ResendInv, TypeOK, IDs
<1>3. \A t \in Slaves : \A n \in active'[t] : n \in active[t] \/ n = m
  BY <1>1, <1>2
<1>4. \A t \in Slaves : \A n \in active[t] : /\ n.MessageID < nextID /\ resends[n.MessageID] = 1
                                             /\ n.MessageID \in IDs
  BY <1>2 DEF ResendInv, ResendDue, Message
<1>5. ResendDue'
  BY <1>1, <1>2, <1>3, <1>4 DEF ResendDue
<1>6. \A id \in IDs : id >= nextID' => resends'[id] = 0
  BY <1>1, <1>2 DEF ResendInv
<1>7. ASSUME NEW t \in Slaves, NEW n \in active'[t] PROVE n.MessageID < nextID'
  <2>1. n \in active[t] \/ n = m
    BY <1>3
  <2>2. nextID \in Nat /\ nextID' = nextID + 1
    BY <1>1, <1>2
  <2>3. CASE n = m
    BY <1>1, <2>2, <2>3
  <2>4. CASE n \in active[t]
    <3>1. n.MessageID < nextID /\ n.MessageID \in Nat
      BY <1>2, <1>4, <2>4
    <3> QED  BY <2>2, <3>1
  <2> QED  BY <2>1, <2>3, <2>4
<1> QED  BY <1>5, <1>6, <1>7 DEF ResendInv

\* Every step keeps it: only an id that is active nowhere loses its resend.
LEMMA StepResend == ResendInv /\ [Next]_vars => ResendInv'
<1> SUFFICES ASSUME ResendInv, [Next]_vars PROVE ResendInv'
  OBVIOUS
<1>0. /\ TypeOK' /\ active \in [Slaves -> SUBSET Message] /\ resends \in [IDs -> Nat]
  BY StepType DEF ResendInv, TypeOK
<1>1. ASSUME NEW s \in Slaves, NEW call \in HallCalls, HallAssignmentComplete(s, call)
      PROVE  ResendInv'
  BY <1>0, <1>1, CompleteResend
<1>2. ASSUME NEW s \in Slaves, NEW id \in IDs, Resend(s, id) PROVE ResendInv'
  <2>1. UNCHANGED <<active, nextID>> /\ resends[id] > 0
    BY <1>2 DEF Resend
  <2>2. CASE UNCHANGED resends
    BY <1>0, <2>1, <2>2 DEF ResendInv, ResendDue
  <2>3. CASE /\ \A t \in Slaves : \A m \in active[t] : m.MessageID # id
             /\ resends' = [resends EXCEPT ![id] = @ - 1]
    <3>1. \A i \in IDs : i # id => resends'[i] = resends[i]
      BY <1>0, <2>3
    <3>2. \A t \in Slaves : \A m \in active[t] : m.MessageID \in IDs /\ m.MessageID # id
      BY <1>0, <2>3 DEF Message
    <3>3. ResendDue'
      BY <2>1, <3>1, <3>2 DEF ResendInv, ResendDue
    <3>4. ~(id >= nextID)
      BY <2>1 DEF ResendInv
    <3> QED  BY <1>0, <2>1, <3>1, <3>3, <3>4 DEF ResendInv
  <2> QED  BY <1>2, <2>2, <2>3 DEF Resend
<1>3. CASE /\ \A s \in Slaves : active'[s] \subseteq active[s]
           /\ UNCHANGED <<resends, nextID>>
  BY <1>0, <1>3 DEF ResendInv, ResendDue
<1>4. \/ \E s \in Slaves, call \in HallCalls : HallAssignmentComplete(s, call)
      \/ \E s \in Slaves, id \in IDs : Resend(s, id)
      \/ (\A s \in Slaves : active'[s] \subseteq active[s]) /\ UNCHANGED <<resends, nextID>>
  BY <1>0 DEF Next, EnableTransmitter, ReceiveAck, LoseMessage, LoseAck, NewHallRequest, StartMaster,
              MasterLeaves, ReceiveHallAssignmentComplete, ProcessHAComplete, vars, slaveVars,
              masterVars
<1> QED  BY <1>1, <1>2, <1>3, <1>4

\* What waits for an ack has one resend due, whatever was lost: HallAssignmentCompleteTransmitter
\* starts a timer anew with every resend, and never a second one.
THEOREM EveryActiveResent == Spec => []ResendDue
<1>1. ResendInv => ResendDue
  BY DEF ResendInv
<1> QED  BY <1>1, InitResend, StepResend, PTL DEF Spec

-----------------------------------------------------------------------------
(* Refinement: the abstract channel of reports.                            *)

\* The messages on a wire, after one has been appended or the first taken off.
OnWire(q) == {q[i] : i \in DOMAIN q}

LEMMA OnWireAppend ==
  ASSUME NEW q \in Seq(Message), NEW m \in Message
  PROVE  OnWire(q) \subseteq OnWire(Append(q, m)) /\ OnWire(Append(q, m)) \subseteq OnWire(q) \cup {m}
<1> DEFINE r == Append(q, m)
<1>1. /\ Len(q) \in Nat /\ DOMAIN q = 1 .. Len(q) /\ DOMAIN r = 1 .. Len(q) + 1
      /\ \A i \in 1 .. Len(q) : r[i] = q[i]
      /\ r[Len(q) + 1] = m
  OBVIOUS
<1> HIDE DEF r
<1>2. \A i \in DOMAIN r : (i \in DOMAIN q /\ r[i] = q[i]) \/ r[i] = m
  BY <1>1
<1>3. \A i \in DOMAIN q : i \in DOMAIN r /\ r[i] = q[i]
  BY <1>1
<1> QED  BY <1>2, <1>3 DEF OnWire, r

LEMMA OnWireTail ==
  ASSUME NEW q \in Seq(Message), q # <<>>
  PROVE  OnWire(Tail(q)) \subseteq OnWire(q) /\ Head(q) \in OnWire(q)
<1> DEFINE r == Tail(q)
<1>1. /\ Len(q) \in Nat \ {0} /\ DOMAIN q = 1 .. Len(q) /\ DOMAIN r = 1 .. Len(q) - 1
      /\ \A i \in 1 .. Len(q) - 1 : r[i] = q[i + 1]
      /\ Head(q) = q[1]
  OBVIOUS
<1> HIDE DEF r
<1>2. \A i \in DOMAIN r : i + 1 \in DOMAIN q /\ r[i] = q[i + 1]
  BY <1>1
<1>3. 1 \in DOMAIN q
  BY <1>1
<1> QED  BY <1>1, <1>2, <1>3 DEF OnWire, r

\* Sending m adds at most m, and only to the wire of its slave.
LEMMA OnWireTransmit ==
  ASSUME TypeOK, NEW s \in Slaves, NEW m \in Message, Transmit(s, m), NEW t \in Slaves
  PROVE  /\ OnWire(wire[t]) \subseteq OnWire(wire'[t])
         /\ OnWire(wire'[t]) \subseteq OnWire(wire[t]) \cup (IF s = t THEN {m} ELSE {})
<1>1. wire \in [Slaves -> Seq(Message)] /\ wire[t] \in Seq(Message)
  BY DEF TypeOK
<1>2. wire'[t] = wire[t] \/ (s = t /\ wire'[t] = Append(wire[t], m))
  BY <1>1 DEF Transmit
<1> QED  BY <1>1, <1>2, OnWireAppend

\* A step that leaves alone what is under way from the other slaves, and brings from s nothing but
\* the given reports, keeps the promise of the channel for s.
LEMMA KeepPending ==
  ASSUME NEW s \in Slaves, NEW reports, UnderWay(s)' \subseteq reports,
         \A t \in Slaves : t # s => UnderWay(t)' = UnderWay(t)
  PROVE  /\ \E kept \in SUBSET reports : Pending' = [Pending EXCEPT ![s] = kept]
         /\ active'[s] \subseteq Pending'[s]
<1>1. Pending' = [Pending EXCEPT ![s] = UnderWay(s)']
  BY DEF Pending
<1> QED  BY <1>1 DEF Pending, UnderWay

\* At the start nobody is on duty and nothing under way.
LEMMA InitChannel == Init => Reports!ReportInit
<1> SUFFICES ASSUME Init PROVE Reports!ReportInit
  OBVIOUS
<1>1. ASSUME NEW s \in Slaves PROVE UnderWay(s) = {}
  <2>1. wire[s] = <<>> /\ active[s] = {}
    BY DEF Init
  <2>2. DOMAIN wire[s] = {}
    BY <2>1
  <2> QED  BY <2>1, <2>2 DEF UnderWay
<1>2. OnDuty = {}
  BY DEF Init, OnDuty
<1> QED  BY <1>1, <1>2 DEF Init, Pending, Reports!ReportInit

\* A slave's transmitter is switched on: it joins; or off: it leaves, and repeats nothing.
LEMMA EnableChannel ==
  ASSUME TypeOK, NEW s \in Slaves, NEW on \in BOOLEAN, EnableTransmitter(s, on)
  PROVE  Reports!Join(s) \/ Reports!Leave(s)
<1>1. /\ enable[s] # on /\ enable' = [enable EXCEPT ![s] = on] /\ enable \in [Slaves -> BOOLEAN]
      /\ active' = (IF on THEN active ELSE [active EXCEPT ![s] = {}])
      /\ UNCHANGED <<nextID, wire, processed, settled, requests>>
  BY DEF EnableTransmitter, masterVars, TypeOK
<1>2. active \in [Slaves -> SUBSET Message]
  BY DEF TypeOK
<1>3. CASE on
  <2>1. OnDuty' = OnDuty \cup {s}
    BY <1>1, <1>3 DEF OnDuty
  <2> QED  BY <1>1, <1>3, <2>1 DEF Pending, UnderWay, Reports!Join
<1>4. CASE ~on
  <2>1. OnDuty' = OnDuty \ {s} /\ s \in OnDuty
    BY <1>1, <1>4 DEF OnDuty
  <2>2. active' = [active EXCEPT ![s] = {}]
    BY <1>1, <1>4
  <2>3. UnderWay(s)' \subseteq UnderWay(s) /\ \A t \in Slaves : t # s => UnderWay(t)' = UnderWay(t)
    BY <1>1, <1>2, <2>2 DEF UnderWay
  <2>4. Reports!Keep(s, Pending[s])
    BY <2>3, KeepPending DEF Pending, Reports!Keep
  <2> QED  BY <1>1, <2>1, <2>2, <2>4 DEF Reports!Leave
<1> QED  BY <1>3, <1>4

\* A call the elevator has served is a report made.
LEMMA CompleteChannel ==
  ASSUME TypeOK, NEW s \in Slaves, NEW call \in HallCalls, HallAssignmentComplete(s, call)
  PROVE  Reports!Report(s, call)
<1> DEFINE m == [call |-> call, MessageID |-> nextID]
<1>1. /\ enable[s] /\ nextID' = nextID + 1 /\ Transmit(s, m) /\ m \in Message
      /\ active' = [active EXCEPT ![s] = @ \cup {m}] /\ active \in [Slaves -> SUBSET Message]
      /\ UNCHANGED <<enable, processed, settled, requests>>
  BY DEF HallAssignmentComplete, masterVars, TypeOK, Message
<1>2. nextID' - 1 = nextID - 1 + 1 /\ nextID' - 1 = nextID
  BY <1>1 DEF TypeOK
<1>3. m = [call |-> call, MessageID |-> nextID' - 1]
  BY <1>2
<1> HIDE DEF m
<1>4. UnderWay(s)' \subseteq UnderWay(s) \cup {m}
  <2>1. OnWire(wire'[s]) \subseteq OnWire(wire[s]) \cup {m}
    BY <1>1, OnWireTransmit
  <2> QED  BY <1>1, <2>1 DEF UnderWay, OnWire
<1>5. ASSUME NEW t \in Slaves, t # s PROVE UnderWay(t)' = UnderWay(t)
  <2>1. OnWire(wire'[t]) \subseteq OnWire(wire[t]) /\ OnWire(wire[t]) \subseteq OnWire(wire'[t])
    BY <1>1, <1>5, OnWireTransmit
  <2>2. active'[t] = active[t]
    BY <1>1, <1>5
  <2> QED  BY <2>1, <2>2 DEF UnderWay, OnWire
<1>6. Reports!Keep(s, Pending[s] \cup {m})
  BY <1>4, <1>5, KeepPending DEF Pending, Reports!Keep
<1>7. s \in OnDuty /\ OnDuty' = OnDuty
  BY <1>1 DEF OnDuty
<1> QED  BY <1>1, <1>2, <1>3, <1>6, <1>7 DEF Reports!Report

\* A resend puts on the wire what is under way anyway: no step of the channel.
LEMMA ResendChannel ==
  ASSUME TypeOK, NEW s \in Slaves, NEW id \in IDs, Resend(s, id)
  PROVE  UNCHANGED Reports!reportVars
<1>1. UNCHANGED <<enable, active, nextID, processed, settled, requests>>
  BY DEF Resend, masterVars
<1>2. ASSUME NEW t \in Slaves PROVE UnderWay(t)' = UnderWay(t)
  <2>1. CASE wire' = wire
    BY <1>1, <2>1 DEF UnderWay
  <2>2. ASSUME NEW m \in active[s], Transmit(s, m) PROVE UnderWay(t)' = UnderWay(t)
    <3>1. m \in Message
      BY DEF TypeOK
    <3>2. /\ OnWire(wire[t]) \subseteq OnWire(wire'[t])
          /\ OnWire(wire'[t]) \subseteq OnWire(wire[t]) \cup (IF s = t THEN {m} ELSE {})
      BY <2>2, <3>1, OnWireTransmit
    <3> QED  BY <1>1, <3>2 DEF UnderWay, OnWire
  <2> QED  BY <2>1, <2>2 DEF Resend
<1> QED  BY <1>1, <1>2 DEF Pending, OnDuty, Reports!reportVars

\* What an ack takes from a transmitter a master has processed.
LEMMA AckChannel ==
  ASSUME SettledInv, NEW s \in Slaves, NEW id \in IDs, ReceiveAck(s, id)
  PROVE  Reports!Settle(s)
<1>1. /\ active' = [active EXCEPT ![s] = {m \in @ : m.MessageID # id}] /\ id \in settled
      /\ UNCHANGED <<enable, nextID, wire, processed, settled, requests>>
  BY DEF ReceiveAck, masterVars, SettledInv
<1>2. active \in [Slaves -> SUBSET Message]
  BY DEF SettledInv, TypeOK
<1>3. /\ active'[s] = {m \in active[s] : m.MessageID # id}
      /\ \E kept \in SUBSET active[s] : active' = [active EXCEPT ![s] = kept]
  BY <1>1, <1>2
<1>4. UnderWay(s)' \subseteq UnderWay(s) /\ \A t \in Slaves : t # s => UnderWay(t)' = UnderWay(t)
  BY <1>1, <1>2 DEF UnderWay
<1>5. Reports!Keep(s, Pending[s])
  BY <1>4, KeepPending DEF Pending, Reports!Keep
<1>6. OnDuty' = OnDuty
  BY <1>1 DEF OnDuty
<1> QED  BY <1>1, <1>3, <1>5, <1>6 DEF Reports!Settle

\* A message that leaves the wire is lost, or the master has processed it before; or it is taken,
\* and then the ring did not contain it.
LEMMA TakeOffChannel ==
  ASSUME RingInv, NEW s \in Slaves, LoseMessage(s) \/ ReceiveHallAssignmentComplete(s)
  PROVE  Reports!Lose(s) \/ Reports!Take(s)
<1> DEFINE m == Head(wire[s])
<1>0. TypeOK /\ wire \in [Slaves -> Seq(Message)]
  BY DEF RingInv, TypeOK
<1>1. TakeOff(s) /\ UNCHANGED <<enable, active, nextID>>
  BY DEF LoseMessage, ReceiveHallAssignmentComplete, slaveVars
<1>2. /\ wire[s] \in Seq(Message) /\ wire[s] # <<>> /\ wire'[s] = Tail(wire[s])
      /\ \A t \in Slaves : t # s => wire'[t] = wire[t]
  BY <1>0, <1>1 DEF TakeOff
<1>3. OnWire(wire'[s]) \subseteq OnWire(wire[s]) /\ m \in OnWire(wire[s]) /\ m \in Message
  BY <1>0, <1>1, <1>2, OnWireTail, TakeOffType
<1>4. /\ UnderWay(s)' \subseteq UnderWay(s) /\ m \in UnderWay(s)
      /\ \A t \in Slaves : t # s => UnderWay(t)' = UnderWay(t)
  BY <1>1, <1>2, <1>3 DEF UnderWay, OnWire
<1>5. /\ \E kept \in SUBSET Pending[s] : Pending' = [Pending EXCEPT ![s] = kept]
      /\ active'[s] \subseteq Pending'[s]
  BY <1>4, KeepPending DEF Pending
<1>6. OnDuty' = OnDuty
  BY <1>1 DEF OnDuty
<1>7. CASE UNCHANGED <<processed, settled, requests>>
  BY <1>1, <1>5, <1>6, <1>7 DEF Reports!Lose, Reports!Keep
<1>8. CASE /\ ~Contains(m.MessageID) /\ Record(m.MessageID)
           /\ requests' = requests \ {m.call} /\ settled' = settled \cup {m.MessageID}
  <2>1. ~Reports!Remembered(m.MessageID)
    BY <1>8, RingRemembers DEF RemembersRecent, Reports!Remembered
  <2>2. \/ processed' = Append(processed, m.MessageID)
        \/ Len(processed) > BufferSize - 1 /\ processed' = Append(Tail(processed), m.MessageID)
    <3>1. Len(processed) \in Nat /\ BufferSize \in Nat
      BY <1>0, CompleteAssumption DEF TypeOK
    <3> QED  BY <1>8, <3>1 DEF Record
  <2>3. m \in Pending[s]
    BY <1>4 DEF Pending
  <2> HIDE DEF m
  <2> QED  BY <1>1, <1>5, <1>6, <1>8, <2>1, <2>2, <2>3 DEF Reports!Take, Reports!Keep
<1> QED  BY <1>7, <1>8 DEF LoseMessage, ReceiveHallAssignmentComplete, ProcessHAComplete, masterVars

\* Every step of transmitters, network and master is a step of the channel or none.
LEMMA StepChannel ==
  ASSUME RingInv, SettledInv, [Next]_vars
  PROVE  [Reports!ReportNext]_Reports!reportVars
<1>0. TypeOK
  BY DEF RingInv
<1>1. ASSUME NEW s \in Slaves, NEW on \in BOOLEAN, EnableTransmitter(s, on) PROVE Reports!ReportNext
  BY <1>0, <1>1, EnableChannel DEF Reports!ReportNext
<1>2. ASSUME NEW s \in Slaves, NEW call \in HallCalls, HallAssignmentComplete(s, call)
      PROVE  Reports!ReportNext
  BY <1>0, <1>2, CompleteChannel DEF Reports!ReportNext
<1>3. ASSUME NEW s \in Slaves, NEW id \in IDs, Resend(s, id) PROVE UNCHANGED Reports!reportVars
  BY <1>0, <1>3, ResendChannel
<1>4. ASSUME NEW s \in Slaves, NEW id \in IDs, ReceiveAck(s, id) PROVE Reports!ReportNext
  BY <1>4, AckChannel DEF Reports!ReportNext
<1>5. ASSUME NEW s \in Slaves, LoseMessage(s) \/ ReceiveHallAssignmentComplete(s)
      PROVE  Reports!ReportNext
  BY <1>5, TakeOffChannel DEF Reports!ReportNext
<1>6. ASSUME NEW call \in HallCalls, NewHallRequest(call) PROVE Reports!ReportNext
  <2>1. Reports!Press(call)
    BY <1>6 DEF NewHallRequest, slaveVars, Pending, UnderWay, OnDuty, Reports!Press
  <2> QED  BY <2>1 DEF Reports!ReportNext
<1>7. CASE StartMaster
  <2>1. Reports!NewMaster
    BY <1>7 DEF StartMaster, slaveVars, Pending, UnderWay, OnDuty, Reports!NewMaster
  <2> QED  BY <2>1 DEF Reports!ReportNext
<1>8. CASE (\E id \in IDs : LoseAck(id)) \/ MasterLeaves \/ UNCHANGED vars
  <2>1. UNCHANGED <<enable, active, nextID, wire, processed, settled, requests>>
    BY <1>8 DEF LoseAck, MasterLeaves, vars, slaveVars, masterVars
  <2> QED  BY <2>1 DEF Pending, UnderWay, OnDuty, Reports!reportVars
<1> QED  BY <1>1, <1>2, <1>3, <1>4, <1>5, <1>6, <1>7, <1>8 DEF Next

\* However often completions and acks are lost, resent or overtaken, for any slaves and a ring of any
\* size, the transmitters and ProcessHAComplete report served calls as ReportChannel promises.
THEOREM ReportsOnce == Spec => ImplementsReportChannel
<1>1. RingInv /\ SettledInv /\ [Next]_vars => [Reports!ReportNext]_Reports!reportVars
  BY StepChannel
<1> QED  BY <1>1, InitChannel, InitRing, StepRing, InitSettled, StepSettled, PTL
         DEF Spec, ImplementsReportChannel, Reports!ReportSpec

\* Reports under way are numbered, and so are those taken.
Numbered == /\ nextID - 1 \in Nat /\ processed \in Seq(Nat)
            /\ Pending \in [Slaves -> SUBSET [call : HallCalls, MessageID : Nat]]

\* What leaves no more than these reports under way keeps them numbered.
LEMMA KeepNumbered ==
  ASSUME NEW s \in Slaves, NEW reports \in SUBSET [call : HallCalls, MessageID : Nat],
         Reports!Keep(s, reports), Pending \in [Slaves -> SUBSET [call : HallCalls, MessageID : Nat]]
  PROVE  Pending' \in [Slaves -> SUBSET [call : HallCalls, MessageID : Nat]]
  BY DEF Reports!Keep

\* What is taken is none of the last taken, and the oldest may be forgotten.
LEMMA TakeOnce ==
  ASSUME NEW id \in Nat, processed \in Seq(Nat), Reports!TakenOnce, ~Reports!Remembered(id),
         \/ processed' = Append(processed, id)
         \/ Len(processed) > BufferSize - 1 /\ processed' = Append(Tail(processed), id)
  PROVE  processed' \in Seq(Nat) /\ Reports!TakenOnce'
<1>0. BufferSize - 1 \in Nat /\ Len(processed) \in Nat
  BY CompleteAssumption
<1>1. CASE processed' = Append(processed, id)
  <2>1. /\ processed' \in Seq(Nat) /\ Len(processed') = Len(processed) + 1
        /\ processed'[Len(processed) + 1] = id
        /\ \A i \in DOMAIN processed : processed'[i] = processed[i]
    BY <1>1
  <2>2. ASSUME NEW i \in DOMAIN processed', NEW j \in DOMAIN processed', i < j, j - i <= BufferSize - 1
        PROVE  processed'[i] # processed'[j]
    <3>1. i \in DOMAIN processed /\ (j \in DOMAIN processed \/ j = Len(processed) + 1)
      BY <2>1, <2>2
    <3>2. CASE j \in DOMAIN processed
      BY <2>1, <2>2, <3>1, <3>2 DEF Reports!TakenOnce
    <3>3. CASE j = Len(processed) + 1
      <4>1. Len(processed) - (BufferSize - 1) < i
        BY <1>0, <2>2, <3>1, <3>3
      <4> QED  BY <2>1, <3>1, <3>3, <4>1 DEF Reports!Remembered
    <3> QED  BY <3>1, <3>2, <3>3
  <2> QED  BY <2>1, <2>2 DEF Reports!TakenOnce
<1>2. CASE Len(processed) > BufferSize - 1 /\ processed' = Append(Tail(processed), id)
  <2> DEFINE rest == Tail(processed)  n == Len(processed)
  <2>1. /\ rest \in Seq(Nat) /\ Len(rest) = n - 1
        /\ \A i \in 1 .. n - 1 : rest[i] = processed[i + 1]
    BY <1>0, <1>2
  <2>2. n \in Nat /\ n > 0 /\ processed' = Append(rest, id)
    BY <1>0, <1>2
  <2>3. DOMAIN processed = 1 .. n
    OBVIOUS
  <2> HIDE DEF rest, n
  <2>4. /\ processed' \in Seq(Nat) /\ DOMAIN processed' = 1 .. n
        /\ processed'[n] = id
        /\ \A i \in 1 .. n - 1 : processed'[i] = rest[i]
    BY <2>1, <2>2
  <2>5. ASSUME NEW i \in 1 .. n, NEW j \in 1 .. n, i < j, j - i <= BufferSize - 1
        PROVE  processed'[i] # processed'[j]
    <3>1. i \in 1 .. n - 1 /\ i + 1 \in 1 .. n /\ processed'[i] = processed[i + 1]
      BY <2>1, <2>2, <2>4, <2>5
    <3>2. CASE j # n
      <4>1. j + 1 \in 1 .. n /\ processed'[j] = processed[j + 1]
        BY <2>1, <2>2, <2>4, <2>5, <3>2
      <4>2. i + 1 < j + 1 /\ (j + 1) - (i + 1) <= BufferSize - 1
        BY <1>0, <2>5
      <4> QED  BY <2>3, <3>1, <4>1, <4>2 DEF Reports!TakenOnce
    <3>3. CASE j = n
      <4>1. n - (BufferSize - 1) < i + 1
        BY <1>0, <2>2, <2>5, <3>3
      <4>2. Len(processed) - (BufferSize - 1) < i + 1
        BY <4>1 DEF n
      <4> QED  BY <2>3, <2>4, <3>1, <3>3, <4>2 DEF Reports!Remembered
    <3> QED  BY <3>2, <3>3
  <2> QED  BY <2>4, <2>5 DEF Reports!TakenOnce
<1> QED  BY <1>1, <1>2

\* The report channel is promise enough: whatever takes reports as it says counts none twice before
\* as many others came as ProcessHAComplete's ring remembers (master.go:191).
THEOREM PromiseTakesOnce == Reports!ReportSpec => []Reports!TakenOnce
<1> DEFINE Inv == Numbered /\ Reports!TakenOnce
<1>1. Reports!ReportInit => Inv
  <2> SUFFICES ASSUME Reports!ReportInit PROVE Inv
    OBVIOUS
  <2>1. processed = <<>> /\ nextID - 1 = 0 /\ Pending = [s \in Slaves |-> {}]
    BY DEF Reports!ReportInit
  <2> QED  BY <2>1 DEF Numbered, Reports!TakenOnce
<1>2. ASSUME Inv, [Reports!ReportNext]_(Reports!reportVars)
      PROVE  Inv'
  <2>1. ASSUME processed' = processed PROVE Reports!TakenOnce'
    BY <1>2, <2>1 DEF Reports!TakenOnce
  <2>2. ASSUME \/ UNCHANGED Reports!reportVars
               \/ \E call \in HallCalls : Reports!Press(call)
               \/ \E s \in Slaves : Reports!Join(s)
        PROVE  Inv'
    <3>1. processed' = processed /\ nextID' - 1 = nextID - 1 /\ Pending' = Pending
      BY <2>2 DEF Reports!reportVars, Reports!Press, Reports!Join
    <3> QED  BY <1>2, <2>1, <3>1 DEF Numbered
  <2>3. ASSUME NEW s \in Slaves, Reports!Leave(s) \/ Reports!Lose(s) \/ Reports!Settle(s)
        PROVE  Inv'
    <3>1. processed' = processed /\ nextID' - 1 = nextID - 1 /\ Reports!Keep(s, Pending[s])
      BY <2>3 DEF Reports!Leave, Reports!Lose, Reports!Settle
    <3>2. Pending[s] \in SUBSET [call : HallCalls, MessageID : Nat]
      BY <1>2 DEF Numbered
    <3> QED  BY <1>2, <2>1, <3>1, <3>2, KeepNumbered DEF Numbered
  <2>4. ASSUME NEW s \in Slaves, NEW call \in HallCalls, Reports!Report(s, call)
        PROVE  Inv'
    <3> DEFINE r == [call |-> call, MessageID |-> nextID' - 1]
    <3>1. processed' = processed /\ nextID' - 1 = nextID - 1 + 1 /\ Reports!Keep(s, Pending[s] \cup {r})
      BY <2>4 DEF Reports!Report
    <3>2. nextID' - 1 \in Nat
      BY <1>2, <3>1 DEF Numbered
    <3>3. Pending[s] \cup {r} \in SUBSET [call : HallCalls, MessageID : Nat]
      BY <1>2, <3>2 DEF Numbered
    <3> HIDE DEF r
    <3> QED  BY <1>2, <2>1, <3>1, <3>2, <3>3, KeepNumbered DEF Numbered
  <2>5. ASSUME NEW s \in Slaves, Reports!Take(s)
        PROVE  Inv'
    <3>1. PICK r \in Pending[s] :
            /\ ~Reports!Remembered(r.MessageID)
            /\ \/ processed' = Append(processed, r.MessageID)
               \/ Len(processed) > BufferSize - 1 /\ processed' = Append(Tail(processed), r.MessageID)
            /\ nextID' - 1 = nextID - 1 /\ Reports!Keep(s, Pending[s])
      BY <2>5 DEF Reports!Take
    <3>2. r.MessageID \in Nat /\ Pending[s] \in SUBSET [call : HallCalls, MessageID : Nat]
      BY <1>2 DEF Numbered
    <3>3. processed' \in Seq(Nat) /\ Reports!TakenOnce'
      BY <1>2, <3>1, <3>2, TakeOnce DEF Numbered
    <3> QED  BY <1>2, <3>1, <3>2, <3>3, KeepNumbered DEF Numbered
  <2>6. CASE Reports!NewMaster
    <3>1. processed' = <<>> /\ nextID' - 1 = nextID - 1 /\ Pending' = Pending
      BY <2>6 DEF Reports!NewMaster
    <3> QED  BY <1>2, <3>1 DEF Numbered, Reports!TakenOnce
  <2> QED  BY <1>2, <2>2, <2>3, <2>4, <2>5, <2>6 DEF Reports!ReportNext
<1> QED  BY <1>1, <1>2, PTL DEF Reports!ReportSpec
=============================================================================
