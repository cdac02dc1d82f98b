--------------------------- MODULE ElectionProofs ---------------------------
(***************************************************************************)
(* Proofs about Election, for any finite number of nodes, any number of    *)
(* faults and any timers, as long as a node asks at least twice between    *)
(* two decisions: while the network stays as it is, no two masters hear    *)
(* each other, the node with the latest contact is elected, and the        *)
(* election implements Mastership.                                         *)
(***************************************************************************)
EXTENDS Election, FiniteSetTheorems, TLAPS

-----------------------------------------------------------------------------
(* Times of last contact.                                                  *)

\* The image of the finite set of nodes is finite and not larger than it.
LEMMA TimesFinite ==
  ASSUME NEW times \in [Nodes -> Nat]
  PROVE  LET vals == {times[p] : p \in Nodes} IN
           IsFiniteSet(vals) /\ Cardinality(vals) <= Cardinality(Nodes)
<1> DEFINE vals == {times[p] : p \in Nodes}
<1>1. times \in Surjection(Nodes, vals)
  BY DEF Surjection
<1> QED  BY <1>1, FS_Surjection, ElectionAssumption DEF ElectionAssumption

\* Ranked keeps the order of the times and which of them are zero.
LEMMA RankedOrder ==
  ASSUME NEW times \in [Nodes -> Nat]
  PROVE  /\ Ranked(times) \in [Nodes -> 0..Cardinality(Nodes)]
         /\ \A n, p \in Nodes : Ranked(times)[n] < Ranked(times)[p] <=> times[n] < times[p]
         /\ \A n \in Nodes : Ranked(times)[n] = 0 <=> times[n] = 0
<1> DEFINE vals == {times[p] : p \in Nodes}
           below(t) == vals \cap 1..t
<1>1. IsFiniteSet(vals) /\ Cardinality(vals) <= Cardinality(Nodes)
  BY TimesFinite
<1>2. ASSUME NEW t \in Nat
      PROVE  /\ IsFiniteSet(below(t))
             /\ Cardinality(below(t)) \in 0..Cardinality(Nodes)
  <2>1. below(t) \in SUBSET vals
    OBVIOUS
  <2>2. IsFiniteSet(below(t)) /\ Cardinality(below(t)) <= Cardinality(vals)
    BY <1>1, <2>1, FS_Subset
  <2>3. /\ Cardinality(below(t)) \in Nat /\ Cardinality(vals) \in Nat
        /\ Cardinality(Nodes) \in Nat
    BY <1>1, <2>2, FS_CardinalityType, ElectionAssumption DEF ElectionAssumption
  <2> QED  BY <1>1, <2>2, <2>3
<1>3. ASSUME NEW s \in Nat, NEW t \in Nat, s <= t
      PROVE  Cardinality(below(s)) <= Cardinality(below(t))
  <2>1. below(s) \in SUBSET below(t)
    BY <1>3
  <2> QED  BY <1>2, <2>1, FS_Subset
<1>4. ASSUME NEW s \in Nat, NEW t \in vals, s < t
      PROVE  Cardinality(below(s)) < Cardinality(below(t))
  <2>1. below(s) \in SUBSET below(t) /\ t \in below(t) /\ t \notin below(s)
    BY <1>4
  <2>2. Cardinality(below(s)) <= Cardinality(below(t))
        /\ Cardinality(below(s)) # Cardinality(below(t))
    BY <1>2, <2>1, FS_Subset
  <2>3. Cardinality(below(s)) \in Nat /\ Cardinality(below(t)) \in Nat
    BY <1>2, FS_CardinalityType
  <2> QED  BY <2>2, <2>3
<1>5. Cardinality(below(0)) = 0
  <2>1. below(0) = {}
    OBVIOUS
  <2> QED  BY <2>1, FS_EmptySet
<1>6. Ranked(times) = [n \in Nodes |-> Cardinality(below(times[n]))]
  BY DEF Ranked
<1> HIDE DEF below
<1>7. \A n \in Nodes : times[n] \in Nat /\ times[n] \in vals
  OBVIOUS
<1> HIDE DEF vals
<1>8. ASSUME NEW n \in Nodes PROVE Ranked(times)[n] \in 0..Cardinality(Nodes)
  BY <1>2, <1>6, <1>7
<1>9. ASSUME NEW n \in Nodes, NEW p \in Nodes
      PROVE  Ranked(times)[n] < Ranked(times)[p] <=> times[n] < times[p]
  <2>1. CASE times[n] < times[p]
    BY <1>4, <1>6, <1>7, <2>1
  <2>2. CASE times[p] <= times[n]
    <3>1. Cardinality(below(times[p])) <= Cardinality(below(times[n]))
      BY <1>3, <1>7, <2>2
    <3>2. Ranked(times)[p] <= Ranked(times)[n]
      BY <1>6, <3>1
    <3>3. Cardinality(Nodes) \in Nat
      BY FS_CardinalityType, ElectionAssumption DEF ElectionAssumption
    <3> QED  BY <1>7, <1>8, <2>2, <3>2, <3>3
  <2> QED  BY <1>7, <2>1, <2>2
<1>10. ASSUME NEW n \in Nodes PROVE Ranked(times)[n] = 0 <=> times[n] = 0
  <2>1. CASE times[n] = 0
    BY <1>5, <1>6, <2>1
  <2>2. CASE 0 < times[n]
    <3>1. Cardinality(below(0)) < Cardinality(below(times[n]))
      BY <1>4, <1>7, <2>2
    <3> QED  BY <1>5, <1>6, <2>2, <3>1
  <2> QED  BY <1>7, <2>1, <2>2
<1>11. Ranked(times) \in [Nodes -> 0..Cardinality(Nodes)]
  BY <1>6, <1>8
<1> QED  BY <1>8, <1>9, <1>10, <1>11

\* Distinct nodes that had contact had it at distinct times.
DistinctTimes == \A n, p \in Nodes : n # p /\ tolc[n] # 0 => tolc[n] # tolc[p]

\* The times of the nodes outside ns are ordered as before.
SameOrder(ns) == \A n, p \in Nodes \ ns :
  /\ tolc'[n] = 0 <=> tolc[n] = 0
  /\ tolc'[n] < tolc'[p] <=> tolc[n] < tolc[p]

\* What a new time, none or the latest, of one node changes.
LEMMA NewTime ==
  ASSUME tolc \in [Nodes -> 0..Cardinality(Nodes)], DistinctTimes,
         NEW n \in Nodes, NEW t \in {0, Cardinality(Nodes) + 1},
         tolc' = Ranked([tolc EXCEPT ![n] = t])
  PROVE  tolc' \in [Nodes -> 0..Cardinality(Nodes)] /\ DistinctTimes' /\ SameOrder({n})
<1> DEFINE times == [tolc EXCEPT ![n] = t]
<1>1. Cardinality(Nodes) \in Nat
  BY FS_CardinalityType, ElectionAssumption DEF ElectionAssumption
<1>2. times \in [Nodes -> Nat] /\ times[n] = t /\ \A p \in Nodes \ {n} : times[p] = tolc[p]
  BY <1>1
<1>3. \A p \in Nodes \ {n} : times[p] <= Cardinality(Nodes)
  BY <1>1, <1>2
<1> HIDE DEF times
<1>4. /\ tolc' \in [Nodes -> 0..Cardinality(Nodes)]
      /\ \A q, p \in Nodes : tolc'[q] < tolc'[p] <=> times[q] < times[p]
      /\ \A q \in Nodes : tolc'[q] = 0 <=> times[q] = 0
  <2>1. tolc' = Ranked(times)
    BY DEF times
  <2> QED  BY <1>2, <2>1, RankedOrder
<1>5. SameOrder({n})
  BY <1>2, <1>4 DEF SameOrder
<1>6. ASSUME NEW q \in Nodes, NEW p \in Nodes, q # p, tolc'[q] # 0
      PROVE  tolc'[q] # tolc'[p]
  <2>1. times[q] \in Nat /\ times[p] \in Nat /\ times[q] # 0
    BY <1>2, <1>4, <1>6
  <2>2. times[q] # times[p]
    <3>1. CASE q = n
      BY <1>1, <1>2, <1>3, <1>6, <2>1, <3>1
    <3>2. CASE p = n
      BY <1>1, <1>2, <1>3, <1>6, <2>1, <3>2
    <3>3. CASE q # n /\ p # n
      BY <1>2, <1>6, <2>1, <3>3 DEF DistinctTimes
    <3> QED  BY <3>1, <3>2, <3>3
  <2>3. times[q] < times[p] \/ times[p] < times[q]
    BY <2>1, <2>2
  <2>4. tolc'[q] < tolc'[p] \/ tolc'[p] < tolc'[q]
    BY <1>4, <2>3, Zenon
  <2>5. tolc'[q] \in 0..Cardinality(Nodes) /\ tolc'[p] \in 0..Cardinality(Nodes)
    BY <1>4, Zenon
  <2> QED  BY <1>1, <2>4, <2>5
<1>7. DistinctTimes'
  BY <1>6 DEF DistinctTimes
<1> QED  BY <1>4, <1>5, <1>7

-----------------------------------------------------------------------------
(* Types.                                                                  *)

LEMMA Constants ==
  /\ Cardinality(Nodes) \in Nat /\ DecisionTicks \in Nat /\ DecisionTicks > 2
  /\ ContactTicks \in Nat \ {0} /\ MaxFaults \in Nat
  BY FS_CardinalityType, ElectionAssumption DEF ElectionAssumption

\* Only a slave waits for its master's broadcasts.
TimersOfSlaves == \A n \in Nodes : masterTimer[n] # "stopped" => mode[n] = "Slave"

\* What the nodes keep themselves, of TypeOK.
NodeTypes ==
  /\ mode \in [Nodes -> Modes]
  /\ heard \in [Nodes -> SUBSET Nodes]
  /\ \A n \in Nodes : rivals[n] \subseteq heard[n]
  /\ due \subseteq In("Disconnected")
  /\ timer \in [Nodes -> 0..(DecisionTicks + ContactTicks)]
  /\ masterTimer \in [Nodes -> MasterTimers]
  /\ TimersOfSlaves

\* Inductive: types, the order of the times, and whose timer runs.
Typed == TypeOK /\ DistinctTimes /\ TimersOfSlaves

\* Entering a mode keeps the types.
LEMMA EnterTyped ==
  ASSUME NodeTypes, NEW ns \in SUBSET Nodes, NEW m \in Modes, Enter(ns, m)
  PROVE  NodeTypes' /\ \A n \in Nodes : mode'[n] = IF n \in ns THEN m ELSE mode[n]
<1>1. mode' = [n \in Nodes |-> IF n \in ns THEN m ELSE mode[n]]
  BY DEF Enter
<1>2. mode' \in [Nodes -> Modes]
  BY <1>1 DEF NodeTypes
<1>3. heard' \in [Nodes -> SUBSET Nodes]
  BY DEF NodeTypes, Enter
<1>4. \A n \in Nodes : rivals'[n] \subseteq heard'[n]
  BY DEF NodeTypes, Enter
<1>5. due' \subseteq In("Disconnected")'
  BY <1>1 DEF NodeTypes, Enter, In
<1>6. timer' \in [Nodes -> 0..(DecisionTicks + ContactTicks)]
  <2> DEFINE new == CASE m = "Inactive" -> 0 [] m = "Disconnected" -> DecisionTicks [] OTHER -> ContactTicks
  <2>1. new \in 0..(DecisionTicks + ContactTicks)
    BY Constants DEF Modes
  <2>2. timer' = [n \in Nodes |-> IF n \notin ns THEN timer[n] ELSE new]
    BY DEF Enter
  <2> HIDE DEF new
  <2> QED  BY <2>1, <2>2 DEF NodeTypes
<1>7. masterTimer' \in [Nodes -> MasterTimers]
  BY DEF NodeTypes, Enter, MasterTimers
<1>8. TimersOfSlaves'
  BY <1>1 DEF NodeTypes, TimersOfSlaves, Enter
<1> QED  BY <1>1, <1>2, <1>3, <1>4, <1>5, <1>6, <1>7, <1>8 DEF NodeTypes

LEMMA Initially == Init => Typed
<1> SUFFICES ASSUME Init PROVE Typed
  OBVIOUS
<1>1. TypeOK
  <2>1. tolc \in [Nodes -> 0..Cardinality(Nodes)] /\ timer \in [Nodes -> 0..(DecisionTicks + ContactTicks)]
    BY Constants DEF Init
  <2>2. mode \in [Nodes -> Modes] /\ heard \in [Nodes -> SUBSET Nodes] /\ masterTimer \in [Nodes -> MasterTimers]
    BY DEF Init, Modes, MasterTimers
  <2>3. (\A n \in Nodes : rivals[n] \subseteq heard[n]) /\ due \subseteq In("Disconnected") /\ asked \subseteq In("Master")
    BY DEF Init
  <2>4. away \subseteq Nodes
    BY DEF Init, Movable
  <2>5. faults \in 0..MaxFaults
    BY Constants DEF Init
  <2>6. changed \in BOOLEAN
    BY Zenon DEF Init
  <2> QED  BY <2>1, <2>2, <2>3, <2>4, <2>5, <2>6 DEF TypeOK
<1>2. DistinctTimes
  BY DEF Init, DistinctTimes
<1>3. TimersOfSlaves
  BY DEF Init, TimersOfSlaves
<1> QED  BY <1>1, <1>2, <1>3 DEF Typed

\* Every step keeps the types and the order of the times.
LEMMA StepTyped == Typed /\ [Next]_vars => Typed'
<1> SUFFICES ASSUME Typed, [Next]_vars PROVE Typed'
  OBVIOUS
<1>1. NodeTypes /\ tolc \in [Nodes -> 0..Cardinality(Nodes)] /\ DistinctTimes
  BY DEF Typed, TypeOK, NodeTypes
<1>2. asked \subseteq In("Master") /\ away \subseteq Nodes /\ changed \in BOOLEAN
      /\ faults \in 0..MaxFaults
  BY DEF Typed, TypeOK
<1>3. SUFFICES /\ NodeTypes' /\ tolc' \in [Nodes -> 0..Cardinality(Nodes)]
               /\ asked' \subseteq In("Master")' /\ away' \subseteq Nodes
               /\ changed' \in BOOLEAN /\ faults' \in 0..MaxFaults
               /\ DistinctTimes'
  BY DEF Typed, TypeOK, NodeTypes
<1>4. ASSUME UNCHANGED tolc
      PROVE  tolc' \in [Nodes -> 0..Cardinality(Nodes)] /\ DistinctTimes'
  BY <1>1, <1>4 DEF DistinctTimes
<1>5. ASSUME NEW n \in Nodes, Start(n) PROVE <1>3!1
  <2>1. Enter({n}, "Disconnected") /\ UNCHANGED <<tolc, asked, network>> /\ mode[n] = "Inactive"
    BY <1>5 DEF Start
  <2>2. NodeTypes' /\ \A p \in Nodes : mode'[p] = IF p = n THEN "Disconnected" ELSE mode[p]
    BY <1>1, <2>1, EnterTyped DEF Modes
  <2>3. asked' \subseteq In("Master")'
    BY <1>2, <2>1, <2>2 DEF In
  <2> QED  BY <1>2, <1>4, <2>1, <2>2, <2>3 DEF network
<1>6. ASSUME NEW n \in Nodes, Stop(n) PROVE <1>3!1
  <2>1. /\ Enter({n}, "Inactive") /\ tolc' = Ranked([tolc EXCEPT ![n] = 0])
        /\ asked' = asked \ {n} /\ faults' = faults + 1 /\ faults < MaxFaults
        /\ UNCHANGED <<away, changed>>
    BY <1>6 DEF Stop
  <2>2. NodeTypes' /\ \A p \in Nodes : mode'[p] = IF p = n THEN "Inactive" ELSE mode[p]
    BY <1>1, <2>1, EnterTyped DEF Modes
  <2>3. asked' \subseteq In("Master")'
    BY <1>2, <2>1, <2>2 DEF In
  <2>4. tolc' \in [Nodes -> 0..Cardinality(Nodes)] /\ DistinctTimes'
    BY <1>1, <2>1, NewTime
  <2>5. faults' \in 0..MaxFaults
    BY <1>2, <2>1, Constants
  <2> QED  BY <1>2, <2>1, <2>2, <2>3, <2>4, <2>5
<1>7. ASSUME NetworkChanges PROVE <1>3!1
  <2>1. away' \subseteq Nodes
    BY <1>7 DEF NetworkChanges, Movable
  <2>2. faults' \in 0..MaxFaults
    BY <1>2, <1>7, Constants DEF NetworkChanges
  <2>3. NodeTypes' /\ asked' \subseteq In("Master")'
    BY <1>1, <1>2, <1>7 DEF NetworkChanges, NodeTypes, TimersOfSlaves, In
  <2> QED  BY <1>4, <1>7, <2>1, <2>2, <2>3 DEF NetworkChanges
<1>8. ASSUME NEW n \in Nodes, SendConnectionReq(n) PROVE <1>3!1
  <2>1. /\ UNCHANGED <<mode, tolc, timer, masterTimer, network>> /\ due' = due \ {n}
        /\ asked' = asked \cup (Near(n) \cap In("Master"))
    BY <1>8 DEF SendConnectionReq
  <2>2. heard' \in [Nodes -> SUBSET Nodes] /\ \A p \in Nodes : rivals'[p] \subseteq heard'[p]
    BY <1>1, <1>8 DEF SendConnectionReq, NodeTypes
  <2>3. NodeTypes' /\ asked' \subseteq In("Master")'
    BY <1>1, <1>2, <2>1, <2>2 DEF NodeTypes, TimersOfSlaves, In
  <2> QED  BY <1>2, <1>4, <2>1, <2>3 DEF network
<1>9. ASSUME NEW n \in Nodes, AnswerConnectionReq(n) PROVE <1>3!1
  <2> DEFINE ns == Near(n) \cap In("Disconnected")
  <2>1. Enter(ns, "Slave") /\ UNCHANGED <<tolc, network>> /\ asked' = asked \ {n}
    BY <1>9 DEF AnswerConnectionReq
  <2>2. NodeTypes' /\ \A p \in Nodes : mode'[p] = IF p \in ns THEN "Slave" ELSE mode[p]
    BY <1>1, <2>1, EnterTyped DEF Modes, Near
  <2>3. asked' \subseteq In("Master")'
    BY <1>2, <2>1, <2>2 DEF In
  <2> QED  BY <1>2, <1>4, <2>1, <2>2, <2>3 DEF network
<1>10. ASSUME NEW n \in Nodes, DecisionTimeout(n) PROVE <1>3!1
  <2>1. UNCHANGED <<tolc, asked, network>> /\ mode[n] = "Disconnected"
    BY <1>10 DEF DecisionTimeout
  <2>2. CASE Enter({n}, "Master")
    <3>1. NodeTypes' /\ \A p \in Nodes : mode'[p] = IF p = n THEN "Master" ELSE mode[p]
      BY <1>1, <2>2, EnterTyped DEF Modes
    <3>2. asked' \subseteq In("Master")'
      BY <1>2, <2>1, <3>1 DEF In
    <3> QED  BY <1>2, <1>4, <2>1, <3>1, <3>2 DEF network
  <2>3. CASE /\ timer' = [timer EXCEPT ![n] = DecisionTicks]
             /\ UNCHANGED <<mode, heard, rivals, masterTimer, due>>
    <3>1. timer' \in [Nodes -> 0..(DecisionTicks + ContactTicks)]
      BY <1>1, <2>3, Constants DEF NodeTypes
    <3>2. NodeTypes' /\ asked' \subseteq In("Master")'
      BY <1>1, <1>2, <2>1, <2>3, <3>1 DEF NodeTypes, TimersOfSlaves, In
    <3> QED  BY <1>2, <1>4, <2>1, <3>2 DEF network
  <2> QED  BY <1>10, <2>2, <2>3 DEF DecisionTimeout
<1>11. ASSUME NEW n \in Nodes, ReceiveGlobalHallRequest(n) PROVE <1>3!1
  <2>1. /\ UNCHANGED <<mode, heard, rivals, due, timer, asked, network>>
        /\ tolc' = Ranked([tolc EXCEPT ![n] = Cardinality(Nodes) + 1])
        /\ masterTimer' = [masterTimer EXCEPT ![n] = "running"]
    BY <1>11 DEF ReceiveGlobalHallRequest, ContactNow
  <2>2. tolc' \in [Nodes -> 0..Cardinality(Nodes)] /\ DistinctTimes'
    BY <1>1, <2>1, NewTime
  <2>3. masterTimer' \in [Nodes -> MasterTimers]
    BY <1>1, <2>1 DEF NodeTypes, MasterTimers
  <2>4. NodeTypes' /\ asked' \subseteq In("Master")'
    BY <1>1, <1>2, <1>11, <2>1, <2>3 DEF NodeTypes, TimersOfSlaves, In, ReceiveGlobalHallRequest
  <2> QED  BY <1>2, <2>1, <2>2, <2>4 DEF network
<1>12. ASSUME NEW n \in Nodes, MasterConnectionTimeout(n) PROVE <1>3!1
  <2>1. Enter({n}, "Disconnected") /\ UNCHANGED <<tolc, asked, network>> /\ masterTimer[n] = "expired"
    BY <1>12 DEF MasterConnectionTimeout
  <2>2. NodeTypes' /\ \A p \in Nodes : mode'[p] = IF p = n THEN "Disconnected" ELSE mode[p]
    BY <1>1, <2>1, EnterTyped DEF Modes
  <2>3. mode[n] = "Slave"
    BY <1>1, <2>1 DEF NodeTypes, TimersOfSlaves
  <2>4. asked' \subseteq In("Master")'
    BY <1>2, <2>1, <2>2, <2>3 DEF In
  <2> QED  BY <1>2, <1>4, <2>1, <2>2, <2>4 DEF network
<1>13. ASSUME NEW n \in Nodes, LoseConnection(n) PROVE <1>3!1
  <2>1. /\ Enter({n}, "Disconnected") /\ asked' = asked \ {n} /\ UNCHANGED network
        /\ tolc' = IF mode[n] = "Master" THEN ContactNow(n) ELSE tolc
    BY <1>13 DEF LoseConnection
  <2>2. NodeTypes' /\ \A p \in Nodes : mode'[p] = IF p = n THEN "Disconnected" ELSE mode[p]
    BY <1>1, <2>1, EnterTyped DEF Modes
  <2>3. asked' \subseteq In("Master")'
    BY <1>2, <2>1, <2>2 DEF In
  <2>4. tolc' \in [Nodes -> 0..Cardinality(Nodes)] /\ DistinctTimes'
    <3>1. CASE tolc' = ContactNow(n)
      BY <1>1, <3>1, NewTime DEF ContactNow
    <3>2. CASE tolc' = tolc
      BY <1>4, <3>2
    <3> QED  BY <2>1, <3>1, <3>2
  <2> QED  BY <1>2, <2>1, <2>2, <2>3, <2>4 DEF network
<1>14. ASSUME Tick PROVE <1>3!1
  <2>1. UNCHANGED <<mode, tolc, heard, rivals, asked, network>> /\ due' = In("Disconnected")
    BY <1>14 DEF Tick
  <2>2. timer' \in [Nodes -> 0..(DecisionTicks + ContactTicks)]
    <3>1. \A n \in Nodes : mode[n] = "Inactive" \/ timer[n] > 0
      BY <1>14 DEF Tick, AllPromptDone, In
    <3> QED  BY <1>1, <1>14, <3>1, Constants DEF Tick, NodeTypes
  <2>3. masterTimer' \in [Nodes -> MasterTimers]
    BY <1>1, <1>14 DEF Tick, NodeTypes, MasterTimers
  <2>4. TimersOfSlaves'
    BY <1>1, <1>14, <2>1 DEF NodeTypes, TimersOfSlaves, Tick
  <2>5. NodeTypes' /\ asked' \subseteq In("Master")'
    BY <1>1, <1>2, <2>1, <2>2, <2>3, <2>4 DEF NodeTypes, TimersOfSlaves, In
  <2> QED  BY <1>2, <1>4, <2>1, <2>5 DEF network
<1>15. ASSUME UNCHANGED vars PROVE <1>3!1
  <2>1. NodeTypes' /\ asked' \subseteq In("Master")'
    BY <1>1, <1>2, <1>15 DEF vars, NodeTypes, TimersOfSlaves, In
  <2> QED  BY <1>2, <1>4, <1>15, <2>1 DEF vars, network
<1> QED
  BY <1>5, <1>6, <1>7, <1>8, <1>9, <1>10, <1>11, <1>12, <1>13, <1>14, <1>15 DEF Next, NodeStep

\* Every variable keeps its type, for any number of nodes.
THEOREM TypeCorrect == Spec => []TypeOK
<1>1. Typed => TypeOK
  BY DEF Typed
<1> QED  BY <1>1, Initially, StepTyped, PTL DEF Spec

-----------------------------------------------------------------------------
(* Who has heard whom.                                                     *)

\* p has the last request of n, and it counts as it would now.
Heard(n, p) == n \in heard[p] /\ (n \in rivals[p] <=> Outranks(n, p))

\* A Disconnected node has heard each Disconnected one near it, unless one of the
\* two has begun to wait only now or the request of this half second is still to come.
HeardOrEarly ==
  \A p \in In("Disconnected") : \A n \in Near(p) \cap In("Disconnected") :
    \/ Heard(n, p)
    \/ timer[n] = DecisionTicks \/ timer[p] = DecisionTicks
    \/ n \in due /\ (timer[n] = DecisionTicks - 1 \/ timer[p] = DecisionTicks - 1)

\* A Disconnected node near a master counts its request, or is about to be answered.
MasterOutranksOrAsked ==
  \A n \in In("Disconnected") : \A p \in Near(n) \cap In("Master") :
    \/ p \in rivals[n]
    \/ timer[n] \in {DecisionTicks, DecisionTicks - 1}
    \/ timer[n] = DecisionTicks - 2 /\ (n \in due \/ p \in asked)

\* Inductive: while the network stays as it is, one master and why no second follows.
OneMaster ==
  ~changed => /\ HeardOrEarly /\ MasterOutranksOrAsked
              /\ \A n, p \in In("Master") : p \notin Near(n)

\* Of two distinct nodes exactly one outranks the other.
LEMMA OutranksTotal ==
  ASSUME Typed, NEW n \in Nodes, NEW p \in Nodes, n # p, ~Outranks(n, p)
  PROVE  Outranks(p, n) /\ tolc[n] <= tolc[p]
<1>1. tolc[n] \in Nat /\ tolc[p] \in Nat /\ n \in Nat /\ p \in Nat
  BY Constants, ElectionAssumption DEF Typed, TypeOK, ElectionAssumption
<1>2. tolc[n] # 0 => tolc[n] # tolc[p]
  BY DEF Typed, DistinctTimes
<1> QED  BY <1>1, <1>2 DEF Outranks

\* What is kept outside ns, when whoever in ns is Disconnected begins to wait.
Outside(ns) ==
  /\ \A n \in Nodes \ ns : /\ mode'[n] = mode[n] /\ heard'[n] = heard[n]
                           /\ rivals'[n] = rivals[n] /\ timer'[n] = timer[n]
                           /\ n \in due => n \in due'
  /\ \A n \in ns : mode'[n] # "Master" /\ (mode'[n] = "Disconnected" => timer'[n] = DecisionTicks)
  /\ away' = away /\ changed' = changed

LEMMA OutsideHeard ==
  ASSUME Typed, HeardOrEarly, NEW ns \in SUBSET Nodes,
         \A n \in Nodes \ ns : /\ mode'[n] = mode[n] /\ heard'[n] = heard[n]
                               /\ rivals'[n] = rivals[n] /\ timer'[n] = timer[n]
                               /\ n \in due => n \in due',
         \A n \in ns : mode'[n] = "Disconnected" => timer'[n] = DecisionTicks,
         away' = away, SameOrder(ns)
  PROVE  HeardOrEarly'
<1> SUFFICES ASSUME NEW p \in Nodes, mode'[p] = "Disconnected",
                    NEW n \in Nodes, n \in Near(p)', mode'[n] = "Disconnected",
                    timer'[n] # DecisionTicks, timer'[p] # DecisionTicks
             PROVE  \/ Heard(n, p)'
                    \/ n \in due' /\ (timer'[n] = DecisionTicks - 1 \/ timer'[p] = DecisionTicks - 1)
  BY DEF HeardOrEarly, In
<1>1. n \notin ns /\ p \notin ns /\ n \in Near(p)
  BY DEF Near
<1>2. mode[n] = "Disconnected" /\ mode[p] = "Disconnected"
      /\ timer'[n] = timer[n] /\ timer'[p] = timer[p] /\ (n \in due => n \in due')
      /\ heard'[p] = heard[p] /\ rivals'[p] = rivals[p]
  BY <1>1
<1>3. \/ Heard(n, p)
      \/ n \in due /\ (timer[n] = DecisionTicks - 1 \/ timer[p] = DecisionTicks - 1)
  BY <1>1, <1>2 DEF HeardOrEarly, In
<1>4. Outranks(n, p)' <=> Outranks(n, p)
  <2>1. /\ tolc'[n] = 0 <=> tolc[n] = 0
        /\ tolc'[p] = 0 <=> tolc[p] = 0
        /\ tolc'[p] < tolc'[n] <=> tolc[p] < tolc[n]
    BY <1>1 DEF SameOrder
  <2> QED  BY <2>1 DEF Outranks
<1> QED  BY <1>2, <1>3, <1>4 DEF Heard

LEMMA OutsideOneMaster ==
  ASSUME Typed, OneMaster, NEW ns \in SUBSET Nodes, Outside(ns), SameOrder(ns),
         \A p \in Nodes \ ns : p \in asked =>
           p \in asked' \/ \A n \in Near(p) : mode'[n] # "Disconnected"
  PROVE  OneMaster'
<1> SUFFICES ASSUME ~changed PROVE (HeardOrEarly /\ MasterOutranksOrAsked)'
                                   /\ \A n, p \in In("Master")' : p \notin Near(n)'
  BY DEF OneMaster, Outside
<1>1. HeardOrEarly /\ MasterOutranksOrAsked /\ \A n, p \in In("Master") : p \notin Near(n)
  BY DEF OneMaster
<1>2. HeardOrEarly'
  BY <1>1, OutsideHeard DEF Outside
<1>3. ASSUME NEW n \in In("Master")', NEW p \in In("Master")' PROVE p \notin Near(n)'
  <2>1. n \in In("Master") /\ p \in In("Master")
    BY <1>3 DEF In, Outside
  <2> QED  BY <1>1, <2>1 DEF Near, Outside
<1>4. MasterOutranksOrAsked'
  <2> SUFFICES ASSUME NEW n \in Nodes, mode'[n] = "Disconnected",
                      NEW p \in Nodes, p \in Near(n)', mode'[p] = "Master"
               PROVE  \/ p \in rivals'[n]
                      \/ timer'[n] \in {DecisionTicks, DecisionTicks - 1}
                      \/ timer'[n] = DecisionTicks - 2 /\ (n \in due' \/ p \in asked')
    BY DEF MasterOutranksOrAsked, In
  <2>1. p \notin ns /\ mode[p] = "Master" /\ p \in Near(n) /\ n \in Near(p) /\ (p \in asked => p \in asked')
    BY DEF Outside, Near
  <2>2. CASE n \in ns
    BY <2>2 DEF Outside
  <2>3. CASE n \notin ns
    <3>1. mode[n] = "Disconnected" /\ rivals'[n] = rivals[n] /\ timer'[n] = timer[n] /\ (n \in due => n \in due')
      BY <2>3 DEF Outside
    <3>2. \/ p \in rivals[n]
          \/ timer[n] \in {DecisionTicks, DecisionTicks - 1}
          \/ timer[n] = DecisionTicks - 2 /\ (n \in due \/ p \in asked)
      BY <1>1, <2>1, <3>1 DEF MasterOutranksOrAsked, In
    <3> QED  BY <2>1, <3>1, <3>2
  <2> QED  BY <2>2, <2>3
<1> QED  BY <1>2, <1>3, <1>4

\* A node whose own time alone may have changed keeps the order of all others.
LEMMA SameTimes == ASSUME UNCHANGED tolc, NEW ns PROVE SameOrder(ns)
  BY DEF SameOrder

\* One node enters a mode other than Master.
LEMMA EnterAlone ==
  ASSUME Typed, OneMaster, NEW n \in Nodes, NEW m \in {"Inactive", "Disconnected", "Slave"},
         Enter({n}, m), SameOrder({n}), asked \ {n} \subseteq asked', UNCHANGED <<away, changed>>
  PROVE  OneMaster'
<1>1. /\ \A p \in Nodes : mode'[p] = IF p = n THEN m ELSE mode[p]
      /\ \A p \in Nodes \ {n} : heard'[p] = heard[p] /\ rivals'[p] = rivals[p]
      /\ due' = due \ {n}
  BY DEF Enter
<1>2. \A p \in Nodes \ {n} : timer'[p] = timer[p]
  BY DEF Enter
<1>3. m = "Disconnected" => timer'[n] = DecisionTicks
  BY DEF Enter
<1>4. Outside({n})
  BY <1>1, <1>2, <1>3 DEF Outside
<1> QED  BY <1>4, OutsideOneMaster

LEMMA StepOneMaster == Typed /\ OneMaster /\ [Next]_vars => OneMaster'
<1> SUFFICES ASSUME Typed, OneMaster, [Next]_vars PROVE OneMaster'
  OBVIOUS
<1>1. ASSUME NEW n \in Nodes, Start(n) PROVE OneMaster'
  <2>1. Enter({n}, "Disconnected") /\ UNCHANGED <<tolc, asked, away, changed>>
    BY <1>1 DEF Start, network
  <2> QED  BY <2>1, EnterAlone, SameTimes
<1>2. ASSUME NEW n \in Nodes, Stop(n) PROVE OneMaster'
  <2>1. Enter({n}, "Inactive") /\ asked' = asked \ {n} /\ UNCHANGED <<away, changed>>
        /\ tolc' = Ranked([tolc EXCEPT ![n] = 0])
    BY <1>2 DEF Stop
  <2>2. SameOrder({n})
    BY <2>1, NewTime DEF Typed, TypeOK
  <2> QED  BY <2>1, <2>2, EnterAlone
<1>3. ASSUME NetworkChanges PROVE OneMaster'
  BY <1>3 DEF NetworkChanges, OneMaster
<1>4. ASSUME NEW q \in Nodes, SendConnectionReq(q) PROVE OneMaster'
  <2>1. /\ UNCHANGED <<mode, tolc, timer, away, changed>> /\ due' = due \ {q}
        /\ asked' = asked \cup (Near(q) \cap In("Master")) /\ q \in due
    BY <1>4 DEF SendConnectionReq, network
  <2>2. ASSUME NEW p \in Nodes, p \in Near(q), mode[p] = "Disconnected"
        PROVE  q \in heard'[p] /\ (q \in rivals'[p] <=> Outranks(q, p))
    BY <1>4, <2>2 DEF SendConnectionReq, In
  <2>3. ASSUME NEW p \in Nodes, NEW n \in Nodes, n # q
        PROVE  (n \in heard'[p] <=> n \in heard[p]) /\ (n \in rivals'[p] <=> n \in rivals[p])
    BY <1>4, <2>3 DEF SendConnectionReq
  <2>4. \A n, p \in Nodes : Outranks(n, p)' <=> Outranks(n, p)
    BY <2>1 DEF Outranks
  <2>5. mode[q] = "Disconnected"
    BY <2>1 DEF Typed, TypeOK, In
  <2> SUFFICES ASSUME ~changed
               PROVE  HeardOrEarly' /\ MasterOutranksOrAsked'
                      /\ \A n, p \in In("Master")' : p \notin Near(n)'
    BY <2>1 DEF OneMaster
  <2>6. HeardOrEarly /\ MasterOutranksOrAsked /\ \A n, p \in In("Master") : p \notin Near(n)
    BY DEF OneMaster
  <2>7. \A n, p \in In("Master")' : p \notin Near(n)'
    BY <2>1, <2>6 DEF In, Near
  <2>8. HeardOrEarly'
    <3> SUFFICES ASSUME NEW p \in Nodes, mode[p] = "Disconnected",
                        NEW n \in Nodes, n \in Near(p), mode[n] = "Disconnected",
                        timer[n] # DecisionTicks, timer[p] # DecisionTicks
                 PROVE  \/ Heard(n, p)'
                        \/ n \in due' /\ (timer[n] = DecisionTicks - 1 \/ timer[p] = DecisionTicks - 1)
      BY <2>1 DEF HeardOrEarly, In, Near
    <3>1. CASE n = q
      <4>1. p \in Near(q)
        BY <3>1 DEF Near
      <4> QED  BY <2>2, <2>4, <3>1, <4>1 DEF Heard
    <3>2. CASE n # q
      <4>1. \/ Heard(n, p)
            \/ n \in due /\ (timer[n] = DecisionTicks - 1 \/ timer[p] = DecisionTicks - 1)
        BY <2>6 DEF HeardOrEarly, In
      <4> QED  BY <2>1, <2>3, <2>4, <3>2, <4>1 DEF Heard
    <3> QED  BY <3>1, <3>2
  <2>9. MasterOutranksOrAsked'
    <3> SUFFICES ASSUME NEW n \in Nodes, mode[n] = "Disconnected",
                        NEW p \in Nodes, p \in Near(n), mode[p] = "Master"
                 PROVE  \/ p \in rivals'[n]
                        \/ timer[n] \in {DecisionTicks, DecisionTicks - 1}
                        \/ timer[n] = DecisionTicks - 2 /\ (n \in due' \/ p \in asked')
      BY <2>1 DEF MasterOutranksOrAsked, In, Near
    <3>1. \/ p \in rivals[n]
          \/ timer[n] \in {DecisionTicks, DecisionTicks - 1}
          \/ timer[n] = DecisionTicks - 2 /\ (n \in due \/ p \in asked)
      BY <2>6 DEF MasterOutranksOrAsked, In
    <3>2. p # q
      BY <2>5
    <3>3. n \in due => n \in due' \/ p \in asked'
      BY <2>1 DEF In
    <3>4. p \in asked => p \in asked'
      BY <2>1
    <3> QED  BY <2>3, <3>1, <3>2, <3>3, <3>4
  <2> QED  BY <2>7, <2>8, <2>9
<1>5. ASSUME NEW q \in Nodes, AnswerConnectionReq(q) PROVE OneMaster'
  <2> DEFINE ns == Near(q) \cap In("Disconnected")
  <2>1. Enter(ns, "Slave") /\ UNCHANGED <<tolc, away, changed>> /\ asked' = asked \ {q}
    BY <1>5 DEF AnswerConnectionReq, network
  <2>2. ns \in SUBSET Nodes
    BY DEF Near
  <2>3. /\ \A p \in Nodes : mode'[p] = IF p \in ns THEN "Slave" ELSE mode[p]
        /\ \A p \in Nodes \ ns : heard'[p] = heard[p] /\ rivals'[p] = rivals[p]
        /\ due' = due \ ns
    BY <2>1 DEF Enter
  <2>4. \A p \in Nodes \ ns : timer'[p] = timer[p]
    BY <2>1 DEF Enter
  <2>5. \A p \in Near(q) : mode'[p] # "Disconnected"
    BY <2>3 DEF In, Near
  <2> HIDE DEF ns
  <2>6. Outside(ns)
    BY <2>1, <2>2, <2>3, <2>4 DEF Outside
  <2> QED  BY <2>1, <2>2, <2>5, <2>6, OutsideOneMaster, SameTimes
<1>6. ASSUME NEW q \in Nodes, DecisionTimeout(q) PROVE OneMaster'
  <2>1. UNCHANGED <<tolc, asked, away, changed>> /\ mode[q] = "Disconnected" /\ timer[q] = 0
    BY <1>6 DEF DecisionTimeout, network
  <2>2. CASE rivals[q] = {} /\ Enter({q}, "Master")
    <3>1. /\ \A p \in Nodes : mode'[p] = IF p = q THEN "Master" ELSE mode[p]
          /\ \A p \in Nodes \ {q} : heard'[p] = heard[p] /\ rivals'[p] = rivals[p]
          /\ due' = due \ {q}
      BY <2>2 DEF Enter
    <3>2. \A p \in Nodes \ {q} : timer'[p] = timer[p]
      BY <2>2 DEF Enter
    <3> SUFFICES ASSUME ~changed
                 PROVE  HeardOrEarly' /\ MasterOutranksOrAsked'
                        /\ \A n, p \in In("Master")' : p \notin Near(n)'
      BY <2>1 DEF OneMaster
    <3>3. HeardOrEarly /\ MasterOutranksOrAsked /\ \A n, p \in In("Master") : p \notin Near(n)
      BY DEF OneMaster
    <3>4. HeardOrEarly'
      <4>1. SameOrder({q}) /\ away' = away
        BY <2>1, SameTimes
      <4>2. \A n \in Nodes \ {q} : /\ mode'[n] = mode[n] /\ heard'[n] = heard[n]
                                   /\ rivals'[n] = rivals[n] /\ timer'[n] = timer[n]
                                   /\ n \in due => n \in due'
        BY <3>1, <3>2
      <4>3. \A n \in {q} : mode'[n] = "Disconnected" => timer'[n] = DecisionTicks
        BY <3>1
      <4> QED  BY <3>3, <4>1, <4>2, <4>3, OutsideHeard
    <3>5. ASSUME NEW p \in Nodes, p \in Near(q), mode[p] = "Master" PROVE FALSE
      BY <2>1, <2>2, <3>3, <3>5, Constants DEF MasterOutranksOrAsked, In
    <3>6. \A n, p \in In("Master")' : p \notin Near(n)'
      <4> SUFFICES ASSUME NEW n \in Nodes, mode'[n] = "Master", NEW p \in Nodes, mode'[p] = "Master",
                          p \in Near(n)
                   PROVE  FALSE
        BY <2>1 DEF In, Near
      <4>1. p # n /\ n \in Near(p)
        BY DEF Near
      <4>2. CASE n = q
        BY <3>1, <3>5, <4>1, <4>2
      <4>3. CASE p = q
        BY <3>1, <3>5, <4>1, <4>3
      <4>4. CASE n # q /\ p # q
        BY <3>1, <3>3, <4>4 DEF In
      <4> QED  BY <4>2, <4>3, <4>4
    <3>7. MasterOutranksOrAsked'
      <4> SUFFICES ASSUME NEW n \in Nodes, mode'[n] = "Disconnected",
                          NEW p \in Nodes, p \in Near(n), mode'[p] = "Master",
                          timer'[n] \notin {DecisionTicks, DecisionTicks - 1}
                   PROVE  \/ p \in rivals'[n]
                          \/ timer'[n] = DecisionTicks - 2 /\ (n \in due' \/ p \in asked')
        BY <2>1 DEF MasterOutranksOrAsked, In, Near
      <4>1. /\ n # q /\ mode[n] = "Disconnected" /\ timer'[n] = timer[n]
            /\ rivals'[n] = rivals[n] /\ (n \in due => n \in due')
        BY <3>1, <3>2
      <4>2. CASE p # q
        <5>1. mode[p] = "Master"
          BY <3>1, <4>2
        <5>2. \/ p \in rivals[n]
              \/ timer[n] \in {DecisionTicks, DecisionTicks - 1}
              \/ timer[n] = DecisionTicks - 2 /\ (n \in due \/ p \in asked)
          BY <3>3, <4>1, <5>1 DEF MasterOutranksOrAsked, In
        <5> QED  BY <2>1, <4>1, <5>2
      <4>3. CASE p = q
        <5>1. n \in Near(q) /\ q \in Near(n) /\ n # q
          BY <4>3 DEF Near
        <5>2. \/ Heard(n, q)
              \/ timer[n] = DecisionTicks \/ timer[q] = DecisionTicks
              \/ n \in due /\ (timer[n] = DecisionTicks - 1 \/ timer[q] = DecisionTicks - 1)
          BY <2>1, <3>3, <4>1, <5>1 DEF HeardOrEarly, In
        <5>3. Heard(n, q)
          BY <2>1, <4>1, <5>2, Constants
        <5>4. ~Outranks(n, q)
          BY <2>2, <5>3 DEF Heard
        <5>5. Outranks(q, n)
          BY <4>1, <5>4, OutranksTotal
        <5>6. \/ Heard(q, n)
              \/ timer[n] = DecisionTicks \/ timer[q] = DecisionTicks
              \/ q \in due /\ (timer[n] = DecisionTicks - 1 \/ timer[q] = DecisionTicks - 1)
          BY <2>1, <3>3, <4>1, <5>1 DEF HeardOrEarly, In
        <5>7. Heard(q, n)
          BY <2>1, <4>1, <5>6, Constants
        <5> QED  BY <4>1, <4>3, <5>5, <5>7 DEF Heard
      <4> QED  BY <4>2, <4>3
    <3> QED  BY <3>4, <3>6, <3>7
  <2>3. CASE /\ timer' = [timer EXCEPT ![q] = DecisionTicks]
             /\ UNCHANGED <<mode, heard, rivals, masterTimer, due>>
    <3>1. timer'[q] = DecisionTicks /\ \A n \in Nodes \ {q} : timer'[n] = timer[n]
      BY <2>3 DEF Typed, TypeOK
    <3>2. Outside({q})
      BY <2>1, <2>3, <3>1 DEF Outside
    <3> QED  BY <2>1, <3>2, OutsideOneMaster, SameTimes
  <2> QED  BY <1>6, <2>2, <2>3 DEF DecisionTimeout
<1>7. ASSUME NEW n \in Nodes, ReceiveGlobalHallRequest(n) PROVE OneMaster'
  <2>1. /\ UNCHANGED <<mode, heard, rivals, due, timer, asked, away, changed>> /\ mode[n] = "Slave"
        /\ tolc' = Ranked([tolc EXCEPT ![n] = Cardinality(Nodes) + 1])
    BY <1>7 DEF ReceiveGlobalHallRequest, ContactNow, network
  <2>2. SameOrder({n})
    BY <2>1, NewTime DEF Typed, TypeOK
  <2>3. Outside({n})
    BY <2>1 DEF Outside
  <2> QED  BY <2>1, <2>2, <2>3, OutsideOneMaster
<1>8. ASSUME NEW n \in Nodes, MasterConnectionTimeout(n) PROVE OneMaster'
  <2>1. Enter({n}, "Disconnected") /\ UNCHANGED <<tolc, asked, away, changed>>
    BY <1>8 DEF MasterConnectionTimeout, network
  <2> QED  BY <2>1, EnterAlone, SameTimes
<1>9. ASSUME NEW n \in Nodes, LoseConnection(n) PROVE OneMaster'
  <2>1. Enter({n}, "Disconnected") /\ asked' = asked \ {n} /\ UNCHANGED <<away, changed>>
        /\ tolc' = IF mode[n] = "Master" THEN ContactNow(n) ELSE tolc
    BY <1>9 DEF LoseConnection, network
  <2>2. SameOrder({n})
    <3>1. CASE tolc' = ContactNow(n)
      BY <3>1, NewTime DEF ContactNow, Typed, TypeOK
    <3>2. CASE tolc' = tolc
      BY <3>2, SameTimes
    <3> QED  BY <2>1, <3>1, <3>2
  <2> QED  BY <2>1, <2>2, EnterAlone
<1>10. ASSUME Tick PROVE OneMaster'
  <2>1. UNCHANGED <<mode, tolc, heard, rivals, asked, away, changed>> /\ due' = In("Disconnected")
        /\ due = {} /\ asked = {}
    BY <1>10 DEF Tick, AllPromptDone, network
  <2>2. \A n \in In("Disconnected") : timer'[n] = timer[n] - 1
    BY <1>10 DEF Tick, In
  <2>3. \A n \in Nodes : timer[n] \in 0..(DecisionTicks + ContactTicks)
    BY DEF Typed, TypeOK
  <2>4. \A n, p \in Nodes : Outranks(n, p)' <=> Outranks(n, p)
    BY <2>1 DEF Outranks
  <2> SUFFICES ASSUME ~changed
               PROVE  HeardOrEarly' /\ MasterOutranksOrAsked'
                      /\ \A n, p \in In("Master")' : p \notin Near(n)'
    BY <2>1 DEF OneMaster
  <2>5. HeardOrEarly /\ MasterOutranksOrAsked /\ \A n, p \in In("Master") : p \notin Near(n)
    BY DEF OneMaster
  <2>6. \A n, p \in In("Master")' : p \notin Near(n)'
    BY <2>1, <2>5 DEF In, Near
  <2>7. HeardOrEarly'
    <3> SUFFICES ASSUME NEW p \in In("Disconnected"), NEW n \in Near(p) \cap In("Disconnected")
                 PROVE  \/ Heard(n, p)'
                        \/ n \in due' /\ (timer'[n] = DecisionTicks - 1 \/ timer'[p] = DecisionTicks - 1)
      BY <2>1 DEF HeardOrEarly, In, Near
    <3>1. Heard(n, p) \/ timer[n] = DecisionTicks \/ timer[p] = DecisionTicks
      BY <2>1, <2>5 DEF HeardOrEarly
    <3>2. n \in Nodes /\ p \in Nodes
      BY DEF In
    <3>3. Heard(n, p) => Heard(n, p)'
      BY <2>1, <2>4, <3>2 DEF Heard
    <3> QED  BY <2>1, <2>2, <3>1, <3>3
  <2>8. MasterOutranksOrAsked'
    <3> SUFFICES ASSUME NEW n \in In("Disconnected"), NEW p \in Near(n) \cap In("Master")
                 PROVE  \/ p \in rivals[n]
                        \/ timer'[n] \in {DecisionTicks, DecisionTicks - 1}
                        \/ timer'[n] = DecisionTicks - 2 /\ (n \in due' \/ p \in asked')
      BY <2>1 DEF MasterOutranksOrAsked, In, Near
    <3>1. p \in rivals[n] \/ timer[n] \in {DecisionTicks, DecisionTicks - 1}
      BY <2>1, <2>5 DEF MasterOutranksOrAsked
    <3> QED  BY <2>1, <2>2, <3>1, Constants
  <2> QED  BY <2>6, <2>7, <2>8
<1>11. ASSUME UNCHANGED vars PROVE OneMaster'
  <2>1. /\ UNCHANGED <<mode, heard, rivals, due, timer, tolc, asked, away, changed>>
    BY <1>11 DEF vars, network
  <2>2. Outside({})
    BY <2>1 DEF Outside
  <2> QED  BY <2>1, <2>2, OutsideOneMaster, SameTimes
<1> QED
  BY <1>1, <1>2, <1>3, <1>4, <1>5, <1>6, <1>7, <1>8, <1>9, <1>10, <1>11 DEF Next, NodeStep

-----------------------------------------------------------------------------
(* The theorems.                                                           *)

IInv == Typed /\ OneMaster

LEMMA InvariantHolds == Spec => []IInv
<1>1. Init => IInv
  <2> SUFFICES ASSUME Init PROVE IInv
    OBVIOUS
  <2>1. Typed
    BY Initially
  <2>2. In("Disconnected") = {} /\ In("Master") = {}
    BY DEF Init, In
  <2>3. OneMaster
    BY <2>2 DEF OneMaster, HeardOrEarly, MasterOutranksOrAsked
  <2> QED  BY <2>1, <2>3 DEF IInv
<1>2. IInv /\ [Next]_vars => IInv'
  BY StepTyped, StepOneMaster DEF IInv
<1> QED  BY <1>1, <1>2, PTL DEF Spec

\* While the network stays as it is, no two masters hear each other, for any number
\* of nodes that start and stop at any time (disconnected.go:51).
THEOREM NeverTwoMasters == Spec => []AtMostOneMaster
<1>1. IInv => AtMostOneMaster
  BY DEF IInv, OneMaster, AtMostOneMaster
<1> QED  BY <1>1, InvariantHolds, PTL

\* The comparison of disconnected.go:113 with a request sent earlier elects the node
\* with the latest contact of all that had the time to be heard.
THEOREM AlwaysLatestElected == Spec => LatestContactElected
<1> DEFINE Elected == \A n, p \in Nodes :
             /\ mode[n] = "Disconnected" /\ mode'[n] = "Master"
             /\ mode[p] = "Disconnected" /\ timer[p] < DecisionTicks - 1
             /\ p \in Near(n) /\ ~changed
             => tolc[p] <= tolc[n]
<1>1. ASSUME IInv, [Next]_vars PROVE Elected
  <2> SUFFICES ASSUME NEW n \in Nodes, NEW p \in Nodes,
                      mode[n] = "Disconnected", mode'[n] = "Master",
                      mode[p] = "Disconnected", timer[p] < DecisionTicks - 1,
                      p \in Near(n), ~changed
               PROVE  tolc[p] <= tolc[n]
    OBVIOUS
  <2>1. Typed /\ OneMaster
    BY <1>1 DEF IInv
  <2>2. timer[n] = 0 /\ rivals[n] = {}
    <3>1. ASSUME NEW ns, NEW m \in Modes \ {"Master"} PROVE ~Enter(ns, m)
      BY DEF Enter
    <3>2. \A q \in Nodes : ~Start(q) /\ ~Stop(q) /\ ~AnswerConnectionReq(q)
                           /\ ~MasterConnectionTimeout(q) /\ ~LoseConnection(q)
      BY <3>1 DEF Start, Stop, AnswerConnectionReq, MasterConnectionTimeout, LoseConnection, Modes
    <3>3. mode' # mode
      OBVIOUS
    <3>4. PICK q \in Nodes : DecisionTimeout(q)
      BY <1>1, <3>2, <3>3 DEF Next, NodeStep, NetworkChanges, SendConnectionReq,
         ReceiveGlobalHallRequest, Tick, vars
    <3>5. timer[q] = 0 /\ rivals[q] = {} /\ Enter({q}, "Master")
      BY <3>3, <3>4 DEF DecisionTimeout
    <3>6. n = q
      BY <3>5 DEF Enter
    <3> QED  BY <3>5, <3>6
  <2>3. \/ Heard(p, n)
        \/ timer[p] = DecisionTicks \/ timer[n] = DecisionTicks
        \/ p \in due /\ (timer[p] = DecisionTicks - 1 \/ timer[n] = DecisionTicks - 1)
    BY <2>1 DEF OneMaster, HeardOrEarly, In
  <2>4. timer[p] \in 0..(DecisionTicks + ContactTicks)
    BY <2>1 DEF Typed, TypeOK
  <2>5. Heard(p, n)
    BY <2>2, <2>3, <2>4, Constants
  <2>6. ~Outranks(p, n) /\ p # n
    BY <2>2, <2>5 DEF Heard, Near
  <2> QED  BY <2>1, <2>6, OutranksTotal
<1>2. IInv /\ [Next]_vars => [Elected]_vars
  BY <1>1
<1>3. Spec => [][Elected]_vars
  BY <1>2, InvariantHolds, PTL DEF Spec
<1> QED  BY <1>3 DEF LatestContactElected

-----------------------------------------------------------------------------
(* The election implements Mastership.                                     *)

\* Who hears whom depends on the sides only, and nobody hears without being heard.
LEMMA HearingIs == away \subseteq Nodes => Hearing \in Leadership!Hearings
<1> SUFFICES Hearing \in [Nodes -> SUBSET Nodes]
             /\ \A n, p \in Nodes : n \notin Hearing[n] /\ (p \in Hearing[n] => n \in Hearing[p])
  BY DEF Leadership!Hearings
<1> QED  BY DEF Hearing, Near

LEMMA NetworkKept ==
  ASSUME UNCHANGED <<away, changed>>
  PROVE  Hearing' = Hearing /\ (~changed)' = ~changed
<1>1. Hearing' = Hearing
  BY DEF Hearing, Near
<1>2. (~changed)' = ~changed
  BY Zenon
<1> QED  BY <1>1, <1>2

\* What Enter does to the roles.
LEMMA EnterBecomes ==
  ASSUME NEW ns, NEW m, Enter(ns, m), UNCHANGED <<away, changed>>
  PROVE  /\ mode' = [n \in Nodes |-> IF n \in ns THEN m ELSE mode[n]]
         /\ UNCHANGED <<Hearing, ~changed>>
<1>1. mode' = [n \in Nodes |-> IF n \in ns THEN m ELSE mode[n]]
  BY DEF Enter
<1> QED  BY <1>1, NetworkKept

\* A node that may become master hears none.
LEMMA ElectedAlone ==
  ASSUME IInv, NEW n \in Nodes, mode[n] = "Disconnected", timer[n] = 0, rivals[n] = {},
         ~changed, NEW p \in Near(n)
  PROVE  mode[p] # "Master"
BY Constants DEF IInv, OneMaster, MasterOutranksOrAsked, In, Near

\* Every step of the election is one of Mastership or touches neither role nor network.
LEMMA StepImplements == IInv /\ [Next]_vars => [Leadership!MastershipNext]_(Leadership!mastershipVars)
<1> SUFFICES ASSUME IInv, [Next]_vars
             PROVE  [Leadership!MastershipNext]_(Leadership!mastershipVars)
  OBVIOUS
<1> USE DEF Leadership!MastershipNext
<1>1. /\ mode \in [Nodes -> Modes] /\ asked \subseteq In("Master") /\ away \subseteq Nodes
      /\ TimersOfSlaves
  BY DEF IInv, Typed, TypeOK
<1>2. ASSUME UNCHANGED <<mode, away, changed>>
      PROVE  UNCHANGED Leadership!mastershipVars
  BY <1>2, NetworkKept DEF Leadership!mastershipVars
<1>3. ASSUME NEW n \in Nodes, Start(n)
      PROVE  Leadership!Join(n)
  BY <1>3, EnterBecomes DEF Start, network, Leadership!Join, Leadership!Become
<1>4. ASSUME NEW n \in Nodes, Stop(n)
      PROVE  Leadership!Leave(n)
  BY <1>4, EnterBecomes DEF Stop, Leadership!Leave, Leadership!Become
<1>5. ASSUME NetworkChanges
      PROVE  Leadership!Rewire
  <2>1. mode' = mode /\ changed' = TRUE /\ away' \subseteq Nodes
    BY <1>5 DEF NetworkChanges, Movable
  <2>2. Hearing' \in Leadership!Hearings
    <3> SUFFICES Hearing' \in [Nodes -> SUBSET Nodes]
                 /\ \A n, p \in Nodes : n \notin Hearing'[n] /\ (p \in Hearing'[n] => n \in Hearing'[p])
      BY DEF Leadership!Hearings
    <3> QED  BY DEF Hearing, Near
  <2>3. (~changed)' = FALSE
    BY <2>1
  <2> QED  BY <2>1, <2>2, <2>3 DEF Leadership!Rewire
<1>6. ASSUME NEW n \in Nodes, AnswerConnectionReq(n)
      PROVE  Leadership!TakeIn(n)
  <2> DEFINE ns == Near(n) \cap In("Disconnected")
  <2>1. Enter(ns, "Slave") /\ UNCHANGED <<away, changed>> /\ n \in asked
    BY <1>6 DEF AnswerConnectionReq, network
  <2>2. ns = {p \in Hearing[n] : mode[p] = "Disconnected"}
    BY DEF In, Hearing, Near
  <2>3. mode[n] = "Master"
    BY <1>1, <2>1 DEF In
  <2>4. mode' = [p \in Nodes |-> IF p \in ns THEN "Slave" ELSE mode[p]]
    BY <2>1 DEF Enter
  <2>5. UNCHANGED <<Hearing, ~changed>>
    BY <2>1, NetworkKept
  <2> HIDE DEF ns
  <2> QED  BY <2>2, <2>3, <2>4, <2>5 DEF Leadership!TakeIn, Leadership!Become
<1>7. ASSUME NEW n \in Nodes, DecisionTimeout(n)
      PROVE  Leadership!Elect(n) \/ UNCHANGED Leadership!mastershipVars
  <2>1. mode[n] = "Disconnected" /\ timer[n] = 0 /\ UNCHANGED <<away, changed>>
    BY <1>7 DEF DecisionTimeout, network
  <2>2. CASE Enter({n}, "Master") /\ rivals[n] = {}
    <3>1. ~changed => \A p \in Hearing[n] : mode[p] # "Master"
      BY <2>1, <2>2, ElectedAlone DEF Hearing
    <3> QED  BY <2>1, <2>2, <3>1, EnterBecomes DEF Leadership!Elect, Leadership!Become
  <2>3. CASE UNCHANGED mode
    BY <1>2, <2>1, <2>3
  <2> QED  BY <1>7, <2>2, <2>3 DEF DecisionTimeout
<1>8. ASSUME NEW n \in Nodes, MasterConnectionTimeout(n) \/ LoseConnection(n)
      PROVE  Leadership!StandAlone(n)
  <2>1. Enter({n}, "Disconnected") /\ UNCHANGED <<away, changed>> /\ mode[n] \in {"Master", "Slave"}
    BY <1>1, <1>8 DEF MasterConnectionTimeout, LoseConnection, network, TimersOfSlaves
  <2> QED  BY <2>1, EnterBecomes DEF Leadership!StandAlone, Leadership!Become
<1>9. CASE \/ \E n \in Nodes : SendConnectionReq(n) \/ ReceiveGlobalHallRequest(n)
           \/ Tick \/ UNCHANGED vars
  BY <1>2, <1>9 DEF SendConnectionReq, ReceiveGlobalHallRequest, Tick, network, vars
<1> QED
  BY <1>3, <1>4, <1>5, <1>6, <1>7, <1>8, <1>9 DEF Next, NodeStep

\* Timers, requests and answers (disconnected.go:38, slave.go:86, master.go:185) bring about
\* nothing but what Mastership allows, for any nodes, faults and changes of the network.
THEOREM MastersByElection == Spec => ImplementsMastership
<1>1. Init => Leadership!MastershipInit
  <2> SUFFICES ASSUME Init PROVE Leadership!MastershipInit
    OBVIOUS
  <2>1. away \subseteq Nodes /\ mode = [n \in Nodes |-> "Inactive"] /\ changed = FALSE
    BY DEF Init, Movable
  <2>2. Hearing \in Leadership!Hearings
    BY <2>1, HearingIs
  <2>3. (~changed) = TRUE
    BY <2>1
  <2> QED  BY <2>1, <2>2, <2>3 DEF Leadership!MastershipInit
<1> QED
  BY <1>1, StepImplements, InvariantHolds, PTL DEF Spec, ImplementsMastership, Leadership!MastershipSpec

\* Mastership is promise enough: whatever has it has no two masters within each other's
\* hearing until the network changes.
THEOREM PromiseKeepsApart == Leadership!MastershipSpec => []Leadership!MastersApart
<1> DEFINE Inv == Hearing \in Leadership!Hearings /\ Leadership!MastersApart
<1> USE DEF Leadership!MastersApart
<1>1. Leadership!MastershipInit => Inv
  BY DEF Leadership!MastershipInit
<1>2. ASSUME Inv, [Leadership!MastershipNext]_(Leadership!mastershipVars)
      PROVE  Inv'
  <2>1. ASSUME Leadership!Rewire PROVE Inv'
    BY <2>1 DEF Leadership!Rewire, Leadership!Hearings
  <2>2. ASSUME UNCHANGED Leadership!mastershipVars PROVE Inv'
    BY <1>2, <2>2 DEF Leadership!mastershipVars, Leadership!Hearings
  <2>3. ASSUME NEW n \in Nodes, NEW ns, NEW r \in {"Inactive", "Disconnected", "Slave"},
               Leadership!Become(ns, r)
        PROVE  Inv'
    BY <1>2, <2>3 DEF Leadership!Become, Leadership!Hearings
  <2>4. ASSUME NEW n \in Nodes, Leadership!Elect(n) PROVE Inv'
    BY <1>2, <2>4 DEF Leadership!Elect, Leadership!Become, Leadership!Hearings
  <2> QED  BY <1>2, <2>1, <2>2, <2>3, <2>4 DEF Leadership!MastershipNext, Leadership!Join,
       Leadership!Leave, Leadership!StandAlone, Leadership!TakeIn, Leadership!Become
<1> QED  BY <1>1, <1>2, PTL DEF Leadership!MastershipSpec
=============================================================================
