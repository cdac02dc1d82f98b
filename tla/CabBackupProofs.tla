--------------------------- MODULE CabBackupProofs ---------------------------
(***************************************************************************)
(* Proofs about CabBackup, for any nodes and any cab calls, however often  *)
(* they crash.  BackupKept is inductive once the types are known: its two  *)
(* halves need each other, the copy when an order is made of it, and the   *)
(* table when a state overwrites the copy.                                 *)
(***************************************************************************)
EXTENDS CabBackup, TLAPS

-----------------------------------------------------------------------------
(* Types.                                                                  *)

LEMMA InitType == Init => TypeOK
  BY DEF Init, TypeOK, In, Modes

LEMMA NodeType ==
  ASSUME TypeOK, NEW n \in Others, NodeStep(n)
  PROVE  TypeOK'
<1> USE DEF TypeOK, In, Modes, history, AccountOfCrash, AccountOfState
<1>1. CASE Start(n)                     BY <1>1 DEF Start
<1>2. CASE Crash(n)                     BY <1>2 DEF Crash
<1>3. CASE TakeCabOrder(n)              BY <1>3 DEF TakeCabOrder
<1>4. CASE LeaveSlave(n)                BY <1>4 DEF LeaveSlave
<1>5. CASE ReceiveGlobalHallRequest(n)  BY <1>5 DEF ReceiveGlobalHallRequest
<1>6. CASE ReceiveElevState(n)          BY <1>6 DEF ReceiveElevState
<1>7. CASE ReceiveConnectionReq(n)      BY <1>7 DEF ReceiveConnectionReq
<1>8. ASSUME NEW c \in CabCalls, CabButton(n, c) PROVE TypeOK'  BY <1>8 DEF CabButton
<1>9. ASSUME NEW c \in CabCalls, Serve(n, c) PROVE TypeOK'      BY <1>9 DEF Serve
<1> HIDE DEF TypeOK
<1> QED  BY <1>1, <1>2, <1>3, <1>4, <1>5, <1>6, <1>7, <1>8, <1>9 DEF NodeStep

LEMMA AnswerType ==
  ASSUME TypeOK, AnswerConnectionReq
  PROVE  TypeOK'
<1>1. PICK hearers \in SUBSET In("Disconnected") :
        /\ mode' = [n \in Others |-> IF n \in hearers THEN "Slave" ELSE mode[n]]
        /\ orders' = [n \in Others |-> IF n = asked /\ n \in hearers \cap fresh
                                       THEN orders[n] \cup knownNodes[n] ELSE orders[n]]
        /\ misled' = misled \cup ((hearers \cap fresh) \ {asked})
  BY DEF AnswerConnectionReq
<1>2. /\ mode' \in [Others -> Modes]
      /\ orders' \in [Others -> SUBSET CabCalls]
      /\ misled' \subseteq Others
  BY <1>1 DEF TypeOK, Modes
<1>3. \A n \in In("Inactive")' : cabs'[n] = {} /\ orders'[n] = {}
  BY <1>1 DEF TypeOK, In, AnswerConnectionReq
<1> QED  BY <1>2, <1>3 DEF AnswerConnectionReq, TypeOK

LEMMA NextType == TypeOK /\ [Next]_vars => TypeOK'
<1> SUFFICES ASSUME TypeOK, [Next]_vars PROVE TypeOK'
  OBVIOUS
<1>1. CASE UNCHANGED vars
  BY <1>1 DEF vars, history, TypeOK, In
<1>2. CASE Next
  BY <1>2, NodeType, AnswerType DEF Next
<1> QED  BY <1>1, <1>2

\* Every variable keeps its type, for any nodes and calls.
THEOREM TypeCorrect == Spec => []TypeOK
  BY InitType, NextType, PTL DEF Spec

-----------------------------------------------------------------------------
(* The backup.                                                             *)

\* What BackupKept says of one node: the master's copy has it, and the elevator has it.
CopyHas(n)     == n \notin short => Owed(n) \subseteq knownNodes[n]
ElevatorHas(n) == n \notin misled /\ (mode[n] = "Slave" \/ n \notin fresh \/ n \in short)
                     => Owed(n) \subseteq AtElevator(n)
Kept(n)        == CopyHas(n) /\ ElevatorHas(n)

\* A crash, be it the first or a later one: what is owed then is in the copy.  In the window of
\* short the rest is given up; outside it there is no rest.
LEMMA CrashKeepsOwn ==
  ASSUME TypeOK, NEW n \in Others, Kept(n), Crash(n)
  PROVE  Kept(n)'
<1>1. /\ lost'[n] = lost[n] \cup knownNodes[n]
      /\ gone'[n] = (IF n \in short THEN gone[n] \cup lost[n] ELSE gone[n]) \ knownNodes[n]
      /\ knownNodes' = knownNodes /\ mode'[n] = "Inactive" /\ n \in fresh'
      /\ n \notin short'
  BY DEF TypeOK, Crash, AccountOfCrash
<1>2. Owed(n)' \subseteq knownNodes'[n]
  <2>1. CASE n \in short
    BY <1>1, <2>1 DEF Owed
  <2>2. CASE n \notin short
    BY <1>1, <2>2 DEF Owed, Kept, CopyHas
  <2> QED  BY <2>1, <2>2
<1> QED  BY <1>1, <1>2 DEF Kept, CopyHas, ElevatorHas

\* A state overwrites the copy with the elevator's table: if that leaves out an order or comes
\* from a misled node, the node is short, otherwise the table has what is owed.
LEMMA StateKeepsOwn ==
  ASSUME TypeOK, NEW n \in Others, Kept(n), ReceiveElevState(n)
  PROVE  Kept(n)'
<1>1. /\ Owed(n)' = Owed(n) /\ AtElevator(n)' = AtElevator(n)
      /\ misled' = misled /\ mode' = mode /\ fresh' = fresh /\ mode[n] = "Slave"
      /\ knownNodes'[n] = cabs[n]
      /\ short' = IF n \in misled \/ ~(orders[n] \subseteq cabs[n]) THEN short \cup {n} ELSE short \ {n}
  BY DEF TypeOK, ReceiveElevState, AccountOfState, Owed, AtElevator
<1>2. CASE n \in misled \/ ~(orders[n] \subseteq cabs[n])
  BY <1>1, <1>2 DEF Kept, CopyHas, ElevatorHas
<1>3. CASE n \notin misled /\ orders[n] \subseteq cabs[n]
  <2>1. Owed(n) \subseteq cabs[n]
    BY <1>1, <1>3 DEF Kept, ElevatorHas, AtElevator
  <2> QED  BY <1>1, <2>1 DEF Kept, CopyHas, ElevatorHas
<1> QED  BY <1>2, <1>3

\* Any other step of a node leaves what it is owed kept.  A call that is served leaves the
\* account with the table.
LEMMA NodeKeepsOwn ==
  ASSUME TypeOK, NEW n \in Others, Kept(n), NodeStep(n), ~Crash(n), ~ReceiveElevState(n)
  PROVE  Kept(n)'
<1> USE DEF TypeOK, Kept, CopyHas, ElevatorHas, AtElevator, Owed, history
<1>1. CASE Start(n)                     BY <1>1 DEF Start
<1>2. CASE TakeCabOrder(n)              BY <1>2 DEF TakeCabOrder
<1>3. CASE LeaveSlave(n)                BY <1>3 DEF LeaveSlave
<1>4. CASE ReceiveGlobalHallRequest(n)  BY <1>4 DEF ReceiveGlobalHallRequest
<1>5. CASE ReceiveConnectionReq(n)      BY <1>5 DEF ReceiveConnectionReq
<1>6. ASSUME NEW c \in CabCalls, CabButton(n, c) PROVE Kept(n)'  BY <1>6 DEF CabButton
<1>7. ASSUME NEW c \in CabCalls, Serve(n, c) PROVE Kept(n)'      BY <1>7 DEF Serve
<1> HIDE DEF TypeOK, Kept, CopyHas, ElevatorHas, AtElevator, Owed
<1> QED  BY <1>1, <1>2, <1>3, <1>4, <1>5, <1>6, <1>7 DEF NodeStep

\* A node's own step leaves the others as they are.
LEMMA StepSparesOthers ==
  ASSUME TypeOK, NEW n \in Others, NEW o \in Others \ {n}, Kept(o), NodeStep(n)
  PROVE  Kept(o)'
<1>1. /\ lost'[o] = lost[o] /\ gone'[o] = gone[o] /\ cabs'[o] = cabs[o] /\ orders'[o] = orders[o]
      /\ mode'[o] = mode[o] /\ knownNodes'[o] = knownNodes[o] /\ (o \in fresh' <=> o \in fresh)
      /\ (o \in short' <=> o \in short) /\ (o \in misled' <=> o \in misled)
  BY DEF TypeOK, NodeStep, Start, Crash, TakeCabOrder, LeaveSlave, ReceiveGlobalHallRequest,
         ReceiveElevState, ReceiveConnectionReq, CabButton, Serve, AccountOfCrash, AccountOfState,
         history
<1> QED  BY <1>1 DEF Kept, CopyHas, ElevatorHas, AtElevator, Owed

\* The answer makes the order of the copy in the very step that ends the waiting; the copy of a
\* node that is not short is whole, a short one has its calls already.  One that hears the answer to another is misled from then on.
LEMMA AnswerKeeps ==
  ASSUME TypeOK, AnswerConnectionReq, NEW o \in Others, Kept(o)
  PROVE  Kept(o)'
<1>1. PICK hearers \in SUBSET In("Disconnected") :
        /\ mode' = [n \in Others |-> IF n \in hearers THEN "Slave" ELSE mode[n]]
        /\ orders' = [n \in Others |-> IF n = asked /\ n \in hearers \cap fresh
                                       THEN orders[n] \cup knownNodes[n] ELSE orders[n]]
        /\ misled' = misled \cup ((hearers \cap fresh) \ {asked})
  BY DEF AnswerConnectionReq
<1>2. UNCHANGED <<fresh, cabs, knownNodes, lost, gone, short>>
  BY DEF AnswerConnectionReq
<1>3. CopyHas(o)'
  BY <1>2 DEF Kept, CopyHas, Owed
<1>4. CASE o \in hearers /\ o \in fresh
  <2>1. SUFFICES ASSUME o \notin misled' PROVE Owed(o)' \subseteq AtElevator(o)'
    BY <1>3 DEF Kept, ElevatorHas
  <2>2. o = asked /\ o \notin misled
    BY <1>1, <1>4, <2>1
  <2>3. orders'[o] = orders[o] \cup knownNodes[o]
    BY <1>1, <1>4, <2>2
  <2> QED  BY <1>2, <2>2, <2>3 DEF Kept, CopyHas, ElevatorHas, AtElevator, Owed
<1>5. CASE ~(o \in hearers /\ o \in fresh)
  <2>1. orders'[o] = orders[o] /\ (mode'[o] = mode[o] \/ o \notin fresh)
    BY <1>1, <1>5
  <2>2. o \notin misled' => o \notin misled
    BY <1>1
  <2> QED  BY <1>2, <1>3, <2>1, <2>2 DEF Kept, ElevatorHas, AtElevator, Owed
<1> QED  BY <1>4, <1>5

LEMMA NextKeeps == TypeOK /\ BackupKept /\ [Next]_vars => BackupKept'
<1> SUFFICES ASSUME TypeOK, BackupKept, [Next]_vars, NEW o \in Others
             PROVE  Kept(o)'
  BY DEF BackupKept, Kept, CopyHas, ElevatorHas
<1>0. Kept(o)
  BY DEF BackupKept, Kept, CopyHas, ElevatorHas
<1>1. CASE UNCHANGED vars
  BY <1>0, <1>1 DEF vars, history, Kept, CopyHas, ElevatorHas, AtElevator, Owed
<1>2. CASE AnswerConnectionReq
  BY <1>0, <1>2, AnswerKeeps
<1>3. ASSUME NEW n \in Others, NodeStep(n)
      PROVE  Kept(o)'
  <2>1. CASE o # n
    BY <1>0, <1>3, <2>1, StepSparesOthers
  <2>2. CASE o = n /\ Crash(n)
    BY <1>0, <2>2, CrashKeepsOwn
  <2>3. CASE o = n /\ ReceiveElevState(n)
    BY <1>0, <2>3, StateKeepsOwn
  <2>4. CASE o = n /\ ~Crash(n) /\ ~ReceiveElevState(n)
    BY <1>0, <1>3, <2>4, NodeKeepsOwn
  <2> QED  BY <2>1, <2>2, <2>3, <2>4
<1> QED  BY <1>1, <1>2, <1>3 DEF Next

LEMMA InitKept == Init => BackupKept
  BY DEF Init, BackupKept, AtElevator, Owed

\* Through any number of crashes of any node, what the backup owes an elevator is in the copy
\* or, once its request was answered, at the elevator; receivers.go:123 takes it away only by a
\* state sent before the cab order was taken or by a misled node, and only if a crash follows.
THEOREM BackupAlwaysKept == Spec => []BackupKept
<1>1. Spec => []TypeOK
  BY TypeCorrect
<1> QED  BY <1>1, InitKept, NextKeeps, PTL DEF Spec
=============================================================================
