---------------------------- MODULE OrderChannel ----------------------------
(***************************************************************************)
(* What the delivery of orders promises, however often they are lost,      *)
(* resent or replaced on the way: at each slave orders get into force in   *)
(* the order they were given, none comes back once a newer one is in       *)
(* force, the order the master wants stays under way until the slave has   *)
(* confirmed it, and a slave confirms the last order it has accepted, which *)
(* is in force or follows those that are to be.                            *)
(* HallAssignmentDelivery implements it.                                   *)
(***************************************************************************)
EXTENDS Integers, Sequences

CONSTANT Slaves

VARIABLES
  newest,       \* the number of the newest order
  assigned,     \* the order the master wants in force at each slave; 0: none
  pending,      \* the orders that can still arrive at each slave
  accepted,     \* the orders each slave has accepted, not yet in force
  unconfirmed,  \* the slaves that have not confirmed the order assigned to them
  inForce       \* the order in force at each slave

orderVars == <<newest, assigned, pending, accepted, unconfirmed, inForce>>

OrderInit ==
  /\ newest = 0 /\ assigned = [s \in Slaves |-> 0]
  /\ pending = [s \in Slaves |-> {}] /\ unconfirmed = {}
  /\ accepted = [s \in Slaves |-> <<>>] /\ inForce = [s \in Slaves |-> 0]

\* The last order that is or is going to be in force at s.
Last(s) == IF accepted[s] = <<>> THEN inForce[s] ELSE accepted[s][Len(accepted[s])]

\* At s no more than these orders stay under way, the unconfirmed one among them.
Keep(s, orders) ==
  /\ \E kept \in SUBSET orders : pending' = [pending EXCEPT ![s] = kept]
  /\ s \in unconfirmed' => assigned'[s] \in pending'[s]

Assign(s) ==
  /\ newest' = newest + 1
  /\ assigned' = [assigned EXCEPT ![s] = newest'] /\ unconfirmed' = unconfirmed \cup {s}
  /\ Keep(s, pending[s] \cup {newest'})
  /\ UNCHANGED <<accepted, inForce>>

\* What was given before it can no longer get into force.
Accept(s) ==
  \E o \in pending[s] :
     /\ o >= Last(s) /\ accepted' = [accepted EXCEPT ![s] = Append(@, o)]
     /\ UNCHANGED <<newest, assigned, unconfirmed, inForce>>
     /\ Keep(s, {p \in pending[s] : p >= o})

TakeEffect(s) ==
  /\ accepted[s] # <<>> /\ Head(accepted[s]) >= inForce[s]
  /\ inForce' = [inForce EXCEPT ![s] = Head(accepted[s])]
  /\ accepted' = [accepted EXCEPT ![s] = Tail(@)]
  /\ UNCHANGED <<newest, assigned, pending, unconfirmed>>

Lose(s) == UNCHANGED <<newest, assigned, accepted, unconfirmed, inForce>> /\ Keep(s, pending[s])

Confirm(s) ==
  /\ s \in unconfirmed /\ Last(s) = assigned[s]
  /\ unconfirmed' = unconfirmed \ {s}
  /\ UNCHANGED <<newest, assigned, accepted, inForce>>
  /\ Keep(s, pending[s])

\* The master comes or goes: it wants nothing, and what is under way may still arrive.
Handover ==
  /\ assigned' = [s \in Slaves |-> 0] /\ unconfirmed' = {}
  /\ pending' \in [Slaves -> SUBSET UNION {pending[s] : s \in Slaves}]
  /\ \A s \in Slaves : pending'[s] \subseteq pending[s]
  /\ UNCHANGED <<newest, accepted, inForce>>

OrderStep(s) == Assign(s) \/ Accept(s) \/ TakeEffect(s) \/ Lose(s) \/ Confirm(s)

OrderNext == Handover \/ \E s \in Slaves : OrderStep(s)

OrderSpec == OrderInit /\ [][OrderNext]_orderVars

\* What follows: once the slave has confirmed it, no other order than the one the master wants
\* will be the last in force.
ConfirmedIsLast ==
  \A s \in Slaves : assigned[s] # 0 /\ s \notin unconfirmed => Last(s) = assigned[s]
=============================================================================
