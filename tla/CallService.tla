---------------------------- MODULE CallService ----------------------------
(***************************************************************************)
(* What a master promises of the hall calls: a call once lit is put out    *)
(* only when an elevator that had it ordered has served it, and until then *)
(* it waits for a distribution, is ordered, is reported served, or is one  *)
(* of those that are known to have fallen.  HallDistribution implements    *)
(* it.                                                                     *)
(***************************************************************************)
CONSTANT Calls

VARIABLES
  lit,     \* the calls that are lit
  due,     \* a distribution is to come
  held,    \* the calls in the orders of an elevator
  told,    \* the calls a report says are served
  fallen   \* lit calls whose order has been lost or never made

serviceVars == <<lit, due, held, told, fallen>>

ServiceInit == lit = {} /\ due = FALSE /\ held = {} /\ told = {} /\ fallen = {}

\* Another elevator may hold c, too, and another report tell of it.
MayLose(c) == held' \in {held, held \ {c}} /\ told' \in {told, told \ {c}}

Press(c) == lit' = lit \cup {c} /\ due' = TRUE /\ UNCHANGED <<held, told, fallen>>

Repeat == due' = TRUE /\ UNCHANGED <<lit, held, told, fallen>>

HandOut ==
  /\ due /\ due' = FALSE
  /\ held' \subseteq held \cup lit
  /\ lit \subseteq held' \cup told \cup fallen'
  /\ fallen' \subseteq lit
  /\ UNCHANGED <<lit, told>>

Serve(c) ==
  /\ c \in held /\ held' \in {held, held \ {c}}
  /\ told' = told \cup {c}
  /\ UNCHANGED <<lit, due, fallen>>

PutOut(c) ==
  /\ c \in held \cup told
  /\ lit' = lit \ {c} /\ fallen' = fallen \ {c}
  /\ MayLose(c)
  /\ UNCHANGED due

\* Orders are withdrawn or lost with their elevator, reports with their sender.
LetFall ==
  /\ held' \subseteq held /\ told' \subseteq told
  /\ fallen \cup (lit \cap ((held \ held') \cup (told \ told'))) \subseteq fallen'
  /\ fallen' \subseteq fallen \cup (lit \cap (held \cup told))
  /\ UNCHANGED <<lit, due>>

ServiceNext ==
  \/ Repeat \/ HandOut \/ LetFall
  \/ \E c \in Calls : Press(c) \/ Serve(c) \/ PutOut(c)

ServiceSpec == ServiceInit /\ [][ServiceNext]_serviceVars

\* What follows: no lit call is out of all hands.
NoneForgotten == due \/ lit \subseteq held \cup told \cup fallen
=============================================================================
