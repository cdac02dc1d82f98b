---------------------------- MODULE ReportChannel ----------------------------
(***************************************************************************)
(* What the delivery of completed calls promises, however often the        *)
(* reports are lost, repeated or delayed: a call goes out only on a report *)
(* that a slave made of it; a report is taken once, unless as many others  *)
(* as the master remembers came in between or the master changed; and a    *)
(* slave repeats its report until a master has taken it.                   *)
(* HACompleteDelivery implements it.                                       *)
(***************************************************************************)
EXTENDS Integers, Sequences

CONSTANTS Slaves, HallCalls,
          Memory   \* how many of the reports taken last the master tells from new ones

VARIABLES
  onDuty,       \* the slaves: their elevators' completions are reported
  made,         \* reports made so far; they are numbered
  outstanding,  \* the reports each slave repeats
  underWay,     \* the reports of each slave that can still arrive
  log,          \* numbers of the reports this master took last, the newest at the end
  settled,      \* numbers of the reports any master took
  requests      \* the calls that are lit

reportVars == <<onDuty, made, outstanding, underWay, log, settled, requests>>

ReportInit ==
  /\ onDuty = {} /\ made = 0
  /\ outstanding = [s \in Slaves |-> {}] /\ underWay = [s \in Slaves |-> {}]
  /\ log = <<>> /\ settled = {} /\ requests = {}

\* Of s no more than these reports stay under way, those it repeats among them.
Keep(s, reports) ==
  /\ \E kept \in SUBSET reports : underWay' = [underWay EXCEPT ![s] = kept]
  /\ outstanding'[s] \subseteq underWay'[s]

Press(call) == /\ requests' = requests \cup {call}
               /\ UNCHANGED <<onDuty, made, outstanding, underWay, log, settled>>

Join(s) == onDuty' = onDuty \cup {s} /\ UNCHANGED <<made, outstanding, underWay, log, settled, requests>>

\* Who is no slave any more repeats nothing.
Leave(s) ==
  /\ onDuty' = onDuty \ {s} /\ outstanding' = [outstanding EXCEPT ![s] = {}]
  /\ s \in onDuty /\ Keep(s, underWay[s])
  /\ UNCHANGED <<made, log, settled, requests>>

Report(s, call) ==
  /\ s \in onDuty /\ made' = made + 1
  /\ LET r == [call |-> call, MessageID |-> made'] IN
     /\ outstanding' = [outstanding EXCEPT ![s] = @ \cup {r}]
     /\ Keep(s, underWay[s] \cup {r})
  /\ UNCHANGED <<onDuty, log, settled, requests>>

Remembered(id) == \E i \in DOMAIN log : Len(log) - Memory < i /\ log[i] = id

\* The master may forget the oldest of more than it need remember.
Take(s) ==
  \E r \in underWay[s] :
     /\ ~Remembered(r.MessageID)
     /\ requests' = requests \ {r.call} /\ settled' = settled \cup {r.MessageID}
     /\ \/ log' = Append(log, r.MessageID)
        \/ Len(log) > Memory /\ log' = Append(Tail(log), r.MessageID)
     /\ UNCHANGED <<onDuty, made, outstanding>> /\ Keep(s, underWay[s])

Lose(s) == UNCHANGED <<onDuty, made, outstanding, log, settled, requests>> /\ Keep(s, underWay[s])

\* The slave need not repeat what a master has taken.
Settle(s) ==
  /\ \E kept \in SUBSET outstanding[s] : outstanding' = [outstanding EXCEPT ![s] = kept]
  /\ \A r \in outstanding[s] \ outstanding'[s] : r.MessageID \in settled
  /\ Keep(s, underWay[s])
  /\ UNCHANGED <<onDuty, made, log, settled, requests>>

NewMaster == log' = <<>> /\ UNCHANGED <<onDuty, made, outstanding, underWay, settled, requests>>

ReportNext ==
  \/ \E call \in HallCalls : Press(call) \/ \E s \in Slaves : Report(s, call)
  \/ \E s \in Slaves : Join(s) \/ Leave(s) \/ Take(s) \/ Lose(s) \/ Settle(s)
  \/ NewMaster

ReportSpec == ReportInit /\ [][ReportNext]_reportVars

\* What follows: no report is taken twice with less than Memory others in between.
TakenOnce == \A i, j \in DOMAIN log : i < j /\ j - i <= Memory => log[i] # log[j]
==============================================================================
