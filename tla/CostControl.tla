----------------------------- MODULE CostControl -----------------------------
(***************************************************************************)
(* The cost-control Lambda: STOP and START of the environment, the daily   *)
(* maintenance that enforces a stop and alerts on spend, and what AWS does *)
(* on its own.  A command and a maintenance may be under way at once; any  *)
(* of their API calls may fail, and a failed invocation may be retried.    *)
(***************************************************************************)
EXTENDS Naturals, FiniteSets

CONSTANTS
  Groups,       \* the managed node groups
  MaxSpend,     \* bound: thresholds the spend of a month crosses
  MaxMonth,     \* bound: months
  MaxFailures   \* bound: API calls that fail

ASSUME CostAssumption ==
  Groups # {} /\ MaxSpend \in Nat /\ MaxMonth \in Nat \ {0} /\ MaxFailures \in Nat

Invocations == {"command", "daily"}
Idle == [step |-> "idle"]

VARIABLES
  requested,  \* the power-state parameter's desired_state
  cost,       \* the cost-state parameter: month and last threshold alerted
  nodes,      \* node group -> has its configured capacity (else scaled to zero)
  database,   \* the RDS status
  spend,      \* thresholds crossed by the spend of the month
  month,
  call,       \* invocation -> what it is doing
  sent,       \* month -> threshold -> alerts sent
  failures,
  clear       \* history: nothing came in the way of the last START
power == <<requested, nodes, database, clear>>
costs == <<cost, sent>>
aws == <<spend, month, failures>>
vars == <<power, costs, aws, call>>

Months == 1 .. MaxMonth
Thresholds == 1 .. MaxSpend

Init ==
  /\ requested = "running"
  /\ cost = [month |-> 0, last |-> 0]
  /\ nodes = [g \in Groups |-> TRUE]
  /\ database = "available"
  /\ spend = 0
  /\ month = 1
  /\ call = [i \in Invocations |-> Idle]
  /\ sent = [m \in Months |-> [t \in Thresholds |-> 0]]
  /\ failures = 0
  /\ clear = TRUE

At(i, step) == call[i].step = step
Goes(i, c) == call' = [call EXCEPT ![i] = c]

\* A stop or start that has read which groups have capacity and has yet to see
\* to the groups left.
Power(step, doing, seen, left) == [step |-> step, doing |-> doing, seen |-> seen, left |-> left]
Begin(doing) == Power("groups", doing, {}, {})

\* Where an invocation goes when its stop is done.
AfterStop(i) == IF i = "daily" THEN [step |-> "costs"] ELSE Idle

Command(doing) ==
  /\ At("command", "idle")
  /\ Goes("command", Begin(doing))
  /\ clear' = IF doing = "start" THEN TRUE ELSE clear
  /\ UNCHANGED <<requested, nodes, database, costs, aws>>

ReadGroups(i) ==
  /\ At(i, "groups")
  /\ Goes(i, Power("record", call[i].doing, {g \in Groups : nodes[g]}, Groups))
  /\ UNCHANGED <<power, costs, aws>>

\* Recorded before any other call, so that a stop that fails is taken up again.
Record(i) ==
  /\ At(i, "record")
  /\ requested' = IF call[i].doing = "stop" THEN "stopped" ELSE "running"
  /\ Goes(i, [call[i] EXCEPT !.step = IF call[i].doing = "stop" THEN "nodes" ELSE "database"])
  /\ clear' = (clear /\ i # "daily")
  /\ UNCHANGED <<nodes, database, costs, aws>>

\* Mutant: a start takes every group to be restored already.
NeedsUpdate_OnlyToStop(c, g) == c.doing = "stop" /\ g \in c.seen

\* A group that was seen in its target state is left alone.
NeedsUpdate(c, g) == (c.doing = "stop") = (g \in c.seen)

Scale(i) ==
  /\ At(i, "nodes")
  /\ \E g \in call[i].left :
       /\ nodes' = IF NeedsUpdate(call[i], g)
                   THEN [nodes EXCEPT ![g] = (call[i].doing = "start")] ELSE nodes
       /\ LET left == call[i].left \ {g}
              next == IF left # {} THEN [call[i] EXCEPT !.left = left]
                      ELSE IF call[i].doing = "stop" THEN [call[i] EXCEPT !.step = "database"]
                      ELSE Idle
          IN  Goes(i, next)
  /\ clear' = (clear /\ i # "daily")
  /\ UNCHANGED <<requested, database, costs, aws>>

StopDatabase(i) ==
  /\ At(i, "database") /\ call[i].doing = "stop"
  /\ database' = IF database = "available" THEN "stopping" ELSE database
  /\ Goes(i, AfterStop(i))
  /\ clear' = (clear /\ i # "daily")
  /\ UNCHANGED <<requested, nodes, costs, aws>>

StartDatabase(i) ==
  /\ At(i, "database") /\ call[i].doing = "start"
  /\ database' = IF database = "stopped" THEN "starting" ELSE database
  /\ clear' = (clear /\ database # "stopping")
  /\ Goes(i, [call[i] EXCEPT !.step = "nodes"])
  /\ UNCHANGED <<requested, nodes, costs, aws>>

DailyStarts ==
  /\ At("daily", "idle")
  /\ Goes("daily", [step |-> "reconcile"])
  /\ UNCHANGED <<power, costs, aws>>

\* Mutant: nothing is done while the groups are scaled to zero.
ShutdownRequested_NodesOnly == requested = "stopped" /\ \E g \in Groups : nodes[g]

ShutdownRequested == requested = "stopped"

Reconcile ==
  /\ At("daily", "reconcile")
  /\ Goes("daily", IF ShutdownRequested THEN Begin("stop") ELSE [step |-> "costs"])
  /\ UNCHANGED <<power, costs, aws>>

\* Mutant: the month of the record is not looked at.
LastAlerted_AnyMonth == cost.last

\* The last threshold alerted this month.
LastAlerted == IF cost.month = month THEN cost.last ELSE 0

\* The month, its spend and the threshold recorded are read together.
CheckCosts ==
  /\ At("daily", "costs")
  /\ Goes("daily", [step |-> "alerts", month |-> month, actual |-> spend,
                    last |-> LastAlerted])
  /\ UNCHANGED <<power, costs, aws>>

SendAlert ==
  /\ At("daily", "alerts")
  /\ LET c == call["daily"]
     IN  /\ c.last < c.actual
         /\ sent' = [sent EXCEPT ![c.month][c.last + 1] = @ + 1]
         /\ Goes("daily", [c EXCEPT !.last = @ + 1])
  /\ UNCHANGED <<power, cost, aws>>

\* Mutant: the threshold before the last one alerted is recorded.
Recorded_OneBefore(c) == [month |-> c.month, last |-> IF c.last = 0 THEN 0 ELSE c.last - 1]

Recorded(c) == [month |-> c.month, last |-> c.last]

RecordAlerts ==
  /\ At("daily", "alerts")
  /\ call["daily"].last >= call["daily"].actual
  /\ cost' = Recorded(call["daily"])
  /\ Goes("daily", Idle)
  /\ UNCHANGED <<power, sent, aws>>

\* A call of AWS fails.  In the maintenance a failed reconciliation does not
\* keep the costs from being checked; an invocation that fails is retried, or
\* given up, and the maintenance runs again in any case.
Fail(i) ==
  /\ ~At(i, "idle")
  /\ failures < MaxFailures
  /\ failures' = failures + 1
  /\ IF i = "daily"
     THEN Goes(i, IF At(i, "costs") \/ At(i, "alerts") THEN Idle ELSE [step |-> "costs"])
     ELSE \E next \in {Idle, Begin(call[i].doing)} : Goes(i, next)
  /\ clear' = (clear /\ (i = "daily" \/ ~At(i, "idle")'))
  /\ UNCHANGED <<requested, nodes, database, costs, spend, month>>

\* AWS: the database gets where it is going, and after seven days stopped it
\* starts on its own; money is spent; months pass.
DatabaseSettles ==
  /\ database \in {"stopping", "starting"}
  /\ database' = IF database = "stopping" THEN "stopped" ELSE "available"
  /\ UNCHANGED <<requested, nodes, clear, costs, aws, call>>

SevenDaysPass ==
  /\ database = "stopped"
  /\ database' = "starting"
  /\ UNCHANGED <<requested, nodes, clear, costs, aws, call>>

Spend ==
  /\ spend < MaxSpend
  /\ spend' = spend + 1
  /\ UNCHANGED <<power, costs, month, failures, call>>

NewMonth ==
  /\ month < MaxMonth
  /\ month' = month + 1
  /\ spend' = 0
  /\ UNCHANGED <<power, costs, failures, call>>

Step(i) ==
  \/ ReadGroups(i) \/ Record(i) \/ Scale(i) \/ StopDatabase(i) \/ StartDatabase(i)
  \/ i = "daily" /\ (Reconcile \/ CheckCosts \/ SendAlert \/ RecordAlerts)

Next ==
  \/ \E doing \in {"stop", "start"} : Command(doing)
  \/ DailyStarts
  \/ \E i \in Invocations : Step(i) \/ Fail(i)
  \/ DatabaseSettles \/ SevenDaysPass \/ Spend \/ NewMonth

\* An invocation under way goes on, the schedule fires every day, and AWS does
\* what it was asked; nobody has to give a command or spend.
Fairness ==
  /\ \A i \in Invocations : WF_vars(Step(i))
  /\ WF_vars(DailyStarts)
  /\ WF_vars(DatabaseSettles)

Spec == Init /\ [][Next]_vars /\ Fairness
-------------------------------------------------------------------------------
Down == (\A g \in Groups : ~nodes[g]) /\ database = "stopped"
Up == (\A g \in Groups : nodes[g]) /\ database = "available"

\* What an invocation may be doing.
PowerCalls == [step : {"groups", "record", "nodes", "database"}, doing : {"stop", "start"},
               seen : SUBSET Groups, left : SUBSET Groups]
DailyCalls == [step : {"reconcile", "costs"}]
CheckCalls == [step : {"alerts"}, month : Months, actual : 0 .. MaxSpend, last : 0 .. MaxSpend]

(* The parameters, the environment and the invocations are what they may   *)
(* be; only the maintenance checks the costs.                              *)
TypeOK ==
  /\ requested \in {"running", "stopped"}
  /\ cost \in [month : 0 .. MaxMonth, last : 0 .. MaxSpend]
  /\ nodes \in [Groups -> BOOLEAN]
  /\ database \in {"available", "stopping", "stopped", "starting"}
  /\ spend \in 0 .. MaxSpend /\ month \in Months /\ failures \in 0 .. MaxFailures
  /\ call \in [Invocations -> PowerCalls \cup DailyCalls \cup CheckCalls \cup {Idle}]
  /\ call["command"] \in PowerCalls \cup {Idle}
  /\ sent \in [Months -> [Thresholds -> Nat]]
  /\ clear \in BOOLEAN

(* A stop that stays requested takes effect again and again: whatever      *)
(* failed on the way, and although the database restarts on its own, the   *)
(* daily maintenance gets the environment down (stop_environment's comment *)
(* on recording first).                                                    *)
StopIsKept == []<>(requested = "running" \/ Down)

(* A start brings the whole environment back, although the database takes  *)
(* its time, unless a shutdown of the maintenance came in between, a call  *)
(* failed and was not retried, or the database was still stopping: those   *)
(* nothing takes up.                                                       *)
StartRestores == []<>(requested = "stopped" \/ ~clear \/ Up)

(* No threshold is lost: one that is recorded as alerted was, and so was   *)
(* every one below it in the same month.                                   *)
RecordedAlertsWereSent ==
  cost.month > 0 => \A t \in 1 .. cost.last : sent[cost.month][t] > 0

(* An alert is repeated only after a failure, which loses the record of it *)
(* and at most once for each.                                              *)
AlertsRepeatOnlyAfterFailures ==
  \A m \in Months, t \in Thresholds : sent[m][t] <= 1 + failures
===============================================================================
