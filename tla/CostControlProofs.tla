-------------------------- MODULE CostControlProofs --------------------------
(***************************************************************************)
(* What holds of the alerts for any groups, spend, months and failures.    *)
(***************************************************************************)
EXTENDS CostControl, TLAPS

LEMMA TypeInit == Init => TypeOK
  <1> SUFFICES ASSUME Init PROVE TypeOK
    OBVIOUS
  <1>1. Idle \in [step : {"idle"}]
    BY DEF Idle
  <1> QED
    BY <1>1, CostAssumption DEF Init, TypeOK, Months, Thresholds, Invocations

\* What an invocation that is at a step of a stop or start is.
LEMMA PowerStep ==
  ASSUME TypeOK, NEW i \in Invocations,
         call[i].step \in {"groups", "record", "nodes", "database"}
  PROVE  call[i] \in PowerCalls
  BY DEF TypeOK, PowerCalls, DailyCalls, CheckCalls, Idle, Invocations

LEMMA CheckStep ==
  ASSUME TypeOK, NEW i \in Invocations, At(i, "alerts")
  PROVE  i = "daily" /\ call[i] \in CheckCalls
  BY DEF TypeOK, PowerCalls, DailyCalls, CheckCalls, Idle, Invocations, At

\* An invocation that goes to a proper step keeps the calls typed.
LEMMA GoesTyped ==
  ASSUME TypeOK, NEW i \in Invocations, NEW c, Goes(i, c),
         c \in PowerCalls \cup DailyCalls \cup CheckCalls \cup {Idle},
         i = "command" => c \in PowerCalls \cup {Idle}
  PROVE  /\ call' \in [Invocations -> PowerCalls \cup DailyCalls \cup CheckCalls \cup {Idle}]
         /\ call'["command"] \in PowerCalls \cup {Idle}
  BY DEF TypeOK, Goes, Invocations

LEMMA BeginTyped == \A doing \in {"stop", "start"} : Begin(doing) \in PowerCalls
  BY DEF Begin, Power, PowerCalls

LEMMA TypeStep == TypeOK /\ [Next]_vars => TypeOK'
  <1> SUFFICES ASSUME TypeOK, [Next]_vars PROVE TypeOK'
    OBVIOUS
  <1> USE CostAssumption
  <1>1. ASSUME NEW doing \in {"stop", "start"}, Command(doing) PROVE TypeOK'
    <2>1. Begin(doing) \in PowerCalls
      BY BeginTyped
    <2> QED
      BY <1>1, <2>1, GoesTyped DEF Command, TypeOK, costs, aws, Invocations
  <1>2. CASE DailyStarts
    <2>1. [step |-> "reconcile"] \in DailyCalls
      BY DEF DailyCalls
    <2> QED
      BY <1>2, <2>1, GoesTyped DEF DailyStarts, TypeOK, power, costs, aws, Invocations
  <1>3. ASSUME NEW i \in Invocations, ReadGroups(i) PROVE TypeOK'
    <2>1. Power("record", call[i].doing, {g \in Groups : nodes[g]}, Groups) \in PowerCalls
      BY <1>3, PowerStep DEF ReadGroups, At, Power, PowerCalls
    <2> QED
      BY <1>3, <2>1, GoesTyped DEF ReadGroups, TypeOK, power, costs, aws
  <1>4. ASSUME NEW i \in Invocations, Record(i) PROVE TypeOK'
    <2>1. [call[i] EXCEPT !.step = IF call[i].doing = "stop" THEN "nodes" ELSE "database"]
            \in PowerCalls
      BY <1>4, PowerStep DEF Record, At, PowerCalls
    <2> QED
      BY <1>4, <2>1, GoesTyped DEF Record, TypeOK, costs, aws
  <1>5. ASSUME NEW i \in Invocations, Scale(i) PROVE TypeOK'
    <2>1. PICK g \in call[i].left :
            /\ nodes' = IF NeedsUpdate(call[i], g)
                        THEN [nodes EXCEPT ![g] = (call[i].doing = "start")] ELSE nodes
            /\ LET left == call[i].left \ {g}
                   next == IF left # {} THEN [call[i] EXCEPT !.left = left]
                           ELSE IF call[i].doing = "stop" THEN [call[i] EXCEPT !.step = "database"]
                           ELSE Idle
               IN  Goes(i, next)
      BY <1>5 DEF Scale
    <2>2. call[i] \in PowerCalls
      BY <1>5, PowerStep DEF Scale, At
    <2>3. nodes' \in [Groups -> BOOLEAN]
      BY <2>1, <2>2 DEF TypeOK, PowerCalls
    <2>4. [call[i] EXCEPT !.left = call[i].left \ {g}] \in PowerCalls
          /\ [call[i] EXCEPT !.step = "database"] \in PowerCalls
      BY <2>2 DEF PowerCalls
    <2>5. /\ call' \in [Invocations -> PowerCalls \cup DailyCalls \cup CheckCalls \cup {Idle}]
          /\ call'["command"] \in PowerCalls \cup {Idle}
      BY <2>1, <2>4, GoesTyped
    <2> QED
      BY <1>5, <2>3, <2>5 DEF Scale, TypeOK, costs, aws
  <1>6. ASSUME NEW i \in Invocations, StopDatabase(i) PROVE TypeOK'
    <2>1. /\ AfterStop(i) \in DailyCalls \cup {Idle}
          /\ i = "command" => AfterStop(i) = Idle
      BY DEF AfterStop, DailyCalls
    <2> QED
      BY <1>6, <2>1, GoesTyped DEF StopDatabase, TypeOK, costs, aws
  <1>7. ASSUME NEW i \in Invocations, StartDatabase(i) PROVE TypeOK'
    <2>1. [call[i] EXCEPT !.step = "nodes"] \in PowerCalls
      BY <1>7, PowerStep DEF StartDatabase, At, PowerCalls
    <2> QED
      BY <1>7, <2>1, GoesTyped DEF StartDatabase, TypeOK, costs, aws
  <1>8. CASE Reconcile
    <2>1. Begin("stop") \in PowerCalls /\ [step |-> "costs"] \in DailyCalls
      BY BeginTyped DEF DailyCalls
    <2> QED
      BY <1>8, <2>1, GoesTyped DEF Reconcile, TypeOK, power, costs, aws, Invocations
  <1>9. CASE CheckCosts
    <2>1. [step |-> "alerts", month |-> month, actual |-> spend, last |-> LastAlerted]
            \in CheckCalls
      BY DEF TypeOK, CheckCalls, LastAlerted
    <2> QED
      BY <1>9, <2>1, GoesTyped DEF CheckCosts, TypeOK, power, costs, aws, Invocations
  <1>10. CASE SendAlert
    <2>1. call["daily"] \in CheckCalls
      BY <1>10, CheckStep DEF SendAlert, Invocations
    <2>2. call["daily"].last < call["daily"].actual
      BY <1>10 DEF SendAlert
    <2>3. [call["daily"] EXCEPT !.last = @ + 1] \in CheckCalls
      BY <2>1, <2>2 DEF CheckCalls
    <2>4. sent' \in [Months -> [Thresholds -> Nat]]
      BY <1>10, <2>1, <2>2 DEF SendAlert, TypeOK, CheckCalls, Thresholds
    <2> QED
      BY <1>10, <2>3, <2>4, GoesTyped DEF SendAlert, TypeOK, power, aws, Invocations
  <1>11. CASE RecordAlerts
    <2>1. call["daily"] \in CheckCalls
      BY <1>11, CheckStep DEF RecordAlerts, Invocations
    <2>2. Recorded(call["daily"]) \in [month : 0 .. MaxMonth, last : 0 .. MaxSpend]
      BY <2>1 DEF Recorded, CheckCalls, Months
    <2> QED
      BY <1>11, <2>2, GoesTyped DEF RecordAlerts, TypeOK, power, aws, Invocations
  <1>12. ASSUME NEW i \in Invocations, Fail(i) PROVE TypeOK'
    <2>1. failures' \in 0 .. MaxFailures
      BY <1>12 DEF Fail, TypeOK
    <2>2. CASE i = "daily"
      <3>1. [step |-> "costs"] \in DailyCalls
        BY DEF DailyCalls
      <3> QED
        BY <1>12, <2>1, <2>2, <3>1, GoesTyped DEF Fail, TypeOK, costs
    <2>3. CASE i # "daily"
      <3>1. i = "command" /\ call[i] \in PowerCalls
        BY <1>12, <2>3 DEF Fail, TypeOK, Invocations, At, Idle
      <3>2. Begin(call[i].doing) \in PowerCalls
        BY <3>1, BeginTyped DEF PowerCalls
      <3> QED
        BY <1>12, <2>1, <2>3, <3>1, <3>2, GoesTyped DEF Fail, TypeOK, costs
    <2> QED
      BY <2>2, <2>3
  <1>13. CASE DatabaseSettles
    BY <1>13 DEF DatabaseSettles, TypeOK, costs, aws
  <1>14. CASE SevenDaysPass
    BY <1>14 DEF SevenDaysPass, TypeOK, costs, aws
  <1>15. CASE Spend
    BY <1>15 DEF Spend, TypeOK, power, costs
  <1>16. CASE NewMonth
    BY <1>16 DEF NewMonth, TypeOK, power, costs, Months
  <1>17. CASE UNCHANGED vars
    BY <1>17 DEF vars, power, costs, aws, TypeOK
  <1> QED
    BY <1>1, <1>2, <1>3, <1>4, <1>5, <1>6, <1>7, <1>8, <1>9, <1>10, <1>11, <1>12, <1>13,
       <1>14, <1>15, <1>16, <1>17 DEF Next, Step, Invocations

(* The state of the cost control stays well typed, however its invocations *)
(* interleave and fail.                                                    *)
THEOREM TypeCorrect == Spec => []TypeOK
  BY TypeInit, TypeStep, PTL DEF Spec
-------------------------------------------------------------------------------
Checking == At("daily", "alerts")
Check == call["daily"]

\* Threshold t of month m was alerted by the check under way.
JustSent(m, t) == Checking /\ m = Check.month /\ t <= Check.last

\* The record has t of month m.
OnRecord(m, t) == m < cost.month \/ (m = cost.month /\ t <= cost.last)

\* The check under way is of this month or an older one, and past the record.
ChecksGoOn ==
  /\ cost.month <= month
  /\ Checking => /\ cost.month <= Check.month /\ Check.month <= month
                 /\ Check.month = cost.month => cost.last <= Check.last

\* What makes the alerts inductive: those of the check under way were sent,
\* and a threshold neither recorded nor just sent has only its failures.
AlertInv ==
  /\ ChecksGoOn
  /\ RecordedAlertsWereSent
  /\ AlertsRepeatOnlyAfterFailures
  /\ Checking => \A t \in 1 .. Check.last : sent[Check.month][t] > 0
  /\ \A m \in Months, t \in Thresholds :
       ~OnRecord(m, t) /\ ~JustSent(m, t) => sent[m][t] <= failures

LEMMA AlertInit == Init => AlertInv
  BY CostAssumption DEF Init, AlertInv, ChecksGoOn, Checking, Check, At, Idle, JustSent, OnRecord,
     RecordedAlertsWereSent, AlertsRepeatOnlyAfterFailures, Months, Thresholds, Invocations

\* A step that sends and records nothing, and leaves the check where it was or
\* ends it after a failure, keeps the invariant.
LEMMA AlertKept ==
  ASSUME TypeOK, AlertInv, UNCHANGED <<cost, sent>>,
         failures' \in Nat, month' \in Nat, month <= month',
         \/ failures' = failures /\ (Checking <=> Checking') /\ (Checking => Check' = Check)
         \/ failures' = failures + 1 /\ ~Checking'
         \/ failures' = failures + 1 /\ Checking' /\ Checking /\ Check' = Check
  PROVE  AlertInv'
  <1> USE CostAssumption
  <1>1. failures \in Nat /\ month \in Nat /\ cost.month \in Nat /\ cost.last \in Nat
    BY DEF TypeOK, Months
  <1>2. \A m \in Months, t \in Thresholds : sent[m][t] \in Nat
    BY DEF TypeOK
  <1>3. Checking => Check.month \in Months /\ Check.last \in 0 .. MaxSpend
    BY CheckStep DEF Checking, Check, CheckCalls, Invocations
  <1>4. ChecksGoOn'
    BY <1>1, <1>3 DEF AlertInv, ChecksGoOn, Months
  <1>5. RecordedAlertsWereSent'
    BY DEF AlertInv, RecordedAlertsWereSent
  <1>6. AlertsRepeatOnlyAfterFailures'
    BY <1>1, <1>2 DEF AlertInv, AlertsRepeatOnlyAfterFailures
  <1>7. (Checking => \A t \in 1 .. Check.last : sent[Check.month][t] > 0)'
    BY DEF AlertInv
  <1>8. ASSUME NEW m \in Months, NEW t \in Thresholds, ~OnRecord(m, t)', ~JustSent(m, t)'
        PROVE  sent'[m][t] <= failures'
    <2>1. ~OnRecord(m, t)
      BY <1>8 DEF OnRecord
    <2>2. CASE failures' = failures
      BY <1>8, <2>1, <2>2, <1>1 DEF AlertInv, JustSent
    <2>3. CASE failures' = failures + 1
      BY <2>3, <1>1, <1>2 DEF AlertInv, AlertsRepeatOnlyAfterFailures
    <2> QED
      BY <2>2, <2>3
  <1> QED
    BY <1>4, <1>5, <1>6, <1>7, <1>8 DEF AlertInv

LEMMA AlertStep == TypeOK /\ AlertInv /\ [Next]_vars => AlertInv'
  <1> SUFFICES ASSUME TypeOK, AlertInv, [Next]_vars PROVE AlertInv'
    OBVIOUS
  <1> USE CostAssumption
  <1>1. failures \in Nat /\ month \in Nat /\ month + 1 \in Nat
    BY DEF TypeOK, Months
  <1>2. \A m \in Months, t \in Thresholds : sent[m][t] \in Nat
    BY DEF TypeOK
  <1>3. Checking => Check \in CheckCalls
    BY CheckStep DEF Checking, Check, Invocations
  <1>4. ASSUME NEW i \in Invocations, NEW c, Goes(i, c), ~At(i, "alerts"), c.step # "alerts",
               UNCHANGED <<costs, aws>>
        PROVE  AlertInv'
    <2>1. (Checking <=> Checking') /\ (Checking => Check' = Check)
      BY <1>4 DEF Goes, TypeOK, Checking, Check, At, Invocations
    <2> QED
      BY <1>1, <1>4, <2>1, AlertKept DEF costs, aws
  <1>5. ASSUME NEW doing \in {"stop", "start"}, Command(doing) PROVE AlertInv'
    BY <1>5, <1>4 DEF Command, At, Begin, Power, Invocations
  <1>6. CASE DailyStarts
    BY <1>6, <1>4 DEF DailyStarts, At, Invocations
  <1>7. ASSUME NEW i \in Invocations, ReadGroups(i) PROVE AlertInv'
    BY <1>7, <1>4 DEF ReadGroups, At, Power
  <1>8. ASSUME NEW i \in Invocations, Record(i) PROVE AlertInv'
    <2>1. [call[i] EXCEPT !.step = IF call[i].doing = "stop" THEN "nodes" ELSE "database"].step
            # "alerts"
      BY <1>8, PowerStep DEF Record, At, PowerCalls
    <2> QED
      BY <1>8, <2>1, <1>4 DEF Record, At
  <1>9. ASSUME NEW i \in Invocations, Scale(i) PROVE AlertInv'
    <2>1. PICK g \in call[i].left :
            LET left == call[i].left \ {g}
                next == IF left # {} THEN [call[i] EXCEPT !.left = left]
                        ELSE IF call[i].doing = "stop" THEN [call[i] EXCEPT !.step = "database"]
                        ELSE Idle
            IN  Goes(i, next)
      BY <1>9 DEF Scale
    <2>2. /\ [call[i] EXCEPT !.left = call[i].left \ {g}].step # "alerts"
          /\ [call[i] EXCEPT !.step = "database"].step # "alerts"
          /\ Idle.step # "alerts"
      BY <1>9, PowerStep DEF Scale, At, PowerCalls, Idle
    <2>3. ~At(i, "alerts") /\ UNCHANGED <<costs, aws>>
      BY <1>9 DEF Scale, At
    <2> QED
      BY <2>1, <2>2, <2>3, <1>4
  <1>10. ASSUME NEW i \in Invocations, StopDatabase(i) PROVE AlertInv'
    BY <1>10, <1>4 DEF StopDatabase, At, AfterStop, Idle
  <1>11. ASSUME NEW i \in Invocations, StartDatabase(i) PROVE AlertInv'
    <2>1. [call[i] EXCEPT !.step = "nodes"].step # "alerts"
      BY <1>11, PowerStep DEF StartDatabase, At, PowerCalls
    <2> QED
      BY <1>11, <2>1, <1>4 DEF StartDatabase, At
  <1>12. CASE Reconcile
    BY <1>12, <1>4 DEF Reconcile, At, Begin, Power, Invocations
  <1>13. CASE CheckCosts
    <2> DEFINE c == [step |-> "alerts", month |-> month, actual |-> spend, last |-> LastAlerted]
    <2>1. Check' = c /\ Checking' /\ ~Checking /\ UNCHANGED <<cost, sent, month, failures>>
      BY <1>13 DEF CheckCosts, Goes, TypeOK, Check, Checking, At, Invocations, costs, aws
    <2>2. ChecksGoOn'
      BY <2>1, <1>1 DEF AlertInv, ChecksGoOn, LastAlerted, TypeOK
    <2>3. \A t \in 1 .. c.last : sent[c.month][t] > 0
      BY DEF AlertInv, RecordedAlertsWereSent, LastAlerted, TypeOK, Months
    <2>4. \A m \in Months, t \in Thresholds :
            ~OnRecord(m, t) => sent[m][t] <= failures
      BY <2>1 DEF AlertInv, JustSent
    <2>5. RecordedAlertsWereSent' /\ AlertsRepeatOnlyAfterFailures'
      BY <2>1 DEF AlertInv, RecordedAlertsWereSent, AlertsRepeatOnlyAfterFailures
    <2>6. (Checking => \A t \in 1 .. Check.last : sent[Check.month][t] > 0)'
      BY <2>1, <2>3
    <2>7. \A m \in Months, t \in Thresholds :
            (~OnRecord(m, t) /\ ~JustSent(m, t) => sent[m][t] <= failures)'
      BY <2>1, <2>4 DEF OnRecord
    <2> QED
      BY <2>2, <2>5, <2>6, <2>7 DEF AlertInv
  <1>14. CASE SendAlert
    <2> DEFINE n == Check.last + 1
    <2>1. Checking /\ Check \in CheckCalls
      BY <1>14, <1>3 DEF SendAlert, Checking
    <2>2. n \in Thresholds /\ Check.month \in Months /\ Check.last < n /\ Check.last \in Nat
      BY <1>14, <2>1 DEF SendAlert, Check, CheckCalls, Thresholds
    <2>3. /\ Checking' /\ Check'.month = Check.month /\ Check'.last = n
          /\ sent' = [sent EXCEPT ![Check.month][n] = @ + 1]
          /\ UNCHANGED <<cost, month, failures>>
      BY <1>14, <2>1 DEF SendAlert, Goes, TypeOK, Check, Checking, At, Invocations, aws, CheckCalls
    <2>4. ~OnRecord(Check.month, n) /\ ~JustSent(Check.month, n)
      BY <2>1, <2>2 DEF OnRecord, JustSent, AlertInv, ChecksGoOn, TypeOK, Months
    <2>5. sent[Check.month][n] <= failures
      BY <2>2, <2>4 DEF AlertInv
    <2>6. \A m \in Months, t \in Thresholds :
            sent'[m][t] = IF m = Check.month /\ t = n THEN sent[m][t] + 1 ELSE sent[m][t]
      BY <2>2, <2>3 DEF TypeOK
    <2>7. ChecksGoOn'
      BY <2>1, <2>2, <2>3 DEF AlertInv, ChecksGoOn, TypeOK
    <2>8. RecordedAlertsWereSent'
      <3> SUFFICES ASSUME cost.month > 0, NEW t \in 1 .. cost.last
                   PROVE  sent'[cost.month][t] > 0
        BY <2>3 DEF RecordedAlertsWereSent
      <3>1. cost.month \in Months /\ t \in Thresholds
        BY DEF TypeOK, Months, Thresholds
      <3>2. sent[cost.month][t] > 0
        BY DEF AlertInv, RecordedAlertsWereSent
      <3> QED
        BY <3>1, <3>2, <2>6, <1>2
    <2>9. AlertsRepeatOnlyAfterFailures'
      BY <2>3, <2>5, <2>6, <1>1, <1>2 DEF AlertInv, AlertsRepeatOnlyAfterFailures
    <2>10. (Checking => \A t \in 1 .. Check.last : sent[Check.month][t] > 0)'
      <3> SUFFICES ASSUME NEW t \in 1 .. n PROVE sent'[Check.month][t] > 0
        BY <2>3
      <3>1. t \in Thresholds
        BY <2>2 DEF Thresholds
      <3>2. t # n => sent[Check.month][t] > 0
        BY <2>1, <2>2 DEF AlertInv
      <3> QED
        BY <3>1, <3>2, <2>2, <2>6, <1>2
    <2>11. \A m \in Months, t \in Thresholds :
             (~OnRecord(m, t) /\ ~JustSent(m, t) => sent[m][t] <= failures)'
      BY <2>1, <2>2, <2>3, <2>6 DEF AlertInv, OnRecord, JustSent, Thresholds
    <2> QED
      BY <2>7, <2>8, <2>9, <2>10, <2>11 DEF AlertInv
  <1>15. CASE RecordAlerts
    <2>1. Checking /\ Check \in CheckCalls
      BY <1>15, <1>3 DEF RecordAlerts, Checking
    <2>2. /\ ~Checking' /\ cost'.month = Check.month /\ cost'.last = Check.last
          /\ UNCHANGED <<sent, month, failures>>
      BY <1>15 DEF RecordAlerts, Recorded, Goes, TypeOK, Check, Checking, At, Idle, Invocations, aws
    <2>3. ChecksGoOn' /\ RecordedAlertsWereSent' /\ AlertsRepeatOnlyAfterFailures'
      BY <2>1, <2>2 DEF AlertInv, ChecksGoOn, RecordedAlertsWereSent,
         AlertsRepeatOnlyAfterFailures
    <2>4. \A m \in Months, t \in Thresholds :
            ~OnRecord(m, t)' => ~OnRecord(m, t) /\ ~JustSent(m, t)
      <3>1. /\ cost.month \in Nat /\ cost.last \in Nat
            /\ Check.month \in Nat /\ Check.last \in Nat
        BY <2>1 DEF TypeOK, CheckCalls, Months
      <3>2. /\ cost.month <= Check.month
            /\ Check.month = cost.month => cost.last <= Check.last
        BY <2>1 DEF AlertInv, ChecksGoOn
      <3>3. Months \subseteq Nat /\ Thresholds \subseteq Nat
        BY DEF Months, Thresholds
      <3> QED
        BY <2>2, <3>1, <3>2, <3>3 DEF OnRecord, JustSent
    <2> QED
      BY <2>2, <2>3, <2>4 DEF AlertInv
  <1>16. ASSUME NEW i \in Invocations, Fail(i) PROVE AlertInv'
    <2>1. failures' = failures + 1 /\ failures' \in Nat /\ UNCHANGED <<cost, sent, month>>
      BY <1>16, <1>1 DEF Fail, costs
    <2>2. CASE i = "daily"
      <3>1. ~Checking'
        BY <1>16, <2>2 DEF Fail, Goes, TypeOK, Checking, At, Idle
      <3> QED
        BY <1>1, <2>1, <3>1, AlertKept
    <2>3. CASE i # "daily"
      <3>1. (Checking <=> Checking') /\ Check' = Check
        BY <1>16, <2>3 DEF Fail, Goes, TypeOK, Checking, Check, At, Invocations
      <3> QED
        BY <1>1, <2>1, <3>1, AlertKept
    <2> QED
      BY <2>2, <2>3
  <1>17. ASSUME UNCHANGED <<call, costs, failures>>, month' \in Nat, month <= month'
         PROVE  AlertInv'
    BY <1>1, <1>17, AlertKept DEF costs, Checking, Check, At
  <1>18. CASE DatabaseSettles
    BY <1>1, <1>17, <1>18 DEF DatabaseSettles, aws
  <1>19. CASE SevenDaysPass
    BY <1>1, <1>17, <1>19 DEF SevenDaysPass, aws
  <1>20. CASE Spend
    BY <1>1, <1>17, <1>20 DEF Spend
  <1>21. CASE NewMonth
    BY <1>1, <1>17, <1>21 DEF NewMonth
  <1>22. CASE UNCHANGED vars
    BY <1>1, <1>17, <1>22 DEF vars, aws
  <1> QED
    BY <1>5, <1>6, <1>7, <1>8, <1>9, <1>10, <1>11, <1>12, <1>13, <1>14, <1>15, <1>16, <1>18,
       <1>19, <1>20, <1>21, <1>22 DEF Next, Step, Invocations

LEMMA AlertsHold == Spec => []AlertInv
  BY TypeCorrect, AlertInit, AlertStep, PTL DEF Spec

(* For any thresholds, months and failures: what is recorded as alerted    *)
(* was sent, every threshold below it included, so no alert is lost to a   *)
(* check that failed or ran across the turn of a month.                    *)
THEOREM NoAlertIsLost == Spec => []RecordedAlertsWereSent
  BY AlertsHold, PTL DEF AlertInv

(* For any thresholds, months and failures: an alert is sent at most once  *)
(* more than calls have failed.                                            *)
THEOREM AlertsRepeatRarely == Spec => []AlertsRepeatOnlyAfterFailures
  BY AlertsHold, PTL DEF AlertInv
===============================================================================
