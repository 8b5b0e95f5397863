---------------------------- MODULE WatchdogProofs ----------------------------
(***************************************************************************)
(* Proofs that the watchdog keeps its promises for every set of tasks,     *)
(* threshold and cooldown, and every order and timing of executions.       *)
(***************************************************************************)
EXTENDS Watchdog, TLAPS

\* A streak cannot be longer than the task has run.
StreakWithinRuns == \A t \in Tasks : unanswered[t] <= run_count[t]

\* The inductive invariant: CountsTheStreak needs MapsAgree (an inspection sees
\* a miss exactly when the count it recorded is the task's) and, at a task's
\* first execution, StreakWithinRuns.
IInv ==
  /\ TypeOK
  /\ MapsAgree
  /\ StreakWithinRuns
  /\ CountsTheStreak
  /\ MissesPayForTimeouts

LEMMA MultiplyNext ==
  ASSUME NEW n \in Nat, NEW k \in Nat
  PROVE  (n + 1) * k = n * k + k
  OBVIOUS

\* What an execution does to the task it is of.
LEMMA ExecuteOwn ==
  ASSUME TypeOK, NEW task \in Tasks, NEW missed \in BOOLEAN,
         Execute(task, missed, clock)
  PROVE  LET count == deadline_miss_count[task] + (IF missed THEN 1 ELSE 0)
         IN  /\ run_count'[task] = run_count[task] + 1
             /\ deadline_miss_count'[task] = count
             /\ last_deadline_miss_count'[task] =
                  IF WatchdogEnabled THEN count ELSE last_deadline_miss_count[task]
             /\ consecutive_miss_count'[task] =
                  IF WatchdogEnabled THEN ConsecutiveAfter(task, count, clock)
                  ELSE consecutive_miss_count[task]
             /\ next_recovery_allowed_time'[task] =
                  IF WatchdogEnabled THEN AllowedAfter(task, count, clock)
                  ELSE next_recovery_allowed_time[task]
             /\ timeouts'[task] =
                  IF Alerts(task, count, clock) THEN timeouts[task] + 1 ELSE timeouts[task]
             /\ last_recovery'[task] =
                  IF Recovers(task, count, clock) THEN clock ELSE last_recovery[task]
             /\ unanswered'[task] =
                  IF missed /\ ~Recovers(task, count, clock) THEN unanswered[task] + 1 ELSE 0
  BY DEF TypeOK, Execute, InspectTask, LogAlert, watchdogMaps

\* An execution leaves every other task alone.
LEMMA ExecuteOther ==
  ASSUME TypeOK, NEW task \in Tasks, NEW missed \in BOOLEAN,
         Execute(task, missed, clock), NEW t \in Tasks, t # task
  PROVE  /\ run_count'[t] = run_count[t]
         /\ deadline_miss_count'[t] = deadline_miss_count[t]
         /\ last_deadline_miss_count'[t] = last_deadline_miss_count[t]
         /\ consecutive_miss_count'[t] = consecutive_miss_count[t]
         /\ next_recovery_allowed_time'[t] = next_recovery_allowed_time[t]
         /\ timeouts'[t] = timeouts[t]
         /\ last_recovery'[t] = last_recovery[t]
         /\ unanswered'[t] = unanswered[t]
  BY DEF TypeOK, Execute, InspectTask, LogAlert, watchdogMaps

\* An inspection after a miss sees it, except the first.
LEMMA MissIsSeen ==
  ASSUME TypeOK, MapsAgree, WatchdogEnabled, NEW task \in Tasks, NEW missed \in BOOLEAN
  PROVE  LET count == deadline_miss_count[task] + (IF missed THEN 1 ELSE 0)
         IN  ConsecutiveMisses(task, count) =
               IF missed /\ run_count[task] > 0
               THEN consecutive_miss_count[task] + 1
               ELSE 0
  BY DEF TypeOK, MapsAgree, ConsecutiveMisses, PreviousMissCount, None

LEMMA TypeStep == ASSUME TypeOK, [Next]_vars PROVE TypeOK'
<1> USE WatchdogAssumption
<1>1. CASE Tick
  BY <1>1 DEF TypeOK, Tick, watchdogVars, watchdogMaps
<1>2. ASSUME NEW task \in Tasks, NEW missed \in BOOLEAN,
             Execute(task, missed, clock), UNCHANGED clock
      PROVE  TypeOK'
  <2> DEFINE count == deadline_miss_count[task] + (IF missed THEN 1 ELSE 0)
  <2>1. count \in Nat
    BY DEF TypeOK
  <2>2. ConsecutiveMisses(task, count) \in Nat
    BY DEF TypeOK, ConsecutiveMisses
  <2>3. ConsecutiveAfter(task, count, clock) \in Nat
    BY <2>2 DEF ConsecutiveAfter
  <2>4. AllowedAfter(task, count, clock) \in Nat
    BY DEF TypeOK, AllowedAfter
  <2>5. QED
    BY <1>2, <2>1, <2>3, <2>4 DEF TypeOK, Execute, InspectTask, LogAlert, watchdogMaps
<1>3. CASE UNCHANGED vars
  BY <1>3 DEF TypeOK, vars, environmentVars, watchdogVars, watchdogMaps
<1>4. QED
  BY <1>1, <1>2, <1>3 DEF Next

\* Every variable of the watchdog keeps its type.
THEOREM TypeCorrect == Spec => []TypeOK
<1>1. Init => TypeOK
  BY DEF Init, TypeOK, None
<1>2. TypeOK /\ [Next]_vars => TypeOK'
  BY TypeStep
<1>3. QED
  BY <1>1, <1>2, PTL DEF Spec

\* The parts of IInv after an execution, for the task it is of.
LEMMA OwnMaps ==
  ASSUME IInv, NEW task \in Tasks, NEW missed \in BOOLEAN,
         Execute(task, missed, clock)
  PROVE  /\ last_deadline_miss_count'[task] =
              IF WatchdogEnabled /\ run_count'[task] > 0
              THEN deadline_miss_count'[task] ELSE None
         /\ next_recovery_allowed_time'[task] =
              IF last_recovery'[task] = None THEN 0
              ELSE last_recovery'[task] + RecoveryCooldown
<1> USE WatchdogAssumption
<1> DEFINE count == deadline_miss_count[task] + (IF missed THEN 1 ELSE 0)
<1>1. run_count'[task] > 0
  BY ExecuteOwn DEF IInv, TypeOK
<1>2. last_deadline_miss_count'[task] =
        IF WatchdogEnabled THEN deadline_miss_count'[task] ELSE None
  BY ExecuteOwn DEF IInv, MapsAgree
<1>3. CASE Recovers(task, count, clock)
  <2>1. WatchdogEnabled
    BY <1>3 DEF Recovers, Alerts
  <2>2. last_recovery'[task] = clock /\ clock # None
    BY <1>3, ExecuteOwn DEF IInv, TypeOK, None
  <2>3. next_recovery_allowed_time'[task] = clock + RecoveryCooldown
    BY <1>3, <2>1, ExecuteOwn DEF IInv, AllowedAfter
  <2>4. QED
    BY <1>1, <1>2, <2>2, <2>3
<1>4. CASE ~Recovers(task, count, clock)
  <2>1. last_recovery'[task] = last_recovery[task]
    BY <1>4, ExecuteOwn DEF IInv
  <2>2. next_recovery_allowed_time'[task] = next_recovery_allowed_time[task]
    BY <1>4, ExecuteOwn DEF IInv, AllowedAfter
  <2>3. QED
    BY <1>1, <1>2, <2>1, <2>2 DEF IInv, MapsAgree
<1>5. QED
  BY <1>3, <1>4

LEMMA OwnStreak ==
  ASSUME IInv, NEW task \in Tasks, NEW missed \in BOOLEAN,
         Execute(task, missed, clock)
  PROVE  /\ unanswered'[task] <= run_count'[task]
         /\ WatchdogEnabled =>
              /\ consecutive_miss_count'[task] <= unanswered'[task]
              /\ unanswered'[task] <= consecutive_miss_count'[task] + 1
              /\ unanswered'[task] > consecutive_miss_count'[task]
                   => unanswered'[task] = run_count'[task]
<1> USE WatchdogAssumption
<1> DEFINE count == deadline_miss_count[task] + (IF missed THEN 1 ELSE 0)
<1>1. unanswered'[task] <= run_count'[task]
  BY ExecuteOwn DEF IInv, TypeOK, StreakWithinRuns
<1>2. ASSUME WatchdogEnabled
      PROVE  /\ consecutive_miss_count'[task] <= unanswered'[task]
             /\ unanswered'[task] <= consecutive_miss_count'[task] + 1
             /\ unanswered'[task] > consecutive_miss_count'[task]
                  => unanswered'[task] = run_count'[task]
  <2>1. consecutive_miss_count'[task] =
          IF Recovers(task, count, clock) THEN 0
          ELSE IF missed /\ run_count[task] > 0 THEN consecutive_miss_count[task] + 1
          ELSE 0
    BY <1>2, ExecuteOwn, MissIsSeen DEF IInv, ConsecutiveAfter
  <2>2. unanswered'[task] =
          IF missed /\ ~Recovers(task, count, clock) THEN unanswered[task] + 1 ELSE 0
    BY ExecuteOwn DEF IInv
  <2>3. run_count'[task] = run_count[task] + 1
    BY ExecuteOwn DEF IInv
  <2>4. /\ unanswered[task] <= run_count[task]
        /\ consecutive_miss_count[task] <= unanswered[task]
        /\ unanswered[task] <= consecutive_miss_count[task] + 1
        /\ unanswered[task] > consecutive_miss_count[task]
             => unanswered[task] = run_count[task]
    BY <1>2 DEF IInv, StreakWithinRuns, CountsTheStreak
  <2>5. /\ unanswered[task] \in Nat
        /\ consecutive_miss_count[task] \in Nat
        /\ run_count[task] \in Nat
    BY DEF IInv, TypeOK
  <2>6. QED
    BY <2>1, <2>2, <2>3, <2>4, <2>5
<1>3. QED
  BY <1>1, <1>2

LEMMA OwnPayment ==
  ASSUME IInv, NEW task \in Tasks, NEW missed \in BOOLEAN,
         Execute(task, missed, clock), RecoveryEnabled
  PROVE  timeouts'[task] * MaxConsecutiveMisses + consecutive_miss_count'[task]
           <= deadline_miss_count'[task]
<1> USE WatchdogAssumption
<1> DEFINE count == deadline_miss_count[task] + (IF missed THEN 1 ELSE 0)
           paid  == timeouts[task] * MaxConsecutiveMisses
<1>1. /\ timeouts[task] \in Nat
      /\ consecutive_miss_count[task] \in Nat
      /\ deadline_miss_count[task] \in Nat
      /\ paid \in Nat
  BY DEF IInv, TypeOK
<1>2. paid + consecutive_miss_count[task] <= deadline_miss_count[task]
  BY DEF IInv, MissesPayForTimeouts
<1>3. deadline_miss_count'[task] = count
  BY ExecuteOwn DEF IInv
<1>4. CASE Recovers(task, count, clock)
  <2>1. /\ WatchdogEnabled
        /\ ConsecutiveMisses(task, count) >= MaxConsecutiveMisses
        /\ Alerts(task, count, clock)
    BY <1>4 DEF Recovers, Alerts
  <2>2. missed /\ consecutive_miss_count[task] + 1 >= MaxConsecutiveMisses
    BY <2>1, MissIsSeen DEF IInv
  <2>3. timeouts'[task] = timeouts[task] + 1 /\ consecutive_miss_count'[task] = 0
    BY <1>4, <2>1, ExecuteOwn DEF IInv, ConsecutiveAfter
  <2>4. timeouts'[task] * MaxConsecutiveMisses = paid + MaxConsecutiveMisses
    BY <1>1, <2>3, MultiplyNext
  <2> HIDE DEF paid
  <2>5. QED
    BY <1>1, <1>2, <1>3, <2>2, <2>3, <2>4
<1>5. CASE ~Recovers(task, count, clock)
  <2>1. timeouts'[task] = timeouts[task]
    BY <1>5, ExecuteOwn DEF IInv, Recovers
  <2>2. consecutive_miss_count'[task] <=
          consecutive_miss_count[task] + (IF missed THEN 1 ELSE 0)
    BY <1>1, <1>5, ExecuteOwn, MissIsSeen DEF IInv, ConsecutiveAfter
  <2>3. consecutive_miss_count'[task] \in Nat
    BY <1>1, <1>5, ExecuteOwn, MissIsSeen DEF IInv, ConsecutiveAfter
  <2> HIDE DEF paid
  <2>4. timeouts'[task] * MaxConsecutiveMisses = paid
    BY <2>1 DEF paid
  <2>5. QED
    BY <1>1, <1>2, <1>3, <2>2, <2>3, <2>4
<1>6. QED
  BY <1>4, <1>5

LEMMA InductiveStep == ASSUME IInv, [Next]_vars PROVE IInv'
<1>1. TypeOK'
  BY TypeStep DEF IInv
<1>2. CASE Tick
  BY <1>1, <1>2 DEF IInv, Tick, watchdogVars, watchdogMaps, MapsAgree,
     StreakWithinRuns, CountsTheStreak, MissesPayForTimeouts
<1>3. ASSUME NEW task \in Tasks, NEW missed \in BOOLEAN,
             Execute(task, missed, clock), UNCHANGED clock
      PROVE  IInv'
  <2> USE <1>3
  <2>1. MapsAgree'
    <3> SUFFICES ASSUME NEW t \in Tasks
                 PROVE  /\ last_deadline_miss_count'[t] =
                             IF WatchdogEnabled /\ run_count'[t] > 0
                             THEN deadline_miss_count'[t] ELSE None
                        /\ next_recovery_allowed_time'[t] =
                             IF last_recovery'[t] = None THEN 0
                             ELSE last_recovery'[t] + RecoveryCooldown
      BY DEF MapsAgree, None
    <3>1. CASE t = task
      BY <3>1, OwnMaps
    <3>2. CASE t # task
      BY <3>2, ExecuteOther DEF IInv, MapsAgree
    <3>3. QED
      BY <3>1, <3>2
  <2>2. StreakWithinRuns' /\ CountsTheStreak'
    <3> SUFFICES ASSUME NEW t \in Tasks
                 PROVE  /\ unanswered'[t] <= run_count'[t]
                        /\ WatchdogEnabled =>
                             /\ consecutive_miss_count'[t] <= unanswered'[t]
                             /\ unanswered'[t] <= consecutive_miss_count'[t] + 1
                             /\ unanswered'[t] > consecutive_miss_count'[t]
                                  => unanswered'[t] = run_count'[t]
      BY DEF StreakWithinRuns, CountsTheStreak
    <3>1. CASE t = task
      BY <3>1, OwnStreak
    <3>2. CASE t # task
      BY <3>2, ExecuteOther DEF IInv, StreakWithinRuns, CountsTheStreak
    <3>3. QED
      BY <3>1, <3>2
  <2>3. MissesPayForTimeouts'
    <3> SUFFICES ASSUME RecoveryEnabled, NEW t \in Tasks
                 PROVE  timeouts'[t] * MaxConsecutiveMisses + consecutive_miss_count'[t]
                          <= deadline_miss_count'[t]
      BY DEF MissesPayForTimeouts
    <3>1. CASE t = task
      BY <3>1, OwnPayment
    <3>2. CASE t # task
      BY <3>2, ExecuteOther DEF IInv, MissesPayForTimeouts
    <3>3. QED
      BY <3>1, <3>2
  <2>4. QED
    BY <1>1, <2>1, <2>2, <2>3 DEF IInv
<1>4. CASE UNCHANGED vars
  BY <1>1, <1>4 DEF IInv, vars, environmentVars, watchdogVars, watchdogMaps, MapsAgree,
     StreakWithinRuns, CountsTheStreak, MissesPayForTimeouts
<1>5. QED
  BY <1>2, <1>3, <1>4 DEF Next

LEMMA Inductive == Spec => []IInv
<1>1. Init => IInv
  BY WatchdogAssumption
  DEF Init, IInv, TypeOK, MapsAgree, StreakWithinRuns, CountsTheStreak,
      MissesPayForTimeouts, None
<1>2. IInv /\ [Next]_vars => IInv'
  BY InductiveStep
<1>3. QED
  BY <1>1, <1>2, PTL DEF Spec

\* The watchdog's counts are the real streaks, its records agree with the log,
\* and every timeout is paid for by misses of its own.
THEOREM InvariantsHold ==
  Spec => []MissesPayForTimeouts /\ []CountsTheStreak /\ []MapsAgree
<1>1. IInv => MissesPayForTimeouts /\ CountsTheStreak /\ MapsAgree
  BY DEF IInv
<1>2. QED
  BY <1>1, Inductive, PTL

\* An inspection counts the task's own misses in a row, however executions of
\* the tasks interleave.
THEOREM StreaksAreCounted == Spec => []CountsTheStreak
  BY InvariantsHold, PTL

\* A timeout only ever follows enough misses in a row.
THEOREM TimeoutsAreEarned == Spec => TimeoutOnlyAfterConsecutiveMisses
<1>1. ASSUME IInv, [Next]_vars, NEW t \in Tasks, timeouts'[t] # timeouts[t]
      PROVE  /\ deadline_miss_count'[t] = deadline_miss_count[t] + 1
             /\ unanswered[t] + 1 >= MaxConsecutiveMisses
  <2> USE WatchdogAssumption
  <2>1. ~Tick /\ ~UNCHANGED vars
    BY <1>1 DEF Tick, vars, watchdogVars
  <2>2. PICK task \in Tasks, missed \in BOOLEAN : Execute(task, missed, clock)
    BY <1>1, <2>1 DEF Next
  <2>3. t = task
    BY <1>1, <2>2, ExecuteOther DEF IInv
  <2> DEFINE count == deadline_miss_count[task] + (IF missed THEN 1 ELSE 0)
  <2>4. Alerts(task, count, clock)
    BY <1>1, <2>2, <2>3, ExecuteOwn DEF IInv
  <2>5. WatchdogEnabled /\ ConsecutiveMisses(task, count) >= MaxConsecutiveMisses
    BY <2>4 DEF Alerts
  <2>6. missed /\ consecutive_miss_count[task] + 1 >= MaxConsecutiveMisses
    BY <1>1, <2>5, MissIsSeen DEF IInv
  <2>7. consecutive_miss_count[task] <= unanswered[task]
    BY <1>1, <2>5 DEF IInv, CountsTheStreak
  <2>8. /\ consecutive_miss_count[task] \in Nat
        /\ unanswered[task] \in Nat
    BY <1>1 DEF IInv, TypeOK
  <2>9. deadline_miss_count'[task] = deadline_miss_count[task] + 1
    BY <1>1, <2>2, <2>6, ExecuteOwn DEF IInv
  <2>10. QED
    BY <2>3, <2>6, <2>7, <2>8, <2>9
<1>2. IInv /\ [Next]_vars =>
        [\A t \in Tasks :
           timeouts'[t] # timeouts[t] =>
             /\ deadline_miss_count'[t] = deadline_miss_count[t] + 1
             /\ unanswered[t] + 1 >= MaxConsecutiveMisses]_vars
  BY <1>1
<1>3. QED
  BY <1>2, Inductive, PTL DEF Spec, TimeoutOnlyAfterConsecutiveMisses

\* Recoveries of a task are a cooldown apart.
THEOREM RecoveriesKeepCooldown == Spec => RecoveriesAreSpaced
<1>1. ASSUME IInv, [Next]_vars, NEW t \in Tasks,
             last_recovery'[t] # last_recovery[t], last_recovery[t] # None
      PROVE  last_recovery'[t] >= last_recovery[t] + RecoveryCooldown
  <2>1. ~Tick /\ ~UNCHANGED vars
    BY <1>1 DEF Tick, vars, watchdogVars
  <2>2. PICK task \in Tasks, missed \in BOOLEAN : Execute(task, missed, clock)
    BY <1>1, <2>1 DEF Next
  <2>3. t = task
    BY <1>1, <2>2, ExecuteOther DEF IInv
  <2> DEFINE count == deadline_miss_count[task] + (IF missed THEN 1 ELSE 0)
  <2>4. Recovers(task, count, clock) /\ last_recovery'[task] = clock
    BY <1>1, <2>2, <2>3, ExecuteOwn DEF IInv
  <2>5. clock >= next_recovery_allowed_time[task]
    BY <2>4 DEF Recovers, Alerts
  <2>6. next_recovery_allowed_time[task] = last_recovery[task] + RecoveryCooldown
    BY <1>1, <2>3 DEF IInv, MapsAgree
  <2>7. QED
    BY <2>3, <2>4, <2>5, <2>6
<1>2. IInv /\ [Next]_vars =>
        [\A t \in Tasks :
           (last_recovery'[t] # last_recovery[t] /\ last_recovery[t] # None)
             => last_recovery'[t] >= last_recovery[t] + RecoveryCooldown]_vars
  BY <1>1
<1>3. QED
  BY <1>2, Inductive, PTL DEF Spec, RecoveriesAreSpaced

\* A streak beyond the threshold is reported as soon as the cooldown allows.
THEOREM StreaksAreReported == Spec => LongStreakIsReported
<1>1. ASSUME IInv, [Next]_vars, NEW t \in Tasks, WatchdogEnabled,
             deadline_miss_count'[t] > deadline_miss_count[t],
             unanswered[t] >= MaxConsecutiveMisses, ~InCooldown(t)
      PROVE  timeouts'[t] = timeouts[t] + 1
  <2> USE WatchdogAssumption
  <2>0. deadline_miss_count[t] \in Nat
    BY <1>1 DEF IInv, TypeOK
  <2>1. deadline_miss_count'[t] # deadline_miss_count[t]
    BY <1>1, <2>0
  <2>2. ~Tick /\ ~UNCHANGED vars
    BY <2>1 DEF Tick, vars, environmentVars
  <2>3. PICK task \in Tasks, missed \in BOOLEAN : Execute(task, missed, clock)
    BY <1>1, <2>2 DEF Next
  <2>4. t = task
    BY <1>1, <2>1, <2>3, ExecuteOther DEF IInv
  <2> DEFINE count == deadline_miss_count[task] + (IF missed THEN 1 ELSE 0)
  <2>5. deadline_miss_count'[task] = count
    BY <1>1, <2>3, ExecuteOwn DEF IInv
  <2>6. missed
    BY <2>0, <2>1, <2>4, <2>5
  <2>7. /\ unanswered[task] <= run_count[task]
        /\ unanswered[task] <= consecutive_miss_count[task] + 1
    BY <1>1 DEF IInv, StreakWithinRuns, CountsTheStreak
  <2>8. /\ unanswered[task] \in Nat
        /\ run_count[task] \in Nat
        /\ consecutive_miss_count[task] \in Nat
    BY <1>1 DEF IInv, TypeOK
  <2>9. ConsecutiveMisses(task, count) >= MaxConsecutiveMisses
    <3>1. run_count[task] > 0
      BY <1>1, <2>4, <2>7, <2>8
    <3>2. ConsecutiveMisses(task, count) = consecutive_miss_count[task] + 1
      BY <1>1, <2>6, <3>1, MissIsSeen DEF IInv
    <3>3. QED
      BY <1>1, <2>4, <2>7, <2>8, <3>2
  <2>10. clock >= next_recovery_allowed_time[task]
    BY <1>1, <2>4 DEF IInv, TypeOK, MapsAgree, InCooldown
  <2>11. Alerts(task, count, clock)
    BY <1>1, <2>9, <2>10 DEF Alerts
  <2>12. QED
    BY <1>1, <2>3, <2>4, <2>11, ExecuteOwn DEF IInv
<1>2. IInv /\ [Next]_vars =>
        [\A t \in Tasks :
           (/\ WatchdogEnabled
            /\ deadline_miss_count'[t] > deadline_miss_count[t]
            /\ unanswered[t] >= MaxConsecutiveMisses
            /\ ~InCooldown(t))
           => timeouts'[t] = timeouts[t] + 1]_vars
  BY <1>1
<1>3. QED
  BY <1>2, Inductive, PTL DEF Spec, LongStreakIsReported
===============================================================================
