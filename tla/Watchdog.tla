------------------------------- MODULE Watchdog -------------------------------
(***************************************************************************)
(* The software watchdog.  The scheduler hands it a task right after each  *)
(* completed execution; it compares the task's deadline_miss_count with    *)
(* the one it recorded last, counts the misses in a row, and raises a      *)
(* watchdog_timeout once there are enough of them, at most once per        *)
(* cooldown when recovery is enabled.  The three maps of the code are      *)
(* total functions here: an absent key is the value the code then uses.    *)
(*                                                                         *)
(* Executions and the clock are the watchdog's environment: Execute and    *)
(* Tick say all it may rely on.                                            *)
(***************************************************************************)
EXTENDS Integers

CONSTANTS
  Tasks,
  WatchdogEnabled,
  RecoveryEnabled,
  MaxConsecutiveMisses,   \* max_consecutive_deadline_misses
  RecoveryCooldown        \* recovery_cooldown_ms

ASSUME WatchdogAssumption ==
  /\ WatchdogEnabled \in BOOLEAN
  /\ RecoveryEnabled \in BOOLEAN
  /\ MaxConsecutiveMisses \in Nat \ {0}
  /\ RecoveryCooldown \in Nat

VARIABLES
  \* environment
  clock,                       \* elapsed ms since the scheduler started
  run_count,                   \* executions completed by each task
  deadline_miss_count,         \* how many of them missed the deadline
  \* the watchdog's maps
  last_deadline_miss_count,    \* count seen last, None before any inspection
  consecutive_miss_count,      \* misses in a row, as the watchdog counts them
  next_recovery_allowed_time,  \* end of the cooldown
  \* what it logged, and a history for the properties
  timeouts,                    \* watchdog_timeout events per task
  last_recovery,               \* time of the last task_recovered, or None
  unanswered                   \* misses in a row since the last recovery

environmentVars == <<clock, run_count, deadline_miss_count>>
watchdogMaps ==
  <<last_deadline_miss_count, consecutive_miss_count, next_recovery_allowed_time>>
watchdogVars == <<watchdogMaps, timeouts, last_recovery, unanswered>>
vars == <<environmentVars, watchdogVars>>

None == -1

Init ==
  /\ clock = 0
  /\ run_count = [t \in Tasks |-> 0]
  /\ deadline_miss_count = [t \in Tasks |-> 0]
  /\ last_deadline_miss_count = [t \in Tasks |-> None]
  /\ consecutive_miss_count = [t \in Tasks |-> 0]
  /\ next_recovery_allowed_time = [t \in Tasks |-> 0]
  /\ timeouts = [t \in Tasks |-> 0]
  /\ last_recovery = [t \in Tasks |-> None]
  /\ unanswered = [t \in Tasks |-> 0]

\* The count inspectTask compares with.  A first inspection compares the count
\* with itself, so it never sees a new miss.
PreviousMissCount(task, count) ==
  IF last_deadline_miss_count[task] = None
  THEN count
  ELSE last_deadline_miss_count[task]

\* Mutant: an on-time execution does not end the streak.
ConsecutiveMisses_NoReset(task, count) ==
  consecutive_miss_count[task] +
    (IF count > PreviousMissCount(task, count) THEN 1 ELSE 0)

\* Misses in a row including this inspection.
ConsecutiveMisses(task, count) ==
  IF count > PreviousMissCount(task, count)
  THEN consecutive_miss_count[task] + 1
  ELSE 0

\* Mutants: the threshold is off by one, down or up; the cooldown is not checked.
Alerts_Early(task, count, timestamp) ==
  /\ WatchdogEnabled
  /\ ConsecutiveMisses(task, count) >= MaxConsecutiveMisses - 1
  /\ timestamp >= next_recovery_allowed_time[task]
Alerts_Late(task, count, timestamp) ==
  /\ WatchdogEnabled
  /\ ConsecutiveMisses(task, count) > MaxConsecutiveMisses
  /\ timestamp >= next_recovery_allowed_time[task]
Alerts_NoCooldown(task, count, timestamp) ==
  WatchdogEnabled /\ ConsecutiveMisses(task, count) >= MaxConsecutiveMisses

\* Whether inspectTask returns an alert, and whether the alert recovers.
Alerts(task, count, timestamp) ==
  /\ WatchdogEnabled
  /\ ConsecutiveMisses(task, count) >= MaxConsecutiveMisses
  /\ timestamp >= next_recovery_allowed_time[task]

Recovers(task, count, timestamp) ==
  RecoveryEnabled /\ Alerts(task, count, timestamp)

\* Mutant: a recovery does not start a new streak.
ConsecutiveAfter_Kept(task, count, timestamp) == ConsecutiveMisses(task, count)

\* consecutive_miss_count_ when inspectTask returns.
ConsecutiveAfter(task, count, timestamp) ==
  IF Recovers(task, count, timestamp) THEN 0 ELSE ConsecutiveMisses(task, count)

\* next_recovery_allowed_time_ms_ when inspectTask returns.
AllowedAfter(task, count, timestamp) ==
  IF Recovers(task, count, timestamp)
  THEN timestamp + RecoveryCooldown
  ELSE next_recovery_allowed_time[task]

\* inspectTask: count is the task's deadline_miss_count.
InspectTask(task, count, timestamp) ==
  \/ ~WatchdogEnabled /\ UNCHANGED watchdogMaps
  \/ /\ WatchdogEnabled
     /\ last_deadline_miss_count' = [last_deadline_miss_count EXCEPT ![task] = count]
     /\ consecutive_miss_count' =
          [consecutive_miss_count EXCEPT ![task] = ConsecutiveAfter(task, count, timestamp)]
     /\ next_recovery_allowed_time' =
          [next_recovery_allowed_time EXCEPT ![task] = AllowedAfter(task, count, timestamp)]

\* inspectWatchdogForTask logs the alert, and the recovery if there is one.
LogAlert(task, count, timestamp) ==
  /\ timeouts' =
       [timeouts EXCEPT ![task] = IF Alerts(task, count, timestamp) THEN @ + 1 ELSE @]
  /\ last_recovery' =
       [last_recovery EXCEPT ![task] =
          IF Recovers(task, count, timestamp) THEN timestamp ELSE @]

\* An execution of the task that did or did not miss its deadline, then its
\* inspection.
Execute(task, missed, timestamp) ==
  LET count == deadline_miss_count[task] + (IF missed THEN 1 ELSE 0)
  IN  /\ run_count' = [run_count EXCEPT ![task] = @ + 1]
      /\ deadline_miss_count' = [deadline_miss_count EXCEPT ![task] = count]
      /\ InspectTask(task, count, timestamp)
      /\ LogAlert(task, count, timestamp)
      /\ unanswered' =
           [unanswered EXCEPT ![task] =
              IF missed /\ ~Recovers(task, count, timestamp) THEN @ + 1 ELSE 0]

Tick ==
  /\ clock' = clock + 1
  /\ UNCHANGED <<run_count, deadline_miss_count, watchdogVars>>

Next ==
  \/ Tick
  \/ \E task \in Tasks, missed \in BOOLEAN :
       Execute(task, missed, clock) /\ UNCHANGED clock

Spec == Init /\ [][Next]_vars
-------------------------------------------------------------------------------
TypeOK ==
  /\ clock \in Nat
  /\ run_count \in [Tasks -> Nat]
  /\ deadline_miss_count \in [Tasks -> Nat]
  /\ last_deadline_miss_count \in [Tasks -> Nat \union {None}]
  /\ consecutive_miss_count \in [Tasks -> Nat]
  /\ next_recovery_allowed_time \in [Tasks -> Nat]
  /\ timeouts \in [Tasks -> Nat]
  /\ last_recovery \in [Tasks -> Nat \union {None}]
  /\ unanswered \in [Tasks -> Nat]

\* With recovery enabled every timeout is paid for by MaxConsecutiveMisses
\* deadline misses of its own: no miss counts towards two timeouts.
MissesPayForTimeouts ==
  RecoveryEnabled =>
    \A t \in Tasks :
      timeouts[t] * MaxConsecutiveMisses + consecutive_miss_count[t]
        <= deadline_miss_count[t]

\* The watchdog never counts more misses in a row than the task had since its
\* last recovery, and it overlooks at most one: the miss of the execution whose
\* inspection only recorded the baseline.
CountsTheStreak ==
  WatchdogEnabled =>
    \A t \in Tasks :
      /\ consecutive_miss_count[t] <= unanswered[t]
      /\ unanswered[t] <= consecutive_miss_count[t] + 1
      /\ unanswered[t] > consecutive_miss_count[t] => unanswered[t] = run_count[t]

\* A timeout is raised only at a miss, after at least MaxConsecutiveMisses
\* misses in a row, none of which an earlier recovery has already answered.
TimeoutOnlyAfterConsecutiveMisses ==
  [][\A t \in Tasks :
       timeouts'[t] # timeouts[t] =>
         /\ deadline_miss_count'[t] = deadline_miss_count[t] + 1
         /\ unanswered[t] + 1 >= MaxConsecutiveMisses]_vars

\* Two recoveries of one task are at least a cooldown apart.
RecoveriesAreSpaced ==
  [][\A t \in Tasks :
       (last_recovery'[t] # last_recovery[t] /\ last_recovery[t] # None)
         => last_recovery'[t] >= last_recovery[t] + RecoveryCooldown]_vars

InCooldown(task) ==
  last_recovery[task] # None /\ clock < last_recovery[task] + RecoveryCooldown

\* The watchdog is never silent for long: a miss outside the cooldown that
\* extends the unanswered misses beyond MaxConsecutiveMisses raises a timeout
\* at once.  (Beyond, and not to, because of the baseline inspection.)
LongStreakIsReported ==
  [][\A t \in Tasks :
       (/\ WatchdogEnabled
        /\ deadline_miss_count'[t] > deadline_miss_count[t]
        /\ unanswered[t] >= MaxConsecutiveMisses
        /\ ~InCooldown(t))
       => timeouts'[t] = timeouts[t] + 1]_vars

\* What the watchdog recorded agrees with the task and with the log: the count
\* it compares with is the task's own, and its cooldown ends one
\* RecoveryCooldown after the last recovery logged.
MapsAgree ==
  \A t \in Tasks :
    /\ last_deadline_miss_count[t] =
         IF WatchdogEnabled /\ run_count[t] > 0 THEN deadline_miss_count[t] ELSE None
    /\ next_recovery_allowed_time[t] =
         IF last_recovery[t] = None THEN 0 ELSE last_recovery[t] + RecoveryCooldown
===============================================================================
