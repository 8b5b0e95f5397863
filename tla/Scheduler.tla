------------------------------- MODULE Scheduler -------------------------------
(***************************************************************************)
(* The MiniRTOS runtime: one thread runs the configured tasks to           *)
(* completion, one at a time, in the order of its scheduling mode, until   *)
(* the duration is over.  Each action is the code between two readings of  *)
(* the clock that matter; Tick is the clock, which goes on while the       *)
(* thread works, sleeps or is preempted by the operating system.           *)
(*                                                                         *)
(* A cycle takes a batch of tasks (every task in round-robin mode, the     *)
(* tasks due at that moment in the other two) and then dispatches the      *)
(* batch in order; tasks that become due meanwhile wait for the next one.  *)
(***************************************************************************)
EXTENDS Integers, Sequences, FiniteSets, Functions, FaultInjector

CONSTANTS
  Tasks,                 \* the configured tasks
  ConfigIndex,           \* position of each task in the configuration
  Mode,                  \* scheduler_mode
  Duration,              \* duration_seconds, in ms
  Period, Deadline, Priority, ExecutionTime, QueueLimit,  \* of each task
  LoggerTask, Producers,
  WatchdogEnabled, RecoveryEnabled, MaxConsecutiveMisses, RecoveryCooldown,
  StartLag,              \* ms from the tasks' start_time to the scheduler's
  MaxStall               \* ms the thread may lose between two steps

ASSUME SchedulerAssumption ==
  /\ IsFiniteSet(Tasks) /\ Tasks # {}
  /\ ConfigIndex \in [Tasks -> Nat]
  /\ \A t, u \in Tasks : t # u => ConfigIndex[t] # ConfigIndex[u]
  /\ Mode \in {"round_robin", "priority", "earliest_deadline_first"}
  /\ Duration \in Nat \ {0}
  /\ Period \in [Tasks -> Nat \ {0}]
  /\ Deadline \in [Tasks -> Nat \ {0}]
  /\ Priority \in [Tasks -> Int]
  /\ ExecutionTime \in [Tasks -> Nat \ {0}]
  /\ QueueLimit \in [Tasks -> Nat \ {0}]
  /\ LoggerTask \notin Producers
  /\ WatchdogEnabled \in BOOLEAN
  /\ RecoveryEnabled \in BOOLEAN
  /\ MaxConsecutiveMisses \in Nat \ {0}
  /\ RecoveryCooldown \in Nat
  /\ StartLag \in Nat
  /\ MaxStall \in Nat

VARIABLES
  pc,                     \* where the thread is
  clock,                  \* ms since scheduler_start_time_
  stall,                  \* ms lost since the thread's last step
  batch,                  \* tasks of this cycle not dispatched yet
  ran_task_this_cycle,
  current,                \* the task being executed
  dispatch_time,          \* the "now" each task was dispatched with last, or None
  total_execution_time,   \* its execution time with the injected extra
  wake_time,              \* end of the thread's sleep
  next_run_time,          \* of each task
  failed_tasks,           \* failed_tasks_
  task_failed,            \* task_failed events per task
  batch_time,             \* history: when the batch was taken
  overtaken               \* history: dispatches of u since t became due

VARIABLES run_count, deadline_miss_count, last_deadline_miss_count,
          consecutive_miss_count, next_recovery_allowed_time, timeouts,
          last_recovery, unanswered
VARIABLES queues, next_message_sequence_id, bus_log, last_received

Dog == INSTANCE Watchdog
Bus == INSTANCE MessageBus

threadVars == <<pc, batch, ran_task_this_cycle, current, dispatch_time,
                total_execution_time, wake_time>>
taskVars == <<next_run_time, failed_tasks, task_failed>>
dogVars == <<run_count, deadline_miss_count, last_deadline_miss_count,
             consecutive_miss_count, next_recovery_allowed_time, timeouts,
             last_recovery, unanswered>>
busVars == <<queues, next_message_sequence_id, bus_log, last_received>>
history == <<batch_time, overtaken>>
vars == <<threadVars, clock, stall, taskVars, history, dogVars, busVars>>

Init ==
  /\ pc = "loop"
  /\ stall = 0
  /\ batch = {}
  /\ ran_task_this_cycle = FALSE
  /\ current = CHOOSE t \in Tasks : TRUE
  /\ dispatch_time = [t \in Tasks |-> Dog!None]
  /\ total_execution_time = 0
  /\ wake_time = 0
  /\ next_run_time = [t \in Tasks |-> -StartLag]
  /\ failed_tasks = {}
  /\ task_failed = [t \in Tasks |-> 0]
  /\ batch_time = 0
  /\ overtaken = [t \in Tasks |-> [u \in Tasks |-> 0]]
  /\ Dog!Init
  /\ Bus!BusInit
-------------------------------------------------------------------------------
ShouldRun(task) == clock >= next_run_time[task]

AbsoluteDeadline(task) == next_run_time[task] + Deadline[task]

HigherPriority(t, u) ==
  \/ Priority[t] < Priority[u]
  \/ Priority[t] = Priority[u] /\ ConfigIndex[t] < ConfigIndex[u]

\* Mutant: larger numbers first in priority mode, release times compared
\* instead of deadlines in EDF mode.
Precedes_WrongKey(t, u) ==
  CASE Mode = "round_robin" -> ConfigIndex[t] < ConfigIndex[u]
    [] Mode = "priority" -> HigherPriority(u, t)
    [] Mode = "earliest_deadline_first" ->
         \/ next_run_time[t] < next_run_time[u]
         \/ next_run_time[t] = next_run_time[u] /\ HigherPriority(t, u)

\* The order of a batch.  The sorts are stable, so ties keep the order of the
\* configuration; the keys of a task change only when it is dispatched.
Precedes(t, u) ==
  CASE Mode = "round_robin" -> ConfigIndex[t] < ConfigIndex[u]
    [] Mode = "priority" -> HigherPriority(t, u)
    [] Mode = "earliest_deadline_first" ->
         \/ AbsoluteDeadline(t) < AbsoluteDeadline(u)
         \/ AbsoluteDeadline(t) = AbsoluteDeadline(u) /\ HigherPriority(t, u)

Goto(label) == pc' = label /\ stall' = 0

\* The head of the while loop: take the batch of this cycle, or sleep 1 ms.
StartCycle ==
  /\ pc = "loop"
  /\ clock < Duration
  /\ batch' = IF Mode = "round_robin" THEN Tasks ELSE {t \in Tasks : ShouldRun(t)}
  /\ batch_time' = clock
  /\ ran_task_this_cycle' = FALSE
  /\ Goto(IF batch' = {} THEN "idle" ELSE "pick")
  /\ wake_time' = IF batch' = {} THEN clock + 1 ELSE wake_time
  /\ UNCHANGED <<current, dispatch_time, total_execution_time, clock, taskVars,
                 overtaken, dogVars, busVars>>

\* The loop is left; the summary is logged and the process ends.
Finish ==
  /\ pc = "loop"
  /\ clock >= Duration
  /\ Goto("done")
  /\ UNCHANGED <<batch, ran_task_this_cycle, current, dispatch_time,
                 total_execution_time, wake_time, clock, taskVars, history,
                 dogVars, busVars>>

\* Mutant: the loop does not advance to the next task.
TakeNext_Stuck(task) ==
  /\ pc = "pick"
  /\ clock < Duration
  /\ task \in batch
  /\ \A other \in batch \ {task} : Precedes(task, other)
  /\ batch' = batch

\* Mutant: the duration is tested by the while loop only.
TakeNext_BeyondDuration(task) ==
  /\ pc = "pick"
  /\ task \in batch
  /\ \A other \in batch \ {task} : Precedes(task, other)
  /\ batch' = batch \ {task}

\* The for loop over the batch, in order, while the duration lasts.
TakeNext(task) ==
  /\ pc = "pick"
  /\ clock < Duration
  /\ task \in batch
  /\ \A other \in batch \ {task} : Precedes(task, other)
  /\ batch' = batch \ {task}

\* The task is due and is executed.
Dispatch(task) ==
  /\ TakeNext(task)
  /\ ShouldRun(task)
  /\ current' = task
  /\ dispatch_time' = [dispatch_time EXCEPT ![task] = clock]
  /\ ran_task_this_cycle' = TRUE
  /\ Goto("execute")
  /\ overtaken' =
       [t \in Tasks |->
          IF t = task THEN [u \in Tasks |-> 0]
          ELSE IF ShouldRun(t) THEN [overtaken[t] EXCEPT ![task] = @ + 1]
          ELSE overtaken[t]]
  /\ UNCHANGED <<total_execution_time, wake_time, clock, batch_time, taskVars,
                 dogVars, busVars>>

\* The task is not due: round-robin passes over it.
PassOver(task) ==
  /\ TakeNext(task)
  /\ ~ShouldRun(task)
  /\ Goto("pick")
  /\ UNCHANGED <<ran_task_this_cycle, current, dispatch_time,
                 total_execution_time, wake_time, clock, taskVars, history,
                 dogVars, busVars>>

\* Mutants: the cycle starts over after each execution; the end of the
\* duration does not break the for loop.
CycleIsOver_StartOver ==
  batch = {} \/ clock >= Duration \/ ran_task_this_cycle
CycleIsOver_NoBreak == batch = {}

CycleIsOver == batch = {} \/ clock >= Duration

\* A round-robin cycle that ran nothing sleeps 1 ms.
EndCycle ==
  /\ pc = "pick"
  /\ CycleIsOver
  /\ batch' = {}
  /\ \/ /\ Mode = "round_robin" /\ ~ran_task_this_cycle
        /\ Goto("idle")
        /\ wake_time' = clock + 1
     \/ /\ ~(Mode = "round_robin" /\ ~ran_task_this_cycle)
        /\ Goto("loop")
        /\ UNCHANGED wake_time
  /\ UNCHANGED <<ran_task_this_cycle, current, dispatch_time,
                 total_execution_time, clock, taskVars, history, dogVars, busVars>>

Wake ==
  /\ pc = "idle"
  /\ clock >= wake_time
  /\ Goto("loop")
  /\ UNCHANGED <<batch, ran_task_this_cycle, current, dispatch_time,
                 total_execution_time, wake_time, clock, taskVars, history,
                 dogVars, busVars>>

\* Mutant: the next release follows the last one, so a late task catches up.
Reschedule_FromRelease(task) ==
  next_run_time' = [next_run_time EXCEPT ![task] = @ + Period[task]]

\* The next release is a period after the dispatch, not after the last release.
Reschedule(task) ==
  next_run_time' = [next_run_time EXCEPT ![task] = dispatch_time[task] + Period[task]]

\* Mutant: the failed state is forgotten.
InFailedState_Never(task) == FALSE

InFailedState(task) == task \in failed_tasks

\* handleTaskCrashIfNeeded: the current task is down, or goes down now.
SkipFailedTask ==
  /\ pc = "execute"
  /\ InFailedState(current)
  /\ Reschedule(current)
  /\ Goto("pick")
  /\ UNCHANGED <<batch, ran_task_this_cycle, current, dispatch_time,
                 total_execution_time, wake_time, clock, failed_tasks,
                 task_failed, history, dogVars, busVars>>

CrashTask ==
  /\ pc = "execute"
  /\ ~InFailedState(current)
  /\ ShouldCrashTask(current, clock)
  /\ failed_tasks' = failed_tasks \union {current}
  /\ task_failed' = [task_failed EXCEPT ![current] = @ + 1]
  /\ Reschedule(current)
  /\ Goto("pick")
  /\ UNCHANGED <<batch, ran_task_this_cycle, current, dispatch_time,
                 total_execution_time, wake_time, clock, history, dogVars, busVars>>

\* executeTask up to the sleep inside Task::run.
BeginExecution ==
  /\ pc = "execute"
  /\ ~InFailedState(current)
  /\ ~ShouldCrashTask(current, clock)
  /\ total_execution_time' = ExecutionTime[current] + ExtraExecutionTimeMs(current, clock)
  /\ wake_time' = clock + total_execution_time'
  /\ Goto("running")
  /\ UNCHANGED <<batch, ran_task_this_cycle, current, dispatch_time, clock,
                 taskVars, history, dogVars, busVars>>

\* Mutant: only the lateness of the dispatch counts.
MissedDeadline_LatenessOnly ==
  dispatch_time[current] - next_run_time[current] > Deadline[current]

\* Task::run counts a miss if the dispatch was later than the deadline allows,
\* or if the execution alone is longer; not if only their sum is.
MissedDeadline ==
  \/ dispatch_time[current] - next_run_time[current] > Deadline[current]
  \/ total_execution_time > Deadline[current]

\* Mutant: the watchdog is given the time from before the execution.
InspectionTime_Stale == dispatch_time[current]

\* after_task_timestamp_ms.
InspectionTime == clock

\* The rest of executeTask: the run is counted, logged and inspected by the
\* watchdog, then the task's message is sent or received.
CompleteExecution ==
  /\ pc = "running"
  /\ clock >= wake_time
  /\ Reschedule(current)
  /\ Dog!Execute(current, MissedDeadline, InspectionTime)
  /\ \E dropped \in ShouldDropMessage(current, LoggerTask, clock) :
       Bus!HandleTaskMessaging(current, dropped)
  /\ Goto("pick")
  /\ UNCHANGED <<batch, ran_task_this_cycle, current, dispatch_time,
                 total_execution_time, wake_time, clock, failed_tasks,
                 task_failed, history>>

Sleeping == pc \in {"running", "idle"} /\ clock < wake_time

\* Time passes freely during a sleep; outside one the thread loses at most
\* MaxStall ms before it takes its next step.
Tick ==
  /\ pc # "done"
  /\ clock' = clock + 1
  /\ \/ Sleeping /\ UNCHANGED stall
     \/ ~Sleeping /\ stall < MaxStall /\ stall' = stall + 1
  /\ UNCHANGED <<threadVars, taskVars, history, dogVars, busVars>>

Step ==
  \/ StartCycle \/ Finish \/ EndCycle \/ Wake
  \/ \E task \in Tasks : Dispatch(task) \/ PassOver(task)
  \/ SkipFailedTask \/ CrashTask \/ BeginExecution \/ CompleteExecution

Next == Step \/ Tick

\* The operating system runs the thread and the clock goes on.
Fairness == WF_vars(Step) /\ WF_vars(Tick)

Spec == Init /\ [][Next]_vars /\ Fairness
-------------------------------------------------------------------------------
ThreadTypeOK ==
  /\ pc \in {"loop", "pick", "execute", "running", "idle", "done"}
  /\ clock \in Nat
  /\ stall \in 0..MaxStall
  /\ batch \subseteq Tasks
  /\ ran_task_this_cycle \in BOOLEAN
  /\ current \in Tasks
  /\ pc \in {"execute", "running"} => current \notin batch
  /\ dispatch_time \in [Tasks -> Nat \union {Dog!None}]
  /\ total_execution_time \in Nat
  /\ wake_time \in Nat
  /\ next_run_time \in [Tasks -> Int]
  /\ failed_tasks \subseteq Tasks
  /\ task_failed \in [Tasks -> Nat]
  /\ batch_time \in Nat
  /\ overtaken \in [Tasks -> [Tasks -> Nat]]

TypeOK == ThreadTypeOK /\ Dog!TypeOK /\ Bus!BusTypeOK

\* No task starves, whatever the mode: while a task waits to be dispatched,
\* each other task is dispatched at most once before it in round-robin mode and
\* at most twice in the others (in the batch that was taken too early to hold
\* the waiting task, and in the next one).
BoundedOvertaking ==
  \A t, u \in Tasks :
    overtaken[t][u] <= IF Mode = "round_robin" THEN 1 ELSE 2

\* What a mode promises to rank by: the smaller priority number, or the earlier
\* absolute deadline and then the smaller priority number.
MoreUrgent(t, u) ==
  \/ Mode = "priority" /\ Priority[t] < Priority[u]
  \/ /\ Mode = "earliest_deadline_first"
     /\ \/ next_run_time[t] + Deadline[t] < next_run_time[u] + Deadline[u]
        \/ /\ next_run_time[t] + Deadline[t] = next_run_time[u] + Deadline[u]
           /\ Priority[t] < Priority[u]

\* When a task is dispatched ahead of a due task that is more urgent, that task
\* became due only after the batch was taken: a cycle never ranks two tasks it
\* knew about in the wrong order.
InversionOnlyByLateArrival ==
  [][pc = "pick" /\ pc' = "execute" =>
       \A u \in Tasks \ {current'} :
         ShouldRun(u) /\ MoreUrgent(u, current') => next_run_time[u] > batch_time]_vars

\* A task that is late does not catch up: two dispatches of one task are never
\* closer than its period, however long the thread was busy in between.
DispatchesAreSpaced ==
  [][\A t \in Tasks :
       (dispatch_time'[t] # dispatch_time[t] /\ dispatch_time[t] # Dog!None)
         => dispatch_time'[t] >= dispatch_time[t] + Period[t]]_vars

\* A crashed task was reported exactly once and stays down: it is rescheduled
\* but never completes another execution, so it sends no message and is never
\* inspected again.
CrashedTasksStayDown ==
  [][\A t \in Tasks :
       /\ t \in failed_tasks =>
            /\ t \in failed_tasks'
            /\ run_count'[t] = run_count[t]
       /\ task_failed'[t] = IF t \in failed_tasks' THEN 1 ELSE 0]_vars

\* The log's totals match the runs: every completed execution of a producer
\* numbered one message, and LoggerTask took at most one per execution.
MessagesMatchRuns ==
  /\ next_message_sequence_id - 1 = SumFunctionOnSet(run_count, Tasks \intersect Producers)
  /\ LoggerTask \in Tasks => bus_log["received"] <= run_count[LoggerTask]

\* What was sent and not dropped is in LoggerTask's queue or was taken at its
\* rate, one message per period: the rest of what faster producers send must be
\* in the log as dropped, whatever the timing of the run.
LoggerDrainsAtItsRate ==
  LET kept == next_message_sequence_id - 1 - bus_log["queue_full"] - bus_log["fault_injected_drop"]
  IN  LoggerTask \in Tasks =>
        (kept - QueueLimit[LoggerTask] - 1) * Period[LoggerTask] <= clock

\* An injected overrun is never passed over: once the fault is active, every
\* execution of a target it pushes over its deadline counts a miss, so that at
\* most the executions that fit before start_after_ms are clean.
OverrunsAreMissed ==
  LET clean == run_count[FaultTarget] - deadline_miss_count[FaultTarget]
  IN  FaultType \in {"slow_task", "cpu_spike"} /\ FaultTarget \in Tasks =>
        (ExecutionTime[FaultTarget] + ExtraExecutionTime > Deadline[FaultTarget]
           => (clean - 1) * Period[FaultTarget] < StartAfter)

\* A task that is to crash completes no execution dispatched after
\* start_after_ms, however the fault's start falls between its dispatches.
CrashEndsExecutions ==
  FaultType = "task_crash" /\ FaultTarget \in Tasks
    => (run_count[FaultTarget] - 1) * Period[FaultTarget] < StartAfter

\* A run overruns its duration by at most one execution, the injected extra
\* included, and what the thread loses in its last four steps: no queue of due
\* tasks is worked off after the end.
RunEndsInTime ==
  \E t \in Tasks :
    clock <= Duration + ExecutionTime[t] + ExtraExecutionTime + 4 * MaxStall

\* The scheduler is the environment the watchdog relies on: every count it is
\* shown is the task's own, one execution at a time, at the time it happens.
FeedsWatchdog == Dog!Spec

\* The tasks of a run see the lossy channel the bus promises.
DeliversInOrder == Bus!ImplementsChannel

\* The run ends: no order of due tasks, faults and stalls keeps the thread from
\* leaving its loop.
Terminates == <>(pc = "done")
===============================================================================
