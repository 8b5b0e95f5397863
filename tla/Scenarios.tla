------------------------------ MODULE Scenarios ------------------------------
(***************************************************************************)
(* The scenario catalogue of the backend and the configuration file each   *)
(* scenario names.  Times are in milliseconds.                             *)
(***************************************************************************)
EXTENDS Naturals

ScenarioIds ==
  {"normal", "priority_scheduler", "deadline_scheduler", "queue_overflow", "dropped_messages",
   "slow_task", "cpu_spike", "task_crash", "watchdog_slow_task"}

Tasks == {"ControlTask", "NetworkTask", "LoggerTask"}

DurationMs == 30000

\* One line of a configuration's "tasks".
TaskConfig(period, deadline, priority, execution, limit) ==
  [period_ms |-> period, deadline_ms |-> deadline, priority |-> priority,
   execution_time_ms |-> execution, queue_limit |-> limit]

normalTasks ==
  [ControlTask |-> TaskConfig(100, 80, 1, 10, 10),
   NetworkTask |-> TaskConfig(250, 200, 2, 20, 10),
   LoggerTask  |-> TaskConfig(500, 400, 3, 15, 20)]

\* Mutant: the file keeps the baseline's deadline.
deadlineTasks_Baseline == normalTasks

deadlineTasks ==
  [normalTasks EXCEPT !["NetworkTask"].deadline_ms = 150]

overflowTasks ==
  [ControlTask |-> TaskConfig(50, 40, 1, 5, 10),
   NetworkTask |-> TaskConfig(75, 60, 2, 8, 10),
   LoggerTask  |-> TaskConfig(1000, 900, 3, 15, 3)]

\* A configuration's "faults"; only the two timing faults have extra time.
Fault(type, target, extra) ==
  [type |-> type, target_task |-> target, extra_execution_time_ms |-> extra,
   start_after_ms |-> 5000]
NoFault == [type |-> "none", target_task |-> "none", extra_execution_time_ms |-> 0,
            start_after_ms |-> DurationMs]

Config(mode, tasks, faults, watchdog) ==
  [scheduler_mode |-> mode, tasks |-> tasks, faults |-> faults, watchdog |-> watchdog]

SlowControlTask == Fault("slow_task", "ControlTask", 120)

configs ==
  [normal             |-> Config("round_robin", normalTasks, NoFault, FALSE),
   priority_scheduler |-> Config("priority", normalTasks, NoFault, FALSE),
   deadline_scheduler |-> Config("earliest_deadline_first", deadlineTasks, NoFault, FALSE),
   queue_overflow     |-> Config("round_robin", overflowTasks, NoFault, FALSE),
   dropped_messages   |-> Config("round_robin", normalTasks,
                                 Fault("dropped_messages", "LoggerTask", 0), FALSE),
   slow_task          |-> Config("round_robin", normalTasks, SlowControlTask, FALSE),
   cpu_spike          |-> Config("round_robin", normalTasks,
                                 Fault("cpu_spike", "NetworkTask", 220), FALSE),
   task_crash         |-> Config("round_robin", normalTasks,
                                 Fault("task_crash", "NetworkTask", 0), FALSE),
   watchdog_slow_task |-> Config("round_robin", normalTasks, SlowControlTask, TRUE)]

\* What the catalogue tells a student to look for.
expectedSignals ==
  [normal             |-> {"runtime_started", "scheduler_started", "task_started",
                           "task_completed", "runtime_summary"},
   priority_scheduler |-> {"scheduler_started", "task_started", "task_completed", "runtime_summary"},
   deadline_scheduler |-> {"scheduler_started", "task_started", "task_completed", "runtime_summary"},
   queue_overflow     |-> {"message_sent", "message_received", "message_dropped", "runtime_summary"},
   cpu_spike          |-> {"fault_injected", "task_completed", "deadlineMisses", "runtime_summary"},
   task_crash         |-> {"fault_injected", "task_failed", "task_skipped", "runtime_summary"},
   slow_task          |-> {"fault_injected", "task_completed", "deadlineMisses", "runtime_summary"},
   dropped_messages   |-> {"fault_injected", "message_dropped", "runtime_summary"},
   watchdog_slow_task |-> {"fault_injected", "watchdog_timeout", "task_recovered", "runtime_summary"}]
===============================================================================
