-------------------------------- MODULE RunLog --------------------------------
(***************************************************************************)
(* The log of a run that ended well, as what the analyzer counts in it.    *)
(* What a configuration decides is decided here; the rest, the deadline    *)
(* misses a loaded machine adds and which lossy sends were lost, is open.  *)
(* Many is the number of misses that makes a run UNSTABLE; it also stands  *)
(* for the counts of what every run logs over and over.                    *)
(***************************************************************************)
EXTENDS Scenarios

CONSTANT Count   \* the numbers of misses, losses and timeouts that are told apart

ASSUME CountAssumption == Count \subseteq Nat

Many == 3
Frequent == {n \in Count : n >= Many}
Positive == Count \ {0}

\* The event types in the order a sorted report lists them.
EventTypes ==
  <<"fault_injected", "message_dropped", "message_received", "message_sent",
    "runtime_finished", "runtime_started", "runtime_summary", "scheduler_finished",
    "scheduler_started", "task_completed", "task_failed", "task_recovered",
    "task_skipped", "task_started", "watchdog_timeout">>

\* Every execution of the target overruns its deadline.
OverBudget(c) ==
  LET f == c.faults
  IN  f.type \in {"slow_task", "cpu_spike"} /\
      c.tasks[f.target_task].execution_time_ms + f.extra_execution_time_ms
        > c.tasks[f.target_task].deadline_ms

\* More messages reach the LoggerTask before any fault than it takes out, one
\* per execution, and than its queue holds.
QueueFills(c) ==
  LET Runs(t) == c.faults.start_after_ms \div c.tasks[t].period_ms
  IN  Runs("ControlTask") + Runs("NetworkTask")
        > Runs("LoggerTask") + c.tasks["LoggerTask"].queue_limit

Crashes(c) == c.faults.type = "task_crash"

\* The logs a run of scenario s may leave.  Misses counted and misses marked on
\* task_completed need not agree; an overrun is both.  A lossy scenario loses at
\* least one of its hundreds of sends, and a watched overrun times out at least
\* once, which the target's timeouts stand for.
LogsOf(s) ==
  LET c == configs[s]
  IN  { [scenario |-> s, misses |-> misses, marked |-> marked, injected |-> injected,
         timeouts |-> timeouts, queue_full |-> queue_full] :
           misses \in {m \in [Tasks -> Count] :
                         OverBudget(c) => m[c.faults.target_task] \in Frequent},
           marked \in {m \in [Tasks -> {0} \cup Frequent] :
                         OverBudget(c) => m[c.faults.target_task] \in Frequent},
           queue_full \in IF QueueFills(c) THEN Frequent ELSE {0},
           injected \in IF c.faults.type = "dropped_messages" THEN Positive ELSE {0},
           timeouts \in IF c.watchdog THEN Positive ELSE {0} }

\* How often an event type is in the log; one execution after another logs an
\* active timing fault, one send after another a lossy one, a crash only once.
EventCount(log, event) ==
  LET c == configs[log.scenario]
  IN  CASE event \in {"runtime_started", "scheduler_started", "scheduler_finished",
                      "runtime_finished"} -> 1
        [] event \in {"task_started", "task_completed", "message_sent", "message_received",
                      "runtime_summary"} -> Many
        [] event = "message_dropped" -> log.queue_full + log.injected
        [] event = "fault_injected" -> IF Crashes(c) THEN 1
                                       ELSE IF OverBudget(c) THEN Many ELSE log.injected
        [] event = "task_failed" -> IF Crashes(c) THEN 1 ELSE 0
        [] event = "task_skipped" -> IF Crashes(c) THEN Many ELSE 0
        [] event \in {"watchdog_timeout", "task_recovered"} -> log.timeouts

MarkedTotal(log) == log.marked["ControlTask"] + log.marked["NetworkTask"] + log.marked["LoggerTask"]

\* How often a severity is: every other event is "info".
SeverityCount(log, severity) ==
  LET c == configs[log.scenario]
      N(event) == EventCount(log, event)
      crash == IF Crashes(c) THEN N("fault_injected") ELSE 0
      errors == crash + N("task_failed") + N("watchdog_timeout")
      warnings == MarkedTotal(log) + N("message_dropped") + N("task_skipped")
                    + N("task_recovered") + N("fault_injected") - crash
  IN  CASE severity = "error" -> errors
        [] severity = "warning" -> warnings
        [] severity = "info" -> Many
===============================================================================
