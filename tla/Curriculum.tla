------------------------------ MODULE Curriculum ------------------------------
(***************************************************************************)
(* The frontend's written curriculum: for each scenario its place in the   *)
(* suggested order, what to study before it, the telemetry events and      *)
(* analysis fields its modules point at, the configuration values its      *)
(* worked examples quote and the verdict it lets a student predict.        *)
(***************************************************************************)
EXTENDS Scenarios

\* A value a text quotes: of a task, or of the fault.
Quote(task, field, value) == [of |-> task, field |-> field, value |-> value]
Timing(task, period, deadline, execution) ==
  {Quote(task, "period_ms", period), Quote(task, "deadline_ms", deadline),
   Quote(task, "execution_time_ms", execution)}
Target(task) == Quote(task, "targeted", 1)
FaultStart == Quote("fault", "start_after_ms", 5000)

Chapter(step, prerequisites, predicts, events, fields, quotes) ==
  [step |-> step, prerequisites |-> prerequisites, predicts |-> predicts,
   events |-> events, fields |-> fields, quotes |-> quotes]

defaultLearningContent ==
  Chapter(0, {}, "none", {},
          {"runtimeHealth", "eventCounts", "taskMetrics", "messageSummary", "rootCauses"}, {})

normalContent ==
  Chapter(1, {}, "NORMAL",
    {"task_started", "task_completed"},
    {"runtimeHealth", "taskMetrics", "eventCounts", "schedulerMode", "configuredDurationSeconds",
     "observedDurationMs", "eventsLoaded", "simulationName", "avgDurationMs", "maxDurationMs",
     "deadlineMisses", "severityCounts", "rootCauses", "runs"},
    Timing("ControlTask", 100, 80, 10) \cup Timing("NetworkTask", 250, 200, 20)
      \cup Timing("LoggerTask", 500, 400, 15))

prioritySchedulerContent ==
  Chapter(2, {"normal"}, "NORMAL",
    {"task_started", "task_completed", "runtime_summary"},
    {"schedulerMode", "runtimeHealth", "deadlineMisses", "runs"},
    {Quote("ControlTask", "priority", 1), Quote("NetworkTask", "priority", 2),
     Quote("LoggerTask", "priority", 3), Quote("ControlTask", "period_ms", 100),
     Quote("NetworkTask", "period_ms", 250), Quote("LoggerTask", "period_ms", 500)})

deadlineSchedulerContent ==
  Chapter(3, {"normal", "priority_scheduler"}, "NORMAL",
    {"task_started", "task_completed"},
    {"schedulerMode", "deadlineMisses", "deadlineMissedEvents", "observedDurationMs",
     "runtimeHealth"},
    {Quote("ControlTask", "deadline_ms", 80), Quote("NetworkTask", "deadline_ms", 150),
     Quote("LoggerTask", "deadline_ms", 400)})

queueOverflowContent ==
  Chapter(4, {"normal"}, "WARNING",
    {"message_sent", "message_received", "message_dropped"},
    {"messageSummary", "queueFullDrops", "faultInjectedDrops", "rootCauses", "runtimeHealth"},
    {Quote("ControlTask", "period_ms", 50), Quote("NetworkTask", "period_ms", 75),
     Quote("LoggerTask", "period_ms", 1000), Quote("LoggerTask", "queue_limit", 3)})

droppedMessagesContent ==
  Chapter(5, {"queue_overflow"}, "WARNING",
    {"message_sent", "message_received", "message_dropped", "fault_injected"},
    {"messageSummary", "queueFullDrops", "faultInjectedDrops", "rootCauses", "runtimeHealth"},
    {Target("LoggerTask"), FaultStart})

slowTaskContent ==
  Chapter(6, {"normal"}, "UNSTABLE",
    {"task_completed", "runtime_summary"},
    {"deadlineMisses", "deadlineMissedEvents", "avgDurationMs", "maxDurationMs",
     "observedDurationMs", "runtimeHealth"},
    Timing("ControlTask", 100, 80, 10) \cup
    {Target("ControlTask"), FaultStart,
     Quote("fault", "extra_execution_time_ms", 120)})

cpuSpikeContent ==
  Chapter(7, {"slow_task"}, "UNSTABLE",
    {"task_completed", "fault_injected"},
    {"deadlineMisses", "deadlineMissedEvents", "avgDurationMs", "maxDurationMs",
     "runtimeHealth"},
    Timing("NetworkTask", 250, 200, 20) \cup
    {Target("NetworkTask"), FaultStart,
     Quote("fault", "extra_execution_time_ms", 220)})

taskCrashContent ==
  Chapter(8, {"normal", "slow_task"}, "UNSTABLE",
    {"task_failed", "task_skipped", "runtime_summary"},
    {"runtimeHealth", "taskMetrics", "runs"},
    {Quote("NetworkTask", "period_ms", 250), Target("NetworkTask"),
     FaultStart})

watchdogSlowTaskContent ==
  Chapter(9, {"slow_task"}, "UNSTABLE",
    {"fault_injected", "watchdog_timeout", "task_recovered", "runtime_summary"},
    {"deadlineMisses", "runtimeHealth"},
    {Quote("ControlTask", "deadline_ms", 80), Target("ControlTask"),
     FaultStart, Quote("fault", "extra_execution_time_ms", 120)})

scenarioLearningContent ==
  [normal             |-> normalContent,
   priority_scheduler |-> prioritySchedulerContent,
   deadline_scheduler |-> deadlineSchedulerContent,
   queue_overflow     |-> queueOverflowContent,
   dropped_messages   |-> droppedMessagesContent,
   slow_task          |-> slowTaskContent,
   cpu_spike          |-> cpuSpikeContent,
   task_crash         |-> taskCrashContent,
   watchdog_slow_task |-> watchdogSlowTaskContent]

getScenarioLearningContent(s) ==
  IF s \in DOMAIN scenarioLearningContent THEN scenarioLearningContent[s]
  ELSE defaultLearningContent

\* The value a configuration has where a text quotes one.
Configured(c, quote) ==
  IF quote.field = "targeted" THEN IF c.faults.target_task = quote.of THEN 1 ELSE 0
  ELSE IF quote.of = "fault" THEN c.faults[quote.field] ELSE c.tasks[quote.of][quote.field]
===============================================================================
