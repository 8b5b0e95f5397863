------------------------------- MODULE Analyzer -------------------------------
(***************************************************************************)
(* The analyzer: the verdict on a log, its root causes, and the report it  *)
(* prints, as the lines the backend's parser tells apart.  The words of a  *)
(* text are joined by underscores.                                         *)
(***************************************************************************)
EXTENDS RunLog, Sequences

TotalMisses(log) ==
  log.misses["ControlTask"] + log.misses["NetworkTask"] + log.misses["LoggerTask"]

SlowTaskFault(log) ==
  configs[log.scenario].faults.type = "slow_task" /\ EventCount(log, "fault_injected") > 0

\* Mutant: skips and recoveries are not looked at, and the threshold is passed.
Unstable_Fewer(log) ==
  EventCount(log, "watchdog_timeout") > 0 \/ TotalMisses(log) > Many

Unstable(log) ==
  \/ \E event \in {"task_failed", "task_skipped", "watchdog_timeout", "task_recovered"} :
       EventCount(log, event) > 0
  \/ TotalMisses(log) >= Many
  \/ SlowTaskFault(log) /\ TotalMisses(log) > 0

classify_health(log) ==
  IF Unstable(log) THEN "UNSTABLE"
  ELSE IF EventCount(log, "fault_injected") > 0 \/ TotalMisses(log) > 0
          \/ log.queue_full + log.injected > 0
       THEN "WARNING" ELSE "NORMAL"

\* A cause: what it says and of which task.
Cause(says, task) == [says |-> says, task |-> task]
When(condition, cause) == IF condition THEN <<cause>> ELSE <<>>

\* The tasks in the order the report sorts them.
PerTask(says, Holds(_)) ==
  When(Holds("ControlTask"), Cause(says, "ControlTask")) \o
  When(Holds("LoggerTask"), Cause(says, "LoggerTask")) \o
  When(Holds("NetworkTask"), Cause(says, "NetworkTask"))

collect_root_causes(log) ==
  LET f == configs[log.scenario].faults
      Missed(t) == log.misses[t] > 0
      Observed(event) == EventCount(log, event) > 0
      OfTarget(event, says) == When(Observed(event), Cause(says, f.target_task))
      causes == PerTask("missed_its_deadline", Missed)
                  \o When(Observed("fault_injected"), Cause("fault_injection_was_active", f.type))
                  \o When(log.queue_full > 0, Cause("queue_full_drops", "none"))
                  \o When(log.injected > 0, Cause("dropped_before_enqueue", "none"))
                  \o OfTarget("watchdog_timeout", "watchdog_timeout")
                  \o OfTarget("task_recovered", "simulated_recovery")
                  \o OfTarget("task_failed", "failed_due_to_task_crash")
                  \o OfTarget("task_skipped", "skipped_in_failed_state")
  IN  IF causes # <<>> THEN causes ELSE <<Cause("nothing_detected", "none")>>

\* A line: how far it is indented, what it is, its words before the colon, and
\* the word or number after it.  "heading" ends with its colon; "item" begins
\* with a dash, "listed" with a dash and has a colon too.
NoWord == "none"
Line(indent, mark, key, word, number) ==
  [indent |-> indent, mark |-> mark, key |-> key, word |-> word, number |-> number]
Heading(indent, key) == Line(indent, "heading", key, NoWord, 0)
Value(indent, key, number) == Line(indent, "number", key, NoWord, number)
Word(key, word) == Line(0, "word", key, word, 0)
Text(key) == Line(0, "text", key, NoWord, 0)
Item(cause) == Line(2, "item", cause.says, cause.task, 0)

Each(s, F(_)) == [i \in DOMAIN s |-> F(s[i])]

\* A counter has only what it counted, here in the order of keys; neither of
\* the two that are printed is ever empty.
Counter(keys, count) ==
  LET first[i \in 0 .. Len(keys)] ==
        IF i = 0 THEN <<>>
        ELSE first[i - 1] \o When(count[i] > 0, Value(2, keys[i], count[i]))
  IN  first[Len(keys)]

TaskSummary(log, t) ==
  <<Heading(2, t),
    Value(4, "runs", Many),
    Value(4, "deadline_misses", log.misses[t]),
    Value(4, "deadline_missed_events", log.marked[t])>>

\* What was counted per task, under a title of its own.
ListedTask(title, log, event) ==
  IF EventCount(log, event) = 0 THEN <<>>
  ELSE <<Heading(2, title),
         Line(4, "listed", configs[log.scenario].faults.target_task, NoWord, EventCount(log, event))>>

print_report(log) ==
  LET N(event) == EventCount(log, event)
      Severity(severity) == SeverityCount(log, severity)
      severities == <<"error", "info", "warning">>
  IN  <<Text("MiniRTOS-Linux_Runtime_Health_Analyzer"),
        Word("Runtime_status", classify_health(log)),
        Word("Scheduler_mode", configs[log.scenario].scheduler_mode)>>
      \o <<Heading(0, "Event_counts")>> \o Counter(EventTypes, Each(EventTypes, N))
      \o <<Heading(0, "Severity_counts")>>
      \o Counter(severities, Each(severities, Severity))
      \o <<Heading(0, "Task_summary")>> \o TaskSummary(log, "ControlTask")
      \o TaskSummary(log, "LoggerTask") \o TaskSummary(log, "NetworkTask")
      \o <<Heading(0, "Message_summary"),
           Value(2, "sent", N("message_sent")),
           Value(2, "received", N("message_received")),
           Value(2, "dropped", N("message_dropped")),
           Value(2, "queue_full_drops", log.queue_full),
           Value(2, "fault_injected_drops", log.injected),
           Heading(0, "Fault_summary")>>
      \o (IF N("fault_injected") = 0 THEN <<Text("none")>>
          ELSE <<Value(2, configs[log.scenario].faults.type, N("fault_injected"))>>)
      \o <<Heading(0, "Watchdog_summary"),
           Value(2, "watchdog_timeouts", N("watchdog_timeout")),
           Value(2, "task_recoveries", N("task_recovered"))>>
      \o ListedTask("timeout_tasks", log, "watchdog_timeout")
      \o ListedTask("recovered_tasks", log, "task_recovered")
      \o <<Heading(0, "Task_failure_summary"),
           Value(2, "task_failures", N("task_failed")),
           Value(2, "task_skips", N("task_skipped"))>>
      \o ListedTask("failed_tasks", log, "task_failed")
      \o ListedTask("skipped_tasks", log, "task_skipped")
      \o <<Heading(0, "Likely_root_causes")>> \o Each(collect_root_causes(log), Item)

\* The second part of the report: one driver and one window stand for all.
Driver == Cause("max_task_duration_ms", "none")
print_anomaly_report ==
  <<Text("AI_Anomaly_Detection_Summary"),
    Value(0, "Anomaly_windows", 1),
    Heading(0, "Top_anomaly_drivers"), Item(Driver),
    Heading(0, "Window_summary"), Line(2, "word", "0-1000_ms", "window", 0)>>

Report(log) == print_report(log) \o print_anomaly_report
===============================================================================
