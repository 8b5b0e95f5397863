-------------------------------- MODULE Panels --------------------------------
(***************************************************************************)
(* What the panels of the analysis and runs pages say of an analysis.  A   *)
(* sentence is the topic it is about.                                      *)
(***************************************************************************)
EXTENDS Lessons, ReportParser, Curriculum

\* Which of the words the panels look for is part of a scenario's id.
Includes ==
  [normal             |-> {},
   priority_scheduler |-> {"priority"},
   deadline_scheduler |-> {"deadline"},
   queue_overflow     |-> {"queue_overflow"},
   dropped_messages   |-> {"dropped_messages"},
   slow_task          |-> {"slow_task"},
   cpu_spike          |-> {"cpu_spike"},
   task_crash         |-> {"task_crash"},
   watchdog_slow_task |-> {"slow_task", "watchdog"}]

\* The topic of the first word in order that the id includes.
FirstTopic(order, s) ==
  LET In(word) == word \in Includes[s]
      i == SelectInSeq(order, In)
  IN  IF i = 0 THEN "baseline" ELSE order[i]

\* Mutant: the watchdog is looked for first.
getNarrative_WatchdogFirst(analysis) ==
  FirstTopic(<<"watchdog", "queue_overflow", "dropped_messages", "slow_task", "cpu_spike",
               "task_crash", "priority", "deadline">>, analysis.scenarioId)

getNarrative(analysis) ==
  FirstTopic(<<"queue_overflow", "dropped_messages", "slow_task", "cpu_spike", "task_crash",
               "watchdog", "priority", "deadline">>, analysis.scenarioId)

getScenarioFaultSummary(analysis) ==
  FirstTopic(<<"queue_overflow", "cpu_spike", "task_crash", "slow_task", "dropped_messages",
               "watchdog", "priority", "deadline">>, analysis.scenarioId)

\* The number of an event, or zero when the analysis does not list it.
Listed(analysis, event) ==
  IF event \in DOMAIN analysis.eventCounts THEN analysis.eventCounts[event] ELSE 0

missedDeadlines(analysis) ==
  SumFunction([t \in DOMAIN analysis.taskMetrics |-> analysis.taskMetrics[t].deadline_misses])

describeWhatChanged(analysis) ==
  LET m == analysis.messageSummary
      changes ==
        {topic \in {"queue_overflow", "dropped_messages"} :
           m.dropped > 0 /\ IF topic = "queue_overflow" THEN m.queue_full_drops > 0
                            ELSE m.fault_injected_drops > 0}
        \cup {topic \in {"deadline"} : missedDeadlines(analysis) > 0}
        \cup {topic \in {"task_failed", "watchdog_timeout"} : Listed(analysis, topic) > 0}
  IN  IF changes = {} THEN {"nothing_degraded"} ELSE changes

\* The share of a total, in percent, rounded to the nearest.
percent(value, total) == IF total <= 0 THEN 0 ELSE (200 * value + total) \div (2 * total)

AtLeastOne(n) == IF n > 1 THEN n ELSE 1

QueuePressure(m) ==
  LET totalObserved == IF m.received + m.dropped > 0 THEN m.received + m.dropped ELSE m.sent
  IN  [received |-> percent(m.received, totalObserved),
       dropped |-> percent(m.dropped, totalObserved),
       queueFull |-> percent(m.queue_full_drops, AtLeastOne(m.dropped)),
       faultInjected |-> percent(m.fault_injected_drops, AtLeastOne(m.dropped))]

\* The tasks whose bar is highlighted.
DeadlineRisk(analysis) ==
  {t \in DOMAIN analysis.taskMetrics : analysis.taskMetrics[t].deadline_misses > 0}

getRuntimeHealthExplanation(analysis) ==
  CASE analysis.runtimeHealth = "NORMAL" -> "no_major_problems"
    [] analysis.runtimeHealth = "WARNING" -> "degraded"
    [] analysis.runtimeHealth = "UNSTABLE" -> "serious_issues"
    [] OTHER -> "unexplained"

\* Which of the words the notes look for is part of a cause, in lower case.
CauseWords(cause) ==
  CASE cause.says = "missed_its_deadline" -> {"deadline"}
    [] cause.says = "queue_full_drops" -> {"queue", "drop"}
    [] cause.says = "dropped_before_enqueue" -> {"queue", "drop"}
    [] cause.says = "watchdog_timeout" -> {"watchdog"}
    [] cause.says = "failed_due_to_task_crash" -> {"crash", "failed"}
    [] cause.says = "skipped_in_failed_state" -> {"failed"}
    [] cause = Cause("fault_injection_was_active", "dropped_messages") -> {"drop"}
    [] cause = Cause("fault_injection_was_active", "task_crash") -> {"crash"}
    [] cause.says = "nothing_detected" -> {"deadline", "watchdog", "drop"}
    [] OTHER -> {}

getRootCauseExplanation(cause) ==
  LET words == CauseWords(cause)
  IN  IF "queue" \in words THEN "queue"
      ELSE IF "deadline" \in words THEN "deadline"
      ELSE IF "watchdog" \in words THEN "watchdog"
      ELSE IF words \cap {"crash", "failed"} # {} THEN "failure"
      ELSE IF "drop" \in words THEN "drop" ELSE "signal"

\* The five numbers a beginner is shown.  The analyzer's severities are in
\* lower case, so the one looked up here is never there.
BeginnerSummary(analysis) ==
  [health |-> analysis.runtimeHealth,
   warnings |-> IF "WARNING" \in DOMAIN analysis.severityCounts
                THEN analysis.severityCounts["WARNING"] ELSE 0,
   missedDeadlines |-> missedDeadlines(analysis),
   droppedMessages |-> analysis.messageSummary.dropped,
   crashedTasks |-> Listed(analysis, "task_failed")]

\* Where the analysis explained leads: its lesson and the one after it.
RelatedLessons(analysis) ==
  LET lesson == getLessonForScenario(analysis.scenarioId)
      next == IF lesson = NoLesson THEN NoLesson ELSE LessonOf(lesson).nextLessonId
  IN  {lesson, IF next = NoLesson THEN NoLesson ELSE getLessonById(next)} \ {NoLesson}
===============================================================================
