------------------------------- MODULE Lessons -------------------------------
(***************************************************************************)
(* The frontend's lesson catalogue and its glossary.  A lesson keeps its   *)
(* place in the path, the scenarios it names and its key terms; its prose  *)
(* is left out.  Terms are in lower case, as the glossary looks them up.   *)
(***************************************************************************)
EXTENDS Scenarios, SequencesExt

Lesson(module, id, scenario, related, terms, next) ==
  [moduleNumber |-> module, id |-> id, scenarioId |-> scenario,
   relatedScenarioIds |-> related, keyTerms |-> terms, nextLessonId |-> next]

NoLesson == "null"

EmbeddedSystem ==
  Lesson(0, "what-is-an-embedded-system", "normal", {},
         {"embedded_system", "task", "real-time_system"}, "what-is-an-rtos")

Rtos ==
  Lesson(1, "what-is-an-rtos", "priority_scheduler", {"normal"},
         {"rtos", "task", "scheduler", "real-time_system"}, "tasks-priorities-and-preemption")

Priorities ==
  Lesson(2, "tasks-priorities-and-preemption", "priority_scheduler", {"normal"},
         {"task", "priority", "preemption", "scheduler"}, "deadlines-and-missed-deadlines")

\* Mutant: the lesson on queues is passed over.
Deadlines_SkipsQueues ==
  Lesson(3, "deadlines-and-missed-deadlines", "deadline_scheduler", {"slow_task"},
         {"deadline", "task", "real-time_system", "health_status"}, "watchdogs-and-recovery")

Deadlines ==
  Lesson(3, "deadlines-and-missed-deadlines", "deadline_scheduler", {"slow_task"},
         {"deadline", "task", "real-time_system", "health_status"},
         "queues-and-message-passing")

Queues ==
  Lesson(4, "queues-and-message-passing", "queue_overflow", {"dropped_messages"},
         {"queue", "dropped_message", "task"}, "watchdogs-and-recovery")

Watchdogs ==
  Lesson(5, "watchdogs-and-recovery", "watchdog_slow_task", {"task_crash"},
         {"watchdog", "crash", "task", "health_status"}, "linux-vs-rtos-scheduling")

LinuxScheduling ==
  Lesson(6, "linux-vs-rtos-scheduling", "priority_scheduler", {"deadline_scheduler"},
         {"linux_scheduler", "scheduler", "rtos", "real-time_system"},
         "reading-logs-and-analysis")

ReadingLogs ==
  Lesson(7, "reading-logs-and-analysis", "queue_overflow", {"slow_task", "watchdog_slow_task"},
         {"runtime_log", "analysis", "health_status", "warning"}, NoLesson)

lessonCatalog ==
  <<EmbeddedSystem, Rtos, Priorities, Deadlines, Queues, Watchdogs, LinuxScheduling, ReadingLogs>>

LessonIds == {lessonCatalog[i].id : i \in DOMAIN lessonCatalog}

\* The first lesson a test holds of, or none.
find(Test(_)) ==
  LET i == SelectInSeq(lessonCatalog, Test)
  IN  IF i = 0 THEN NoLesson ELSE lessonCatalog[i].id

\* The id of the lesson found, or "null".
getLessonById(id) == LET Named(lesson) == lesson.id = id IN find(Named)

LessonOf(id) == CHOOSE lesson \in ToSet(lessonCatalog) : lesson.id = id

\* The first lesson about a scenario, its own before one it is related to.
getLessonForScenario(s) ==
  LET Primary(lesson) == lesson.scenarioId = s
      Related(lesson) == s \in lesson.relatedScenarioIds
  IN  IF find(Primary) # NoLesson THEN find(Primary) ELSE find(Related)

\* The glossary, as what each entry answers to.
fundamentals ==
  {{"embedded_system", "embedded_systems", "embedded"},
   {"rtos", "real-time_operating_system"}, {"task", "tasks"}}

scheduling ==
  {{"scheduler", "scheduling"}, {"priority", "priorities"}, {"preemption", "preempt", "preempted"}}

synchronisation == {{"queue", "queues"}, {"semaphore"}, {"mutex"}}

timing ==
  {{"deadline", "deadlines"}, {"watchdog"}, {"latency"}, {"jitter"}, {"throughput"},
   {"linux_scheduler"}, {"cfs"}, {"real-time_system", "real-time_systems", "real_time"},
   {"hard_real-time"}, {"soft_real-time"}}

reliability ==
  {{"dropped_message", "dropped_messages", "message_dropped", "drop", "drops"},
   {"crash", "crashed", "task_crash", "crashes"}}

observability ==
  {{"health_check", "health_status", "health", "runtime_health"}, {"warning", "warnings"},
   {"runtime_log", "runtime_logs", "logs", "log"}, {"analysis", "analyzer", "analysis_report"}}

glossary ==
  fundamentals \cup scheduling \cup synchronisation \cup timing \cup reliability \cup observability

\* The entry a term is looked up to, if there is one.
HasEntry(term) == \E entry \in glossary : term \in entry

\* The terms a run's summary explains in tooltips.
SummaryTerms == {"health_status", "warning", "deadline", "dropped_message", "crash"}
===============================================================================
