----------------------------- MODULE ReportParser -----------------------------
(***************************************************************************)
(* The backend's parser of the analyzer's report: one pass over the lines, *)
(* a section at a time, and the analysis the frontend is given.            *)
(***************************************************************************)
EXTENDS Analyzer, SequencesExt

Headings ==
  {"Event_counts", "Severity_counts", "Task_summary", "Message_summary", "Likely_root_causes",
   "Fault_summary", "Watchdog_summary", "Task_failure_summary", "Anomaly_Detector"}

NoTask == "none"
NoMetric == [runs |-> 0, deadline_misses |-> 0, deadline_missed_events |-> 0]
NoMessages == [sent |-> 0, received |-> 0, dropped |-> 0, queue_full_drops |-> 0,
               fault_injected_drops |-> 0]
Empty == [key \in {} |-> 0]

\* What parse knows before the first line.
Parser ==
  [section |-> NoWord, runtimeHealth |-> "null", schedulerMode |-> "null",
   eventCounts |-> Empty, severityCounts |-> Empty, taskMetrics |-> Empty,
   messageSummary |-> NoMessages, rootCauses |-> <<>>,
   currentTask |-> NoTask, currentTaskMetric |-> NoMetric]

HasColon(line) == line.mark \in {"heading", "number", "word", "listed"}
StartsWithDash(line) == line.mark \in {"item", "listed"}

Put(map, key, value) ==
  [k \in DOMAIN map \cup {key} |-> IF k = key THEN value ELSE map[k]]

\* A field that is not known is left out.
Update(record, line) ==
  IF line.key \in DOMAIN record THEN [record EXCEPT ![line.key] = line.number] ELSE record

\* Mutant: the task under way at the end is not put away.
Flushed_Dropped(p) == p.taskMetrics

\* The metrics with those of the task under way.
Flushed(p) ==
  IF p.currentTask = NoTask THEN p.taskMetrics
  ELSE Put(p.taskMetrics, p.currentTask, p.currentTaskMetric)

\* A line that no heading and no fixed prefix explains, by its section.
InSection(p, line) ==
  CASE p.section = "Event_counts" /\ HasColon(line) ->
         [p EXCEPT !.eventCounts = Put(@, line.key, line.number)]
    [] p.section = "Severity_counts" /\ HasColon(line) ->
         [p EXCEPT !.severityCounts = Put(@, line.key, line.number)]
    [] p.section = "Message_summary" /\ HasColon(line) ->
         [p EXCEPT !.messageSummary = Update(@, line)]
    [] p.section = "Likely_root_causes" /\ StartsWithDash(line) ->
         [p EXCEPT !.rootCauses = Append(@, Cause(line.key, line.word))]
    [] p.section = "Task_summary" /\ line.mark = "heading" /\ line.indent = 2 ->
         [p EXCEPT !.taskMetrics = Flushed(p), !.currentTask = line.key,
                   !.currentTaskMetric = NoMetric]
    [] p.section = "Task_summary" /\ line.mark # "heading" /\ HasColon(line)
         /\ p.currentTask # NoTask ->
         [p EXCEPT !.currentTaskMetric = Update(@, line)]
    [] OTHER -> p

ParseLine(p, line) ==
  CASE line.mark = "heading" /\ line.key \in Headings -> [p EXCEPT !.section = line.key]
    [] line.key = "Runtime_status" -> [p EXCEPT !.runtimeHealth = line.word]
    [] line.key = "Scheduler_mode" -> [p EXCEPT !.schedulerMode = line.word]
    [] OTHER -> InSection(p, line)

\* The AnalysisResponse, with the scenario the backend adds.
Parsed(p, s) ==
  [scenarioId |-> s, runtimeHealth |-> p.runtimeHealth, schedulerMode |-> p.schedulerMode,
   eventCounts |-> p.eventCounts, severityCounts |-> p.severityCounts,
   taskMetrics |-> Flushed(p), messageSummary |-> p.messageSummary, rootCauses |-> p.rootCauses]

parse(report, s) == Parsed(FoldLeft(ParseLine, Parser, report), s)

\* The fields of it a student is told to look at, under the frontend's names.
AnalysisFields ==
  {"runtimeHealth", "eventsLoaded", "simulationName", "schedulerMode",
   "configuredDurationSeconds", "observedDurationMs", "eventCounts", "severityCounts",
   "taskMetrics", "messageSummary", "rootCauses", "runs", "deadlineMisses",
   "deadlineMissedEvents", "avgDurationMs", "maxDurationMs", "queueFullDrops",
   "faultInjectedDrops"}
===============================================================================
