------------------------------ MODULE GuidedRun ------------------------------
(***************************************************************************)
(* A learner on the way from a lesson to a run and from its analysis to    *)
(* the next lesson: which scenario a page runs, what the backend's         *)
(* analyzer and parser make of its log, what the panels say of it, and     *)
(* where the links lead.  One request at a time: how requests and pages    *)
(* interleave is Dashboard's.                                              *)
(***************************************************************************)
EXTENDS Panels

VARIABLES
  place,      \* the page, and the lesson when it is a lesson's page
  running,    \* the scenario of the run under way, or Idle
  log,        \* the log of the last run, or NoLog
  analysis    \* what the backend answered about it
vars == <<place, running, log, analysis>>

Idle == "idle"
NoLog == [scenario |-> Idle]
NoAnalysis == [scenarioId |-> Idle]

Page(page) == [page |-> page, lesson |-> NoLesson]
LessonPage(lesson) == [page |-> "lesson", lesson |-> lesson]
NAV_ITEMS == {"learn", "simulator", "runs", "analysis", "looker", "glossary"}

Init ==
  /\ place = Page("home")
  /\ running = Idle
  /\ log = NoLog
  /\ analysis = NoAnalysis

TypeOK ==
  /\ place \in [page : NAV_ITEMS \cup {"home", "lesson"}, lesson : LessonIds \cup {NoLesson}]
  /\ running \in ScenarioIds \cup {Idle}
  /\ log = NoLog \/ log \in LogsOf(log.scenario)
  /\ analysis = NoAnalysis <=> log = NoLog

\* The scenarios the page has a button for.
Buttons ==
  CASE place.page = "learn" -> {LessonOf(id).scenarioId : id \in LessonIds}
    [] place.page = "lesson" /\ getLessonById(place.lesson) # NoLesson ->
         {LessonOf(place.lesson).scenarioId}
    [] place.page = "simulator" -> ScenarioIds
    [] OTHER -> {}

RunScenario(s) ==
  /\ running = Idle
  /\ s \in Buttons
  /\ running' = s
  /\ log' = NoLog
  /\ analysis' = NoAnalysis
  /\ UNCHANGED place

\* The run completes: its log is analyzed, the report is parsed, and the
\* answer takes the learner to the analysis page.
RunFinishes ==
  /\ running # Idle
  /\ \E l \in LogsOf(running) :
       /\ log' = l
       /\ analysis' = parse(Report(l), running)
  /\ running' = Idle
  /\ place' = Page("analysis")

\* The links a lesson's page ends with.
LessonLinks ==
  IF getLessonById(place.lesson) = NoLesson THEN {Page("learn")}
  ELSE LET next == LessonOf(place.lesson).nextLessonId
       IN  {Page("learn"), Page("glossary"), Page("simulator"), Page("analysis")}
           \cup (IF next = NoLesson THEN {} ELSE {LessonPage(next)})

HomeLinks == {Page("learn"), Page("simulator"), Page("analysis"), LessonPage(lessonCatalog[1].id)}

LearnLinks == {LessonPage(id) : id \in LessonIds}

SimulatorLinks ==
  {Page("learn")} \cup
  {LessonPage(getLessonForScenario(s)) :
     s \in {s \in ScenarioIds : getLessonForScenario(s) # NoLesson}}

AnalysisLinks ==
  IF analysis = NoAnalysis THEN {Page("learn"), Page("simulator")}
  ELSE {LessonPage(lesson) : lesson \in RelatedLessons(analysis)}

RunsLinks ==
  IF analysis = NoAnalysis THEN {Page("simulator")}
  ELSE {LessonPage(lesson) :
          lesson \in {getLessonForScenario(analysis.scenarioId)} \ {NoLesson}}

\* The links of the page, and those of the bar above every page.
Links ==
  {Page(item) : item \in NAV_ITEMS} \cup {Page("home")} \cup
  CASE place.page = "home" -> HomeLinks
    [] place.page = "learn" -> LearnLinks
    [] place.page = "lesson" -> LessonLinks
    [] place.page = "simulator" -> SimulatorLinks
    [] place.page = "analysis" -> AnalysisLinks
    [] place.page = "runs" -> RunsLinks
    [] OTHER -> {}

\* The learner follows a link between two runs.
Follow ==
  /\ running = Idle
  /\ place' \in Links
  /\ UNCHANGED <<running, log, analysis>>

Next == \/ \E s \in ScenarioIds : RunScenario(s)
        \/ RunFinishes
        \/ Follow

Spec == Init /\ [][Next]_vars
-------------------------------------------------------------------------------
\* Before the run, and after: a run on a machine that keeps up misses nothing
\* that its fault does not make it miss.
Shown == analysis # NoAnalysis
Studied == getScenarioLearningContent(analysis.scenarioId)
Calm == LET c == configs[log.scenario]
        IN  \A t \in Tasks : log.misses[t] > 0 => OverBudget(c) /\ t = c.faults.target_task

(* The backend hands on what the analyzer found: its verdict, every count  *)
(* and every task's misses, each from its own section of the report, and   *)
(* every cause in order.  The parser tells the sections apart by their     *)
(* headings alone, and does not know the headings of the report's second   *)
(* part: only causes may come from there.                                  *)
ParsedAsReported ==
  Shown =>
    /\ analysis.runtimeHealth = classify_health(log)
    /\ analysis.schedulerMode = configs[log.scenario].scheduler_mode
    /\ \A event \in ToSet(EventTypes) : EventCount(log, event) = Listed(analysis, event)
    /\ \A s \in {"error", "info", "warning"} :
         SeverityCount(log, s) > 0 => analysis.severityCounts[s] = SeverityCount(log, s)
    /\ analysis.taskMetrics =
         [t \in Tasks |-> [runs |-> Many, deadline_misses |-> log.misses[t],
                           deadline_missed_events |-> log.marked[t]]]
    /\ analysis.messageSummary =
         [sent |-> Many, received |-> Many, dropped |-> log.queue_full + log.injected,
          queue_full_drops |-> log.queue_full, fault_injected_drops |-> log.injected]
    /\ IsPrefix(collect_root_causes(log), analysis.rootCauses)

(* What the curriculum and the catalogue say of a scenario is true of its  *)
(* run: the events they tell a student to look for are in the log, the     *)
(* fields are those of the analysis, the numbers of the worked examples    *)
(* are the configuration's, and what to study first comes earlier.         *)
CurriculumMatchesTheRun ==
  Shown =>
    LET Logged == {event \in ToSet(EventTypes) : EventCount(log, event) > 0}
    IN  /\ Studied.events \subseteq Logged
        /\ expectedSignals[log.scenario] \subseteq Logged \cup AnalysisFields
        /\ Studied.fields \subseteq AnalysisFields
        /\ \A q \in Studied.quotes : Configured(configs[log.scenario], q) = q.value
        /\ \A p \in Studied.prerequisites :
             getScenarioLearningContent(p).step < Studied.step

(* A student who predicted a degraded run from the curriculum was right,   *)
(* on a machine that keeps up: the verdict shown is the one predicted.     *)
FaultyVerdictIsPredicted ==
  Shown /\ Calm /\ Studied.predicts # "NORMAL" => analysis.runtimeHealth = Studied.predicts

(* So was one who predicted a healthy run.                                 *)
PredictedVerdict ==
  Shown /\ Calm => analysis.runtimeHealth = Studied.predicts

(* The panels, each of which reads the analysis in its own way, tell one   *)
(* story: both summaries are about the same topic, nothing is said to be   *)
(* fine unless the verdict is, what changed, the highlighted tasks and the *)
(* beginner's numbers are those of the log, every cause that names a late  *)
(* or failed task is explained as one, and the shares of the drops add up. *)
PanelsTellOneStory ==
  Shown =>
    LET summary == BeginnerSummary(analysis)
        pressure == QueuePressure(analysis.messageSummary)
    IN  /\ getNarrative(analysis) = getScenarioFaultSummary(analysis)
        /\ "nothing_degraded" \in describeWhatChanged(analysis) =>
             getRuntimeHealthExplanation(analysis) = "no_major_problems"
        /\ "deadline" \in describeWhatChanged(analysis) <=> DeadlineRisk(analysis) # {}
        /\ summary.missedDeadlines = TotalMisses(log)
        /\ summary.droppedMessages = log.queue_full + log.injected
        /\ summary.crashedTasks > 0 <=> Crashes(configs[log.scenario])
        /\ \A i \in DOMAIN analysis.rootCauses :
             LET cause == analysis.rootCauses[i]
             IN  cause.task \in Tasks =>
                   getRootCauseExplanation(cause) \in {"deadline", "watchdog", "failure", "signal"}
        /\ summary.droppedMessages > 0 =>
             pressure.queueFull + pressure.faultInjected \in {100, 101}

(* No link is a dead end: a lesson's page always finds its lesson, whose   *)
(* terms and those of the summaries the glossary explains, and the lesson  *)
(* after it is the next module.                                            *)
LinksLeadSomewhere ==
  place.page = "lesson" =>
    /\ getLessonById(place.lesson) # NoLesson
    /\ LET lesson == LessonOf(place.lesson)
       IN  /\ \A term \in lesson.keyTerms \cup SummaryTerms : HasEntry(term)
           /\ lesson.nextLessonId # NoLesson =>
                LessonOf(lesson.nextLessonId).moduleNumber = lesson.moduleNumber + 1
===============================================================================
