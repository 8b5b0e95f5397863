------------------------------ MODULE Dashboard ------------------------------
(***************************************************************************)
(* One browser tab of the frontend: the data context every page shares and *)
(* the pages that change it.  The first load, the run request with the     *)
(* refresh after it, the analyses and the logs are requests whose answers  *)
(* arrive in any order, late or as errors, while the user keeps clicking.  *)
(*                                                                         *)
(* A handler and the effects it triggers are one step: React runs them     *)
(* before the next event.  Runs are numbered as the server creates them,   *)
(* so the first of the list, which is sorted by creation, is the largest.  *)
(***************************************************************************)
EXTENDS Integers

CONSTANTS
  NumRuns,    \* runs the server may come to know
  MaxLate     \* superseded analysis requests of a run still unanswered

ASSUME DashboardAssumption ==
  /\ NumRuns \in Nat \ {0}
  /\ MaxLate \in Nat \ {0}

VARIABLES
  \* the server
  server,            \* status of each run in the database
  \* requests under way
  runRequest,        \* runScenario: "idle", "asked", "created" or "refreshing"
  createdRun,        \* the run it created
  listing,           \* getRuns of the "first" load and of the "refresh"
  awaited,           \* run of the newest analysis request, NoRun if none
  late,              \* analysis requests superseded, per run
  logRequest,        \* run of the current log request, NoRun if none
  lateLogs,          \* runs of the log requests superseded
  \* the data context
  scenarios,         \* whether the scenarios are loaded
  runs,              \* the list: status of each run, "none" when not in it
  latestRun, selectedRunId, analysis, isAnalysisLoading, error,
  \* the pages
  page, tab, logContent, isLogLoading, logError,
  \* history for the properties
  abandoned,         \* runs whose request failed before it was answered
  overwritten        \* a superseded answer came in after the last effect

analysisVars == <<awaited, late, analysis, isAnalysisLoading, error, overwritten>>
logVars == <<tab, logContent, isLogLoading, logError, logRequest, lateLogs>>
contextVars == <<scenarios, runs, latestRun, selectedRunId>>
requestVars == <<runRequest, createdRun, listing, abandoned>>
vars == <<server, requestVars, contextVars, analysisVars, page, logVars>>

Runs == 1..NumRuns
NoRun == 0
Statuses == {"none", "RUNNING", "COMPLETED", "FAILED"}
Lists == [Runs -> Statuses]
NothingListed == [r \in Runs |-> "none"]
NoRequest == [state |-> "none", list |-> NothingListed]
Asked == [state |-> "asked", list |-> NothingListed]

\* The routes that touch the shared data; "home" stands for the four that do not.
Pages == {"home", "learn", "simulator", "runs", "analysis"}

isRunning == runRequest # "idle"

\* Runs that exist when the tab opens were decided before.
Init ==
  /\ \E n \in 0..NumRuns : server \in
       {s \in Lists : \A r \in Runs : s[r] \in IF r <= n THEN {"COMPLETED", "FAILED"} ELSE {"none"}}
  /\ runRequest = "idle"
  /\ createdRun = NoRun
  /\ listing = [first |-> Asked, refresh |-> NoRequest]
  /\ awaited = NoRun
  /\ late = [r \in Runs |-> 0]
  /\ logRequest = NoRun
  /\ lateLogs = {}
  /\ scenarios = FALSE
  /\ runs = NothingListed
  /\ latestRun = NoRun
  /\ selectedRunId = NoRun
  /\ analysis = NoRun
  /\ isAnalysisLoading = FALSE
  /\ error = FALSE
  /\ page \in Pages
  /\ tab = "summary"
  /\ logContent = NoRun
  /\ isLogLoading = FALSE
  /\ logError = FALSE
  /\ abandoned = {}
  /\ overwritten = FALSE
-------------------------------------------------------------------------------
(* Effects *)

\* The request the effect leaves behind; nothing cancels it.
Superseded == IF awaited = NoRun THEN late ELSE [late EXCEPT ![awaited] = @ + 1]

IsCompleted(r, list) == r # NoRun /\ list[r] = "COMPLETED"

\* The effect on the selection and the list: it asks for the analysis of a
\* completed run, and shows none for any other.
LoadAnalysis(selection, list) ==
  /\ late' = Superseded
  /\ overwritten' = FALSE
  /\ \/ /\ IsCompleted(selection, list)
        /\ awaited' = selection
        /\ isAnalysisLoading' = TRUE
        /\ error' = FALSE
        /\ UNCHANGED analysis
     \/ /\ ~IsCompleted(selection, list)
        /\ awaited' = NoRun
        /\ analysis' = NoRun
        /\ UNCHANGED <<isAnalysisLoading, error>>

\* The effect of the runs page on the selection and the tab.
LoadLog(selection, newTab) ==
  /\ tab' = newTab
  /\ lateLogs' = lateLogs \union ({logRequest} \ {NoRun})
  /\ UNCHANGED logContent
  /\ \/ /\ newTab = "raw" /\ selection # NoRun
        /\ logRequest' = selection
        /\ isLogLoading' = TRUE
        /\ logError' = FALSE
     \/ /\ ~(newTab = "raw" /\ selection # NoRun)
        /\ logRequest' = NoRun
        /\ UNCHANGED <<isLogLoading, logError>>

\* The runs page, if it is shown, follows the selection.
FollowSelection(selection) ==
  IF page = "runs" /\ selection # selectedRunId
  THEN LoadLog(selection, tab)
  ELSE UNCHANGED logVars

\* Mutant: the selection is no dependency of the effect.
SelectionChanged_Unnoticed(selection) == UNCHANGED analysisVars

\* What follows from a selection among the runs already listed.
SelectionChanged(selection) ==
  IF selection = selectedRunId
  THEN UNCHANGED analysisVars
  ELSE LoadAnalysis(selection, runs)

\* A page is left with its state, and a page is entered afresh.
Enter(newPage) ==
  /\ page' = newPage
  /\ IF newPage = page
     THEN UNCHANGED logVars
     ELSE /\ tab' = "summary"
          /\ logContent' = NoRun
          /\ isLogLoading' = FALSE
          /\ logError' = FALSE
          /\ logRequest' = NoRun
          /\ lateLogs' = {}
-------------------------------------------------------------------------------
(* The first load *)

\* Mutant: the server returns only the newest run.
Listed_Newest(statuses) ==
  [r \in Runs |-> IF \E s \in Runs : s > r /\ statuses[s] # "none"
                  THEN "none" ELSE statuses[r]]

Listed(statuses) == statuses

\* The newest of the list, or what was selected if the list is empty.
FirstSelected(list) ==
  LET listed == {r \in Runs : list[r] # "none"}
  IN  IF listed = {} THEN selectedRunId ELSE CHOOSE r \in listed : \A s \in listed : s <= r

\* The server reads the rows for an answer that arrives later.
ServeList(which) ==
  /\ listing[which].state = "asked"
  /\ listing' = [listing EXCEPT ![which] = [state |-> "served", list |-> Listed(server)]]
  /\ UNCHANGED <<server, runRequest, createdRun, abandoned, contextVars,
                 analysisVars, page, logVars>>

\* The list, and the selection with it unless the list is empty, are replaced
\* whatever the user has done since.
FirstLoadAnswered ==
  LET list == listing["first"].list
      selection == FirstSelected(list)
  IN  /\ listing["first"].state = "served"
      /\ listing' = [listing EXCEPT !["first"] = NoRequest]
      /\ scenarios' = TRUE
      /\ runs' = list
      /\ selectedRunId' = selection
      /\ latestRun' = IF \E r \in Runs : list[r] # "none" THEN selection ELSE latestRun
      /\ LoadAnalysis(selection, list)
      /\ FollowSelection(selection)
      /\ UNCHANGED <<server, runRequest, createdRun, abandoned, page>>

\* Either of its two requests fails; nothing loads them again.
FirstLoadFails ==
  /\ listing["first"].state # "none"
  /\ listing' = [listing EXCEPT !["first"] = NoRequest]
  /\ error' = TRUE
  /\ UNCHANGED <<server, runRequest, createdRun, abandoned, contextVars,
                 awaited, late, analysis, isAnalysisLoading, overwritten, page, logVars>>
-------------------------------------------------------------------------------
(* Running a scenario *)

\* Mutant: the buttons stay enabled while a run is under way.
MayRun_Always ==
  page = "learn" \/ (page = "simulator" /\ scenarios)

\* The lessons' buttons are there at once, the simulator's once it has the
\* scenarios; all are disabled while a run is under way.
MayRun ==
  /\ ~isRunning
  /\ page = "learn" \/ (page = "simulator" /\ scenarios)

RunScenario ==
  /\ MayRun
  /\ runRequest' = "asked"
  /\ error' = FALSE
  /\ UNCHANGED <<server, createdRun, listing, abandoned, contextVars,
                 awaited, late, analysis, isAnalysisLoading, overwritten, page, logVars>>

\* The server saves the row of the next run and works on it.
ServerCreates ==
  /\ runRequest = "asked"
  /\ \E r \in Runs :
       /\ server[r] = "none"
       /\ \A s \in 1..(r - 1) : server[s] # "none"
       /\ server' = [server EXCEPT ![r] = "RUNNING"]
       /\ createdRun' = r
  /\ runRequest' = "created"
  /\ UNCHANGED <<listing, abandoned, contextVars, analysisVars, page, logVars>>

ServerFinishes(r) ==
  /\ server[r] = "RUNNING"
  /\ \E status \in {"COMPLETED", "FAILED"} : server' = [server EXCEPT ![r] = status]
  /\ UNCHANGED <<requestVars, contextVars, analysisVars, page, logVars>>

\* The created run is selected although the list does not have it yet.
CreateAnswered ==
  /\ runRequest = "created"
  /\ server[createdRun] \in {"COMPLETED", "FAILED"}
  /\ runRequest' = "refreshing"
  /\ listing' = [listing EXCEPT !["refresh"] = Asked]
  /\ latestRun' = createdRun
  /\ selectedRunId' = createdRun
  /\ SelectionChanged(createdRun)
  /\ FollowSelection(createdRun)
  /\ UNCHANGED <<server, createdRun, abandoned, scenarios, runs, page>>

\* The request is refused, times out or loses its answer; the server may go on.
CreateFails ==
  /\ runRequest \in {"asked", "created"}
  /\ runRequest' = "idle"
  /\ abandoned' = abandoned \union ({createdRun} \ {NoRun})
  /\ createdRun' = NoRun
  /\ error' = TRUE
  /\ UNCHANGED <<server, listing, contextVars, awaited, late, analysis,
                 isAnalysisLoading, overwritten, page, logVars>>

\* The list is replaced and the page that asked goes to the analysis, wherever
\* the user is by now.
RefreshAnswered ==
  LET list == listing["refresh"].list
  IN  /\ listing["refresh"].state = "served"
      /\ listing' = [listing EXCEPT !["refresh"] = NoRequest]
      /\ runRequest' = "idle"
      /\ createdRun' = NoRun
      /\ runs' = list
      /\ latestRun' = createdRun
      /\ LoadAnalysis(selectedRunId, list)
      /\ Enter("analysis")
      /\ UNCHANGED <<server, abandoned, scenarios, selectedRunId>>

\* Mutant: the failure is not caught and the buttons stay disabled.
RefreshFails_Uncaught ==
  /\ runRequest = "refreshing"
  /\ listing["refresh"] # NoRequest
  /\ listing' = [listing EXCEPT !["refresh"] = NoRequest]
  /\ UNCHANGED <<runRequest, createdRun, server, abandoned, contextVars, analysisVars,
                 page, logVars>>

\* The run exists, is selected and is not in the list.
RefreshFails ==
  /\ runRequest = "refreshing"
  /\ listing' = [listing EXCEPT !["refresh"] = NoRequest]
  /\ runRequest' = "idle"
  /\ createdRun' = NoRun
  /\ error' = TRUE
  /\ UNCHANGED <<server, abandoned, contextVars, awaited, late, analysis,
                 isAnalysisLoading, overwritten, page, logVars>>
-------------------------------------------------------------------------------
(* The analysis *)

\* The answer to the newest request, or its failure.
AnalysisAnswered ==
  /\ awaited # NoRun
  /\ awaited' = NoRun
  /\ isAnalysisLoading' = FALSE
  /\ \/ analysis' = awaited /\ UNCHANGED error
     \/ analysis' = NoRun /\ error' = TRUE
  /\ UNCHANGED <<late, overwritten, server, requestVars, contextVars, page, logVars>>

\* An answer to a request for an earlier selection is shown all the same.
LateAnalysisAnswered(r) ==
  /\ late[r] > 0
  /\ late' = [late EXCEPT ![r] = @ - 1]
  /\ isAnalysisLoading' = FALSE
  /\ overwritten' = TRUE
  /\ \/ analysis' = r /\ UNCHANGED error
     \/ analysis' = NoRun /\ error' = TRUE
  /\ UNCHANGED <<awaited, server, requestVars, contextVars, page, logVars>>
-------------------------------------------------------------------------------
(* The user *)

\* The runs page offers the whole list, the analysis page what completed.
Offered(r) ==
  \/ page = "runs" /\ runs[r] # "none"
  \/ page = "analysis" /\ runs[r] = "COMPLETED"

SelectRun(r) ==
  /\ Offered(r)
  /\ \A s \in Runs : late[s] < MaxLate
  /\ selectedRunId' = r
  /\ latestRun' = r
  /\ SelectionChanged(r)
  /\ FollowSelection(r)
  /\ UNCHANGED <<server, requestVars, scenarios, runs, page>>

Navigate(newPage) ==
  /\ newPage # page
  /\ Enter(newPage)
  /\ UNCHANGED <<server, requestVars, contextVars, analysisVars>>

\* The tabs are shown for a selected run that is in the list.
OpenTab(newTab) ==
  /\ page = "runs"
  /\ selectedRunId # NoRun /\ runs[selectedRunId] # "none"
  /\ newTab # tab
  /\ LoadLog(selectedRunId, newTab)
  /\ UNCHANGED <<server, requestVars, contextVars, analysisVars, page>>

LogAnswered ==
  /\ logRequest # NoRun
  /\ logRequest' = NoRun
  /\ isLogLoading' = FALSE
  /\ \/ logContent' = logRequest /\ UNCHANGED logError
     \/ logContent' = NoRun /\ logError' = TRUE
  /\ UNCHANGED <<tab, lateLogs, server, requestVars, contextVars, analysisVars, page>>

\* Mutant: an answer is used whether or not its effect is the current one.
UseLateLog_Always(r) ==
  /\ logContent' = r
  /\ isLogLoading' = FALSE
  /\ UNCHANGED logError

\* An answer whose effect was cleaned up changes nothing.
UseLateLog(r) == UNCHANGED <<logContent, isLogLoading, logError>>

LateLogAnswered(r) ==
  /\ r \in lateLogs
  /\ lateLogs' = lateLogs \ {r}
  /\ UseLateLog(r)
  /\ UNCHANGED <<tab, logRequest, server, requestVars, contextVars, analysisVars, page>>
-------------------------------------------------------------------------------
RunAnswers == CreateAnswered \/ CreateFails \/ RefreshAnswered \/ RefreshFails

AnalysisAnswers == AnalysisAnswered \/ \E r \in Runs : LateAnalysisAnswered(r)

User ==
  \/ RunScenario
  \/ \E r \in Runs : SelectRun(r)
  \/ \E newPage \in Pages : Navigate(newPage)
  \/ \E newTab \in {"summary", "raw"} : OpenTab(newTab)

Next ==
  \/ User
  \/ \E which \in {"first", "refresh"} : ServeList(which)
  \/ FirstLoadAnswered \/ FirstLoadFails
  \/ RunAnswers \/ AnalysisAnswers
  \/ ServerCreates
  \/ \E r \in Runs : ServerFinishes(r) \/ LateLogAnswered(r)
  \/ LogAnswered

\* A browser answers or fails every request in the end.
Fairness ==
  /\ WF_vars(RunAnswers)
  /\ WF_vars(AnalysisAnswers)
  /\ WF_vars(LogAnswered)

Spec == Init /\ [][Next]_vars /\ Fairness
-------------------------------------------------------------------------------
TypeOK ==
  /\ server \in Lists
  /\ runRequest \in {"idle", "asked", "created", "refreshing"}
  /\ createdRun \in Runs \union {NoRun}
  /\ listing \in [{"first", "refresh"} -> [state : {"none", "asked", "served"}, list : Lists]]
  /\ awaited \in Runs \union {NoRun}
  /\ late \in [Runs -> Nat]
  /\ logRequest \in Runs \union {NoRun}
  /\ lateLogs \subseteq Runs
  /\ scenarios \in BOOLEAN
  /\ runs \in Lists
  /\ {latestRun, selectedRunId, analysis, logContent} \subseteq Runs \union {NoRun}
  /\ {isAnalysisLoading, error, isLogLoading, logError, overwritten} \subseteq BOOLEAN
  /\ page \in Pages
  /\ tab \in {"summary", "raw"}
  /\ abandoned \subseteq Runs

\* The raw tab never shows one run's log under another run's name, and it says
\* it is loading only while the selected run's log is really on its way,
\* although tabs, pages and selections change while logs are under way.
RawTabIsHonest ==
  page = "runs" /\ tab = "raw" =>
    IF isLogLoading THEN logRequest = selectedRunId
                    ELSE logError \/ logContent = selectedRunId

\* An analysis other than the selected run's is on screen, or is not said to be
\* loading, only because an answer for an earlier selection came in late: the
\* effect sees every change that matters.
StaleOnlyByLateAnswer ==
  overwritten \/ IF awaited # NoRun
                 THEN awaited = selectedRunId /\ isAnalysisLoading
                 ELSE analysis \in {NoRun, selectedRunId}

\* One tab has at most one run under way that it still waits for: what two runs
\* at a time need is a second client, or a request that failed before its end.
OneRunAtATime ==
  \A r, s \in Runs :
    /\ server[r] = "RUNNING" /\ server[s] = "RUNNING"
    /\ {r, s} \intersect abandoned = {}
    => r = s

\* Only the first load, when its answer comes late, takes a run off the list or
\* shows it as running again after it was decided; a refresh does neither, but
\* for the status of a run whose own request had failed.
ListGoesBackOnlyAtFirstLoad ==
  [][\A r \in Runs :
       \/ runs'[r] = runs[r]
       \/ runs[r] = "none"
       \/ runs'[r] # "none" /\ (runs[r] = "RUNNING" \/ r \in abandoned)
       \/ listing["first"] # NoRequest /\ listing'["first"] = NoRequest]_vars

\* Whatever the user does meanwhile, no button stays disabled and no panel says
\* that it is loading for ever.
LoadingEnds ==
  /\ isRunning ~> ~isRunning
  /\ isAnalysisLoading ~> ~isAnalysisLoading
  /\ isLogLoading /\ tab = "raw" ~> ~(isLogLoading /\ tab = "raw")
===============================================================================
