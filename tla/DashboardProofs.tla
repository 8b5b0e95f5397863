--------------------------- MODULE DashboardProofs ---------------------------
(***************************************************************************)
(* What holds of a browser tab for any number of runs and of requests that *)
(* are still under way.                                                    *)
(***************************************************************************)
EXTENDS Dashboard, TLAPS, WellFoundedInduction

\* The newest of the runs listed is one of them.
LEMMA NewestExists ==
  ASSUME NEW S \in SUBSET Runs, S # {}
  PROVE  \E r \in S : \A s \in S : s <= r
  <1> DEFINE T == {NumRuns - r : r \in S}
  <1>1. T \subseteq Nat /\ T # {}
    <2>1. \A r \in S : NumRuns - r \in Nat
      BY DashboardAssumption DEF Runs
    <2>2. PICK r \in S : TRUE
      OBVIOUS
    <2>3. NumRuns - r \in T
      OBVIOUS
    <2> QED
      BY <2>1, <2>3
  <1>2. PICK x \in T : \A y \in T : ~ (<<y, x>> \in OpToRel(<, Nat))
    BY <1>1, WFMin, NatLessThanWellFounded
  <1>3. \A y \in T : ~ (y < x)
    BY <1>1, <1>2 DEF OpToRel
  <1>4. PICK r \in S : x = NumRuns - r
    OBVIOUS
  <1>5. \A s \in S : s <= r
    BY <1>3, <1>4, DashboardAssumption DEF Runs
  <1> QED
    BY <1>5

LEMMA FirstSelectedType ==
  ASSUME NEW list \in Lists, selectedRunId \in Runs \union {NoRun}
  PROVE  /\ FirstSelected(list) \in Runs \union {NoRun}
         /\ FirstSelected(list) # selectedRunId => FirstSelected(list) \in Runs
  <1> DEFINE listed == {r \in Runs : list[r] # "none"}
  <1>1. CASE listed = {}
    BY <1>1 DEF FirstSelected
  <1>2. CASE listed # {}
    <2>1. \E r \in listed : \A s \in listed : s <= r
      BY <1>2, NewestExists
    <2>2. FirstSelected(list) = CHOOSE r \in listed : \A s \in listed : s <= r
      BY <1>2 DEF FirstSelected
    <2> QED
      BY <2>1, <2>2
  <1> QED
    BY <1>1, <1>2
-------------------------------------------------------------------------------
(* What the operators that the handlers share leave of each property *)

AnalysisTypeOK ==
  /\ awaited \in Runs \union {NoRun}
  /\ late \in [Runs -> Nat]
  /\ analysis \in Runs \union {NoRun}
  /\ isAnalysisLoading \in BOOLEAN
  /\ error \in BOOLEAN
  /\ overwritten \in BOOLEAN

LogTypeOK ==
  /\ logRequest \in Runs \union {NoRun}
  /\ lateLogs \subseteq Runs
  /\ logContent \in Runs \union {NoRun}
  /\ isLogLoading \in BOOLEAN
  /\ logError \in BOOLEAN
  /\ tab \in {"summary", "raw"}

ContextTypeOK ==
  /\ server \in Lists
  /\ scenarios \in BOOLEAN
  /\ runs \in Lists
  /\ latestRun \in Runs \union {NoRun}
  /\ selectedRunId \in Runs \union {NoRun}
  /\ page \in Pages
  /\ abandoned \subseteq Runs

RequestTypeOK ==
  /\ runRequest \in {"idle", "asked", "created", "refreshing"}
  /\ createdRun \in Runs \union {NoRun}
  /\ listing \in [{"first", "refresh"} -> [state : {"none", "asked", "served"}, list : Lists]]

Types == AnalysisTypeOK /\ LogTypeOK /\ ContextTypeOK /\ RequestTypeOK

LEMMA TypesAgree == Types <=> TypeOK
  BY DEF Types, AnalysisTypeOK, LogTypeOK, ContextTypeOK, RequestTypeOK, TypeOK

\* A log is under way only while its tab is open on the selected run.
LogIsAwaited ==
  logRequest # NoRun =>
    page = "runs" /\ tab = "raw" /\ isLogLoading /\ logRequest = selectedRunId

\* The run that this tab waits for, and the list it asks for after it.
AwaitsCreated ==
  /\ createdRun \in Runs <=> runRequest \in {"created", "refreshing"}
  /\ listing["refresh"].state # "none" => runRequest = "refreshing"

\* The only run under way that was not abandoned is the one waited for.
OneIsAwaited ==
  \A r \in Runs : server[r] = "RUNNING" /\ r \notin abandoned
                    => r = createdRun /\ runRequest = "created"

Inv ==
  /\ Types
  /\ LogIsAwaited /\ RawTabIsHonest
  /\ StaleOnlyByLateAnswer
  /\ AwaitsCreated /\ OneIsAwaited

LEMMA NoRunIsNone == NoRun \notin Runs
  BY DashboardAssumption DEF NoRun, Runs

LEMMA ListsAreTyped == Asked \in [state : {"none", "asked", "served"}, list : Lists]
                       /\ NoRequest \in [state : {"none", "asked", "served"}, list : Lists]
  BY DEF Asked, NoRequest, NothingListed, Lists, Statuses

LEMMA LoadAnalysisSound ==
  ASSUME Types, NEW selection \in Runs \union {NoRun}, NEW list \in Lists,
         LoadAnalysis(selection, list), selectedRunId' = selection
  PROVE  AnalysisTypeOK' /\ StaleOnlyByLateAnswer'
  <1> USE NoRunIsNone DEF Types, AnalysisTypeOK
  <1>1. late' \in [Runs -> Nat]
    BY DEF LoadAnalysis, Superseded
  <1>2. CASE IsCompleted(selection, list)
    BY <1>1, <1>2 DEF LoadAnalysis, StaleOnlyByLateAnswer, IsCompleted
  <1>3. CASE ~IsCompleted(selection, list)
    BY <1>1, <1>3 DEF LoadAnalysis, StaleOnlyByLateAnswer
  <1> QED
    BY <1>2, <1>3

LEMMA LoadLogSound ==
  ASSUME Types, NEW selection \in Runs, NEW newTab \in {"summary", "raw"},
         LoadLog(selection, newTab), selectedRunId' = selection, page' = page, page = "runs"
  PROVE  LogTypeOK' /\ LogIsAwaited' /\ RawTabIsHonest'
  BY NoRunIsNone
     DEF LoadLog, Types, LogTypeOK, LogIsAwaited, RawTabIsHonest

LEMMA FollowSelectionSound ==
  ASSUME Types, LogIsAwaited, RawTabIsHonest, NEW selection \in Runs \union {NoRun},
         selection # selectedRunId => selection \in Runs,
         FollowSelection(selection), selectedRunId' = selection, page' = page
  PROVE  LogTypeOK' /\ LogIsAwaited' /\ RawTabIsHonest'
  <1>1. CASE page = "runs" /\ selection # selectedRunId
    <2>1. LoadLog(selection, tab)
      BY <1>1 DEF FollowSelection
    <2> QED
      BY <1>1, <2>1, LoadLogSound DEF Types, LogTypeOK
  <1>2. CASE ~(page = "runs" /\ selection # selectedRunId)
    BY <1>2 DEF FollowSelection, logVars, Types, LogTypeOK, LogIsAwaited, RawTabIsHonest
  <1> QED
    BY <1>1, <1>2

LEMMA SelectionChangedSound ==
  ASSUME Types, StaleOnlyByLateAnswer, NEW selection \in Runs \union {NoRun},
         SelectionChanged(selection), selectedRunId' = selection
  PROVE  AnalysisTypeOK' /\ StaleOnlyByLateAnswer'
  <1>1. CASE selection = selectedRunId
    BY <1>1 DEF SelectionChanged, analysisVars, Types, AnalysisTypeOK, StaleOnlyByLateAnswer
  <1>2. CASE selection # selectedRunId
    BY <1>2, LoadAnalysisSound DEF SelectionChanged, Types, ContextTypeOK
  <1> QED
    BY <1>1, <1>2

LEMMA EnterSound ==
  ASSUME Types, LogIsAwaited, RawTabIsHonest, NEW newPage \in Pages,
         Enter(newPage), selectedRunId' = selectedRunId
  PROVE  LogTypeOK' /\ LogIsAwaited' /\ RawTabIsHonest'
  <1>1. CASE newPage = page
    BY <1>1 DEF Enter, logVars, Types, LogTypeOK, LogIsAwaited, RawTabIsHonest
  <1>2. CASE newPage # page
    BY <1>2 DEF Enter, Types, LogTypeOK, LogIsAwaited, RawTabIsHonest
  <1> QED
    BY <1>1, <1>2
-------------------------------------------------------------------------------
(* The invariant *)

LEMMA InvInit == Init => Inv
  <1> SUFFICES ASSUME Init PROVE Inv
    OBVIOUS
  <1>1. Types
    <2>1. server \in Lists
      BY DEF Init
    <2>2. runs \in Lists
      BY DEF Init, Lists, NothingListed, Statuses
    <2>3. listing \in [{"first", "refresh"} -> [state : {"none", "asked", "served"}, list : Lists]]
      BY ListsAreTyped DEF Init
    <2>4. AnalysisTypeOK /\ LogTypeOK
      BY DEF Init, AnalysisTypeOK, LogTypeOK
    <2>5. ContextTypeOK /\ RequestTypeOK
      BY <2>1, <2>2, <2>3 DEF Init, ContextTypeOK, RequestTypeOK
    <2> QED
      BY <2>4, <2>5 DEF Types
  <1>2. LogIsAwaited /\ RawTabIsHonest /\ StaleOnlyByLateAnswer /\ AwaitsCreated
    BY NoRunIsNone DEF Init, NoRequest, LogIsAwaited, RawTabIsHonest, StaleOnlyByLateAnswer, AwaitsCreated
  <1>3. \A r \in Runs : server[r] # "RUNNING"
    BY DEF Init
  <1> QED
    BY <1>1, <1>2, <1>3 DEF Inv, OneIsAwaited

\* A step that leaves the analysis, the log or the run request alone leaves its
\* part of the invariant.
LEMMA AnalysisKept ==
  Inv /\ UNCHANGED <<awaited, late, analysis, isAnalysisLoading, overwritten, selectedRunId>>
      /\ error' \in BOOLEAN
  => AnalysisTypeOK' /\ StaleOnlyByLateAnswer'
  BY DEF Inv, Types, AnalysisTypeOK, StaleOnlyByLateAnswer

LEMMA LogKept ==
  Inv /\ UNCHANGED <<logVars, page, selectedRunId>>
  => LogTypeOK' /\ LogIsAwaited' /\ RawTabIsHonest'
  BY DEF Inv, Types, LogTypeOK, logVars, LogIsAwaited, RawTabIsHonest

LEMMA RequestKept ==
  Inv /\ UNCHANGED <<server, requestVars>>
  => RequestTypeOK' /\ AwaitsCreated' /\ OneIsAwaited'
  BY DEF Inv, Types, RequestTypeOK, requestVars, AwaitsCreated, OneIsAwaited

LEMMA ContextKept ==
  Inv /\ UNCHANGED <<server, contextVars, page, abandoned>> => ContextTypeOK'
  BY DEF Inv, Types, ContextTypeOK, contextVars

LEMMA InvStep == Inv /\ [Next]_vars => Inv'
  <1> SUFFICES ASSUME Inv, [Next]_vars PROVE Inv'
    OBVIOUS
  <1> DEFINE AnalysisPart == AnalysisTypeOK' /\ StaleOnlyByLateAnswer'
             LogPart      == LogTypeOK' /\ LogIsAwaited' /\ RawTabIsHonest'
             RequestPart  == RequestTypeOK' /\ AwaitsCreated' /\ OneIsAwaited'
  <1>0. SUFFICES AnalysisPart /\ LogPart /\ RequestPart /\ ContextTypeOK'
    BY DEF Inv, Types
  <1> USE DEF Inv
  <1>1. CASE RunScenario
    <2>1. AnalysisPart /\ LogPart /\ ContextTypeOK'
      BY <1>1, AnalysisKept, LogKept, ContextKept DEF RunScenario, contextVars
    <2>2. RequestPart
      BY <1>1 DEF RunScenario, MayRun, isRunning, Types, RequestTypeOK, AwaitsCreated, OneIsAwaited
    <2> QED
      BY <2>1, <2>2
  <1>2. ASSUME NEW r \in Runs, SelectRun(r) PROVE Inv'
    <2>1. LogPart
      BY <1>2, FollowSelectionSound DEF SelectRun
    <2>2. AnalysisPart
      BY <1>2, SelectionChangedSound DEF SelectRun
    <2>3. RequestPart /\ ContextTypeOK'
      BY <1>2, RequestKept DEF SelectRun, Types, ContextTypeOK, requestVars
    <2> QED
      BY <2>1, <2>2, <2>3 DEF Types
  <1>3. ASSUME NEW newPage \in Pages, Navigate(newPage) PROVE Inv'
    <2>1. LogPart
      BY <1>3, EnterSound DEF Navigate, contextVars
    <2>2. AnalysisPart /\ RequestPart
      BY <1>3, AnalysisKept, RequestKept
         DEF Navigate, analysisVars, contextVars, Types, AnalysisTypeOK
    <2>3. ContextTypeOK'
      BY <1>3 DEF Navigate, Enter, Types, ContextTypeOK, contextVars, requestVars
    <2> QED
      BY <2>1, <2>2, <2>3 DEF Types
  <1>4. ASSUME NEW newTab \in {"summary", "raw"}, OpenTab(newTab) PROVE Inv'
    <2>1. LogPart
      BY <1>4, LoadLogSound, NoRunIsNone DEF OpenTab, Types, ContextTypeOK, contextVars
    <2>2. AnalysisPart /\ RequestPart /\ ContextTypeOK'
      BY <1>4, AnalysisKept, RequestKept, ContextKept
         DEF OpenTab, analysisVars, contextVars, requestVars, Types, AnalysisTypeOK
    <2> QED
      BY <2>1, <2>2 DEF Types
  <1>5. ASSUME NEW which \in {"first", "refresh"}, ServeList(which) PROVE Inv'
    <2>1. AnalysisPart /\ LogPart /\ ContextTypeOK'
      BY <1>5, AnalysisKept, LogKept, ContextKept
         DEF ServeList, analysisVars, contextVars, Types, AnalysisTypeOK
    <2>2. listing' \in [{"first", "refresh"} -> [state : {"none", "asked", "served"}, list : Lists]]
      BY <1>5 DEF ServeList, Listed, Types, RequestTypeOK, ContextTypeOK
    <2>3. RequestPart
      BY <1>5, <2>2 DEF ServeList, Types, RequestTypeOK, AwaitsCreated, OneIsAwaited
    <2> QED
      BY <2>1, <2>3 DEF Types
  <1>6. CASE FirstLoadAnswered
    <2> DEFINE list == listing["first"].list
               selection == FirstSelected(list)
    <2>1. list \in Lists
      BY DEF Types, RequestTypeOK
    <2>2. /\ selection \in Runs \union {NoRun}
          /\ selection # selectedRunId => selection \in Runs
      BY <2>1, FirstSelectedType DEF Types, ContextTypeOK
    <2>3. /\ runs' = list /\ selectedRunId' = selection /\ scenarios' = TRUE
          /\ latestRun' \in {selection, latestRun}
          /\ listing' = [listing EXCEPT !["first"] = NoRequest]
          /\ LoadAnalysis(selection, list)
          /\ FollowSelection(selection)
          /\ UNCHANGED <<server, runRequest, createdRun, abandoned, page>>
      BY <1>6 DEF FirstLoadAnswered
    <2> HIDE DEF list, selection
    <2>4. AnalysisPart
      BY <2>1, <2>2, <2>3, LoadAnalysisSound
    <2>5. LogPart
      BY <2>2, <2>3, FollowSelectionSound
    <2>6. RequestPart
      BY <2>3, ListsAreTyped DEF Types, RequestTypeOK, AwaitsCreated, OneIsAwaited
    <2>7. ContextTypeOK'
      BY <2>1, <2>2, <2>3 DEF Types, ContextTypeOK
    <2> QED
      BY <2>4, <2>5, <2>6, <2>7
  <1>7. CASE FirstLoadFails
    <2>1. AnalysisPart /\ LogPart /\ ContextTypeOK'
      BY <1>7, AnalysisKept, LogKept, ContextKept DEF FirstLoadFails, contextVars
    <2>2. RequestPart
      BY <1>7, ListsAreTyped
         DEF FirstLoadFails, Types, RequestTypeOK, AwaitsCreated, OneIsAwaited
    <2> QED
      BY <2>1, <2>2
  <1>8. CASE CreateAnswered
    <2>1. createdRun \in Runs
      BY <1>8 DEF CreateAnswered, AwaitsCreated
    <2>2. LogPart
      BY <1>8, <2>1, FollowSelectionSound DEF CreateAnswered
    <2>3. AnalysisPart
      BY <1>8, <2>1, SelectionChangedSound DEF CreateAnswered
    <2>4. listing' \in [{"first", "refresh"} -> [state : {"none", "asked", "served"}, list : Lists]]
      BY <1>8, ListsAreTyped DEF CreateAnswered, Types, RequestTypeOK
    <2>5. RequestPart
      BY <1>8, <2>1, <2>4 DEF CreateAnswered, Types, RequestTypeOK, AwaitsCreated, OneIsAwaited
    <2>6. ContextTypeOK'
      BY <1>8, <2>1 DEF CreateAnswered, Types, ContextTypeOK
    <2> QED
      BY <2>2, <2>3, <2>5, <2>6
  <1>9. CASE CreateFails
    <2>1. AnalysisPart /\ LogPart
      BY <1>9, AnalysisKept, LogKept DEF CreateFails, contextVars
    <2>2. ContextTypeOK'
      BY <1>9 DEF CreateFails, contextVars, Types, ContextTypeOK, RequestTypeOK
    <2>3. RequestPart
      BY <1>9, NoRunIsNone DEF CreateFails, Types, RequestTypeOK, AwaitsCreated, OneIsAwaited
    <2> QED
      BY <2>1, <2>2, <2>3
  <1>10. CASE RefreshAnswered
    <2>1. listing["refresh"].list \in Lists
      BY DEF Types, RequestTypeOK
    <2>2. AnalysisPart
      BY <1>10, <2>1, LoadAnalysisSound DEF RefreshAnswered, Types, ContextTypeOK
    <2>3. LogPart
      BY <1>10, EnterSound DEF RefreshAnswered, Pages
    <2>4. runRequest = "refreshing"
      BY <1>10 DEF RefreshAnswered, AwaitsCreated
    <2>5. OneIsAwaited'
      BY <1>10, <2>4 DEF RefreshAnswered, OneIsAwaited
    <2>6. RequestPart
      BY <1>10, <2>5, ListsAreTyped, NoRunIsNone
         DEF RefreshAnswered, Types, RequestTypeOK, AwaitsCreated, NoRequest
    <2>7. ContextTypeOK'
      BY <1>10, <2>1 DEF RefreshAnswered, Enter, Types, ContextTypeOK, RequestTypeOK, Pages
    <2> QED
      BY <2>2, <2>3, <2>6, <2>7
  <1>11. CASE RefreshFails
    <2>1. AnalysisPart /\ LogPart /\ ContextTypeOK'
      BY <1>11, AnalysisKept, LogKept, ContextKept DEF RefreshFails, contextVars
    <2>2. RequestPart
      BY <1>11, ListsAreTyped, NoRunIsNone
         DEF RefreshFails, Types, RequestTypeOK, AwaitsCreated, OneIsAwaited, NoRequest
    <2> QED
      BY <2>1, <2>2
  <1>12. CASE AnalysisAnswered
    <2>1. LogPart /\ RequestPart /\ ContextTypeOK'
      BY <1>12, LogKept, RequestKept, ContextKept DEF AnalysisAnswered, contextVars, requestVars
    <2>2. AnalysisPart
      BY <1>12, NoRunIsNone
         DEF AnalysisAnswered, contextVars, Types, AnalysisTypeOK, StaleOnlyByLateAnswer
    <2> QED
      BY <2>1, <2>2
  <1>13. ASSUME NEW r \in Runs, LateAnalysisAnswered(r) PROVE Inv'
    <2>1. LogPart /\ RequestPart /\ ContextTypeOK'
      BY <1>13, LogKept, RequestKept, ContextKept
         DEF LateAnalysisAnswered, contextVars, requestVars
    <2>2. late' \in [Runs -> Nat]
      BY <1>13 DEF LateAnalysisAnswered, Types, AnalysisTypeOK
    <2>3. AnalysisPart
      BY <1>13, <2>2 DEF LateAnalysisAnswered, Types, AnalysisTypeOK, StaleOnlyByLateAnswer
    <2> QED
      BY <2>1, <2>3 DEF Types
  <1>14. CASE ServerCreates
    <2>1. AnalysisPart /\ LogPart
      BY <1>14, AnalysisKept, LogKept
         DEF ServerCreates, analysisVars, contextVars, Types, AnalysisTypeOK
    <2>2. PICK r \in Runs : /\ server[r] = "none"
                            /\ server' = [server EXCEPT ![r] = "RUNNING"]
                            /\ createdRun' = r
      BY <1>14 DEF ServerCreates
    <2>3. server' \in Lists
      BY <2>2 DEF Types, ContextTypeOK, Lists, Statuses
    <2>4. ContextTypeOK'
      BY <1>14, <2>3 DEF ServerCreates, contextVars, Types, ContextTypeOK
    <2>5. OneIsAwaited'
      BY <1>14, <2>2 DEF ServerCreates, OneIsAwaited, Types, ContextTypeOK, Lists
    <2>6. RequestPart
      BY <1>14, <2>2, <2>5 DEF ServerCreates, Types, RequestTypeOK, AwaitsCreated
    <2> QED
      BY <2>1, <2>4, <2>6
  <1>15. ASSUME NEW r \in Runs, ServerFinishes(r) PROVE Inv'
    <2>1. AnalysisPart /\ LogPart
      BY <1>15, AnalysisKept, LogKept
         DEF ServerFinishes, analysisVars, contextVars, Types, AnalysisTypeOK
    <2>2. PICK status \in {"COMPLETED", "FAILED"} : server' = [server EXCEPT ![r] = status]
      BY <1>15 DEF ServerFinishes
    <2>3. server' \in Lists
      BY <2>2 DEF Types, ContextTypeOK, Lists, Statuses
    <2>4. ContextTypeOK'
      BY <1>15, <2>3 DEF ServerFinishes, contextVars, requestVars, Types, ContextTypeOK
    <2>5. OneIsAwaited'
      BY <1>15, <2>2 DEF ServerFinishes, requestVars, OneIsAwaited, Types, ContextTypeOK, Lists
    <2>6. RequestPart
      BY <1>15, <2>5 DEF ServerFinishes, requestVars, Types, RequestTypeOK, AwaitsCreated
    <2> QED
      BY <2>1, <2>4, <2>6 DEF Types
  <1>16. ASSUME NEW r \in Runs, LateLogAnswered(r) PROVE Inv'
    <2>1. AnalysisPart /\ RequestPart /\ ContextTypeOK'
      BY <1>16, AnalysisKept, RequestKept, ContextKept
         DEF LateLogAnswered, analysisVars, contextVars, requestVars, Types, AnalysisTypeOK
    <2>2. LogPart
      BY <1>16
         DEF LateLogAnswered, UseLateLog, contextVars, Types, LogTypeOK, LogIsAwaited, RawTabIsHonest
    <2> QED
      BY <2>1, <2>2 DEF Types
  <1>17. CASE LogAnswered
    <2>1. AnalysisPart /\ RequestPart /\ ContextTypeOK'
      BY <1>17, AnalysisKept, RequestKept, ContextKept
         DEF LogAnswered, analysisVars, contextVars, requestVars, Types, AnalysisTypeOK
    <2>2. LogPart
      BY <1>17 DEF LogAnswered, contextVars, Types, LogTypeOK, LogIsAwaited, RawTabIsHonest
    <2> QED
      BY <2>1, <2>2
  <1>18. CASE UNCHANGED vars
    <2>1. AnalysisPart /\ LogPart /\ RequestPart /\ ContextTypeOK'
      BY <1>18, AnalysisKept, LogKept, RequestKept, ContextKept
         DEF vars, analysisVars, contextVars, requestVars, Types, AnalysisTypeOK
    <2> QED
      BY <2>1
  <1> QED
    BY <1>0, <1>1, <1>2, <1>3, <1>4, <1>5, <1>6, <1>7, <1>8, <1>9, <1>10, <1>11, <1>12,
       <1>13, <1>14, <1>15, <1>16, <1>17, <1>18
       DEF Next, User, RunAnswers, AnalysisAnswers, Types

LEMMA Invariance == Spec => []Inv
  BY InvInit, InvStep, PTL DEF Spec

\* Every variable of a tab keeps its type.
THEOREM TypeCorrect == Spec => []TypeOK
  <1>1. Inv => TypeOK
    BY TypesAgree DEF Inv
  <1> QED
    BY Invariance, <1>1, PTL

\* The raw tab shows the selected run's log, an error, or that the selected
\* run's log is on its way.
THEOREM RawTabIsAlwaysHonest == Spec => []RawTabIsHonest
  <1>1. Inv => RawTabIsHonest
    BY DEF Inv
  <1> QED
    BY Invariance, <1>1, PTL

\* Without a late answer, the analysis on screen is the selected run's or is
\* being replaced by it.
THEOREM OnlyLateAnswersAreStale == Spec => []StaleOnlyByLateAnswer
  <1>1. Inv => StaleOnlyByLateAnswer
    BY DEF Inv
  <1> QED
    BY Invariance, <1>1, PTL

\* A tab that waits for its answers has one run under way.
THEOREM TabRunsOneAtATime == Spec => []OneRunAtATime
  <1>1. Inv => OneRunAtATime
    BY DEF Inv, OneIsAwaited, OneRunAtATime
  <1> QED
    BY Invariance, <1>1, PTL
-------------------------------------------------------------------------------
(* The lists that are shown or on their way are no newer than the rows *)

Follows(list) ==
  \A r \in Runs :
    \/ list[r] = "none"
    \/ list[r] = server[r]
    \/ list[r] = "RUNNING" /\ server[r] # "none"

\* No row is added while a refresh is under way, and only an abandoned run's
\* row may change.
IsCurrent(list) ==
  \A r \in Runs :
    \/ list[r] = server[r]
    \/ list[r] = "RUNNING" /\ server[r] # "none" /\ r \in abandoned

ListsInv ==
  /\ Follows(runs)
  /\ listing["first"].state = "served" => Follows(listing["first"].list)
  /\ listing["refresh"].state = "served" => IsCurrent(listing["refresh"].list)

\* Steps that leave the rows, the lists and the requests alone.
listVars == <<server, runs, listing, abandoned>>

LEMMA ListsKept == ListsInv /\ UNCHANGED listVars => ListsInv'
  BY DEF ListsInv, Follows, IsCurrent, listVars

LEMMA ListsStep == Inv /\ ListsInv /\ [Next]_vars => ListsInv'
  <1> SUFFICES ASSUME Inv, ListsInv, [Next]_vars PROVE ListsInv'
    OBVIOUS
  <1>1. CASE UNCHANGED listVars
    BY <1>1, ListsKept
  <1>2. ASSUME NEW which \in {"first", "refresh"}, ServeList(which) PROVE ListsInv'
    BY <1>2 DEF ServeList, Listed, contextVars, ListsInv, Follows, IsCurrent, Inv, Types,
                RequestTypeOK
  <1>3. CASE FirstLoadAnswered
    BY <1>3 DEF FirstLoadAnswered, ListsInv, Follows, IsCurrent, Inv, Types, RequestTypeOK,
                NoRequest
  <1>4. CASE FirstLoadFails
    BY <1>4 DEF FirstLoadFails, contextVars, ListsInv, Follows, IsCurrent, Inv, Types,
                RequestTypeOK, NoRequest
  <1>5. CASE CreateAnswered
    BY <1>5 DEF CreateAnswered, ListsInv, Follows, IsCurrent, Inv, Types, RequestTypeOK, Asked
  <1>6. CASE CreateFails
    BY <1>6 DEF CreateFails, contextVars, ListsInv, Follows, IsCurrent
  <1>7. CASE RefreshAnswered
    <2>1. Follows(runs)'
      BY <1>7 DEF RefreshAnswered, ListsInv, Follows, IsCurrent
    <2> QED
      BY <1>7, <2>1 DEF RefreshAnswered, ListsInv, Follows, IsCurrent, Inv, Types,
                        RequestTypeOK, NoRequest
  <1>8. CASE RefreshFails
    BY <1>8 DEF RefreshFails, contextVars, ListsInv, Follows, IsCurrent, Inv, Types,
                RequestTypeOK, NoRequest
  <1>9. CASE ServerCreates
    <2>1. PICK r \in Runs : server[r] = "none" /\ server' = [server EXCEPT ![r] = "RUNNING"]
      BY <1>9 DEF ServerCreates
    <2>2. listing["refresh"].state # "served"
      BY <1>9 DEF ServerCreates, Inv, AwaitsCreated
    <2>3. \A q \in Runs : server[q] # "none" => server'[q] = server[q]
      BY <2>1 DEF Inv, Types, ContextTypeOK, Lists
    <2> QED
      BY <1>9, <2>2, <2>3 DEF ServerCreates, contextVars, ListsInv, Follows
  <1>10. ASSUME NEW r \in Runs, ServerFinishes(r) PROVE ListsInv'
    <2>1. PICK status \in {"COMPLETED", "FAILED"} :
            server[r] = "RUNNING" /\ server' = [server EXCEPT ![r] = status]
      BY <1>10 DEF ServerFinishes
    <2>2. \A q \in Runs : q # r => server'[q] = server[q]
      BY <2>1 DEF Inv, Types, ContextTypeOK, Lists
    <2>3. server'[r] = status
      BY <2>1 DEF Inv, Types, ContextTypeOK, Lists
    <2>4. listing["refresh"].state = "served" => r \in abandoned
      BY <2>1 DEF Inv, AwaitsCreated, OneIsAwaited
    <2> QED
      BY <1>10, <2>1, <2>2, <2>3, <2>4
         DEF ServerFinishes, requestVars, contextVars, ListsInv, Follows, IsCurrent
  <1> QED
    BY <1>1, <1>2, <1>3, <1>4, <1>5, <1>6, <1>7, <1>8, <1>9, <1>10
       DEF Next, User, RunAnswers, AnalysisAnswers, listVars, vars, requestVars, contextVars,
           RunScenario, SelectRun, Navigate, OpenTab, AnalysisAnswered, LateAnalysisAnswered,
           LateLogAnswered, LogAnswered

LEMMA ListsInit == Init => ListsInv
  BY DEF Init, ListsInv, Follows, NothingListed, Asked, NoRequest

\* A run leaves the list or goes back in it only when the first load's answer
\* comes late.
THEOREM ListOnlyGoesForward == Spec => ListGoesBackOnlyAtFirstLoad
  <1> DEFINE Forward == \A r \in Runs :
               \/ runs'[r] = runs[r]
               \/ runs[r] = "none"
               \/ runs'[r] # "none" /\ (runs[r] = "RUNNING" \/ r \in abandoned)
               \/ listing["first"] # NoRequest /\ listing'["first"] = NoRequest
  <1>1. Inv /\ ListsInv /\ [Next]_vars => [Forward]_vars
    <2> SUFFICES ASSUME Inv, ListsInv, [Next]_vars PROVE Forward
      OBVIOUS
    <2>1. CASE UNCHANGED runs
      BY <2>1
    <2>2. CASE FirstLoadAnswered
      BY <2>2 DEF FirstLoadAnswered, NoRequest, Inv, Types, RequestTypeOK
    <2>3. CASE RefreshAnswered
      BY <2>3 DEF RefreshAnswered, ListsInv, Follows, IsCurrent
    <2> QED
      BY <2>1, <2>2, <2>3
         DEF Next, User, RunAnswers, AnalysisAnswers, vars, requestVars, contextVars,
             RunScenario, SelectRun, Navigate, OpenTab, AnalysisAnswered, LateAnalysisAnswered,
             LateLogAnswered, LogAnswered, ServeList, FirstLoadFails, CreateAnswered,
             CreateFails, RefreshFails, ServerCreates, ServerFinishes
  <1>2. Spec => [][Forward]_vars
    BY Invariance, ListsInit, ListsStep, <1>1, PTL DEF Spec
  <1> QED
    BY <1>2 DEF ListGoesBackOnlyAtFirstLoad
===============================================================================
