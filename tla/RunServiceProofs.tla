--------------------------- MODULE RunServiceProofs ---------------------------
(***************************************************************************)
(* What the run service ensures for any number of runs, interleaved in any *)
(* way and across stops of the backend, and what it ensures in addition if *)
(* its clients wait for their answers.                                     *)
(***************************************************************************)
EXTENDS RunService, SequenceTheorems, TLAPS

\* How the thread, the row, the process and the files of one run go together.
RunInv(r) ==
  /\ pc[r] = "new" <=> row[r] = "none"
  /\ InFlight(r) \/ pc[r] = "aborted" => row[r] = "RUNNING"
  /\ pc[r] \in {"new", "start"} => process[r] = "none"
  /\ process[r] \in {"none", "started"} => offset[r] = 0
  /\ \/ process[r] = "writing"
     \/ pc[r] = "waiting" /\ process[r] = "succeeded"
     => active_log # NoLog
  /\ pc[r] = "analyze" => process[r] = "succeeded" /\ run_log[r] # NoLog
  /\ Alive(r) => \/ pc[r] = "waiting" /\ backend # "down"
                 \/ pc[r] \in {"answered", "aborted"} /\ backend = "stopping"
  /\ backend = "down" => ~InFlight(r)

IInv == TypeOK /\ AnalysisMatchesLog /\ \A r \in Runs : RunInv(r)

LEMMA LogFacts ==
  /\ NoLog \notin Log
  /\ <<>> \in Log
  /\ \A r \in Runs : OwnLog(r) \in Log
  BY RunServiceAssumption DEF Log, OwnLog

LEMMA WrittenIsLog ==
  ASSUME NEW log \in Log \union {NoLog}, NEW at \in Nat, NEW r \in Runs, log # NoLog
  PROVE  Written(log, at, r) \in Log
  BY DEF Written, Log

LEMMA InitInv == Init => IInv
  BY RunServiceAssumption DEF Init, IInv, TypeOK, AnalysisMatchesLog, RunInv, InFlight, Alive

LEMMA CreateRunInv == ASSUME IInv, NEW r \in Runs, CreateRun(r) PROVE IInv'
<1> USE DEF CreateRun, fileVars
<1>1. TypeOK'
  BY RunServiceAssumption DEF IInv, TypeOK, RunInv
<1>2. AnalysisMatchesLog'
  BY DEF IInv, TypeOK, AnalysisMatchesLog, RunInv, InFlight
<1>3. ASSUME NEW q \in Runs PROVE RunInv(q)'
  BY <1>3 DEF IInv, TypeOK, RunInv, InFlight, Alive
<1>4. QED
  BY <1>1, <1>2, <1>3 DEF IInv

LEMMA StartRuntimeInv == ASSUME IInv, NEW r \in Runs, StartRuntime(r) PROVE IInv'
<1> USE DEF StartRuntime, MarkFailed, Answer, fileVars
<1>1. TypeOK'
  BY RunServiceAssumption DEF IInv, TypeOK, RunInv
<1>2. AnalysisMatchesLog'
  BY DEF IInv, TypeOK, AnalysisMatchesLog, RunInv, InFlight
<1>3. ASSUME NEW q \in Runs PROVE RunInv(q)'
  BY <1>3 DEF IInv, TypeOK, RunInv, InFlight, Alive
<1>4. QED
  BY <1>1, <1>2, <1>3 DEF IInv

LEMMA TimeOutInv == ASSUME IInv, NEW r \in Runs, TimeOut(r) PROVE IInv'
<1> USE DEF TimeOut, MarkFailed, Answer, fileVars
<1>1. TypeOK'
  BY RunServiceAssumption DEF IInv, TypeOK, RunInv
<1>2. AnalysisMatchesLog'
  BY DEF IInv, TypeOK, AnalysisMatchesLog, RunInv, InFlight
<1>3. ASSUME NEW q \in Runs PROVE RunInv(q)'
  BY <1>3 DEF IInv, TypeOK, RunInv, InFlight, Alive
<1>4. QED
  BY <1>1, <1>2, <1>3 DEF IInv

LEMMA InterruptInv == ASSUME IInv, NEW r \in Runs, Interrupt(r) PROVE IInv'
<1> USE DEF Interrupt, MarkFailed, Answer, fileVars
<1>1. TypeOK'
  BY RunServiceAssumption DEF IInv, TypeOK, RunInv
<1>2. AnalysisMatchesLog'
  BY DEF IInv, TypeOK, AnalysisMatchesLog, RunInv, InFlight
<1>3. ASSUME NEW q \in Runs PROVE RunInv(q)'
  BY <1>3 DEF IInv, TypeOK, RunInv, InFlight, Alive
<1>4. QED
  BY <1>1, <1>2, <1>3 DEF IInv

LEMMA RuntimeFailedInv == ASSUME IInv, NEW r \in Runs, RuntimeFailed(r) PROVE IInv'
<1> USE DEF RuntimeFailed, MarkFailed, Answer, fileVars
<1>1. TypeOK'
  BY RunServiceAssumption DEF IInv, TypeOK, RunInv
<1>2. AnalysisMatchesLog'
  BY DEF IInv, TypeOK, AnalysisMatchesLog, RunInv, InFlight
<1>3. ASSUME NEW q \in Runs PROVE RunInv(q)'
  BY <1>3 DEF IInv, TypeOK, RunInv, InFlight, Alive
<1>4. QED
  BY <1>1, <1>2, <1>3 DEF IInv

LEMMA CopyLogInv == ASSUME IInv, NEW r \in Runs, CopyLog(r) PROVE IInv'
<1> USE DEF CopyLog, HasSucceeded, MarkFailed, Answer, fileVars
<1>1. TypeOK'
  BY RunServiceAssumption DEF IInv, TypeOK, RunInv
<1>2. AnalysisMatchesLog'
  BY DEF IInv, TypeOK, AnalysisMatchesLog, RunInv, InFlight
<1>3. ASSUME NEW q \in Runs PROVE RunInv(q)'
  BY <1>3 DEF IInv, TypeOK, RunInv, InFlight, Alive
<1>4. QED
  BY <1>1, <1>2, <1>3 DEF IInv

LEMMA AnalyzeInv == ASSUME IInv, NEW r \in Runs, Analyze(r) PROVE IInv'
<1> USE DEF Analyze, MarkFailed, Answer, AnalyzedLog, fileVars
<1>1. TypeOK'
  BY RunServiceAssumption DEF IInv, TypeOK, RunInv
<1>2. AnalysisMatchesLog'
  BY DEF IInv, TypeOK, AnalysisMatchesLog, RunInv, InFlight
<1>3. ASSUME NEW q \in Runs PROVE RunInv(q)'
  BY <1>3 DEF IInv, TypeOK, RunInv, InFlight, Alive
<1>4. QED
  BY <1>1, <1>2, <1>3 DEF IInv

LEMMA OpenLogInv == ASSUME IInv, NEW r \in Runs, OpenLog(r) PROVE IInv'
<1> USE DEF OpenLog, Opened, fileVars
<1>1. TypeOK'
  BY RunServiceAssumption, LogFacts DEF IInv, TypeOK, RunInv
<1>2. AnalysisMatchesLog'
  BY DEF IInv, TypeOK, AnalysisMatchesLog, RunInv, InFlight
<1>3. ASSUME NEW q \in Runs PROVE RunInv(q)'
  BY <1>3, LogFacts DEF IInv, TypeOK, RunInv, InFlight, Alive
<1>4. QED
  BY <1>1, <1>2, <1>3 DEF IInv

LEMMA WriteLineInv == ASSUME IInv, NEW r \in Runs, WriteLine(r) PROVE IInv'
<1> USE DEF WriteLine, fileVars
<1>1. TypeOK'
  BY RunServiceAssumption, WrittenIsLog DEF IInv, TypeOK, RunInv
<1>2. AnalysisMatchesLog'
  BY DEF IInv, TypeOK, AnalysisMatchesLog, RunInv, InFlight
<1>3. ASSUME NEW q \in Runs PROVE RunInv(q)'
  <2>1. active_log' # NoLog
    BY LogFacts, WrittenIsLog DEF IInv, TypeOK, RunInv
  <2>2. process'[q] = process[q] /\ pc'[q] = pc[q] /\ row'[q] = row[q]
        /\ run_log'[q] = run_log[q] /\ UNCHANGED backend
    BY <1>3
  <2>3. process[q] \in {"none", "started"} => offset'[q] = offset[q]
    BY <1>3 DEF IInv, TypeOK
  <2>4. QED
    BY <1>3, <2>1, <2>2, <2>3 DEF IInv, TypeOK, RunInv, InFlight, Alive
<1>4. QED
  BY <1>1, <1>2, <1>3 DEF IInv

LEMMA ExitInv == ASSUME IInv, NEW r \in Runs, Exit(r) PROVE IInv'
<1> USE DEF Exit, fileVars
<1>1. TypeOK'
  BY RunServiceAssumption DEF IInv, TypeOK, RunInv
<1>2. AnalysisMatchesLog'
  BY DEF IInv, TypeOK, AnalysisMatchesLog, RunInv, InFlight
<1>3. ASSUME NEW q \in Runs PROVE RunInv(q)'
  BY <1>3 DEF IInv, TypeOK, RunInv, InFlight, Alive
<1>4. QED
  BY <1>1, <1>2, <1>3 DEF IInv

LEMMA BackendInv == ASSUME IInv, BeginShutdown \/ Stop \/ Restart PROVE IInv'
<1> USE DEF BeginShutdown, Stop, Restart, fileVars
<1>1. TypeOK'
  BY DEF IInv, TypeOK, InFlight, Alive
<1>2. AnalysisMatchesLog'
  BY DEF IInv, AnalysisMatchesLog
<1>3. ASSUME NEW q \in Runs PROVE RunInv(q)'
  BY <1>3 DEF IInv, TypeOK, RunInv, InFlight, Alive
<1>4. QED
  BY <1>1, <1>2, <1>3 DEF IInv

LEMMA StepInv == ASSUME IInv, [Next]_vars PROVE IInv'
<1>1. CASE UNCHANGED vars
  BY <1>1 DEF vars, fileVars, IInv, TypeOK, AnalysisMatchesLog, RunInv, InFlight, Alive
<1>2. ASSUME NEW r \in Runs, CreateRun(r) \/ Handle(r) \/ Execute(r) PROVE IInv'
  BY <1>2, CreateRunInv, StartRuntimeInv, TimeOutInv, InterruptInv, RuntimeFailedInv,
     CopyLogInv, AnalyzeInv, OpenLogInv, WriteLineInv, ExitInv DEF Handle, Execute
<1>3. QED
  BY <1>1, <1>2, BackendInv DEF Next

LEMMA Inductive == Spec => []IInv
  BY InitInv, StepInv, PTL DEF Spec

\* Types hold, and a completed run's analysis is that of the log shown with it.
THEOREM TypeCorrect == Spec => []TypeOK
<1>1. IInv => TypeOK
  BY DEF IInv
<1>2. QED
  BY <1>1, Inductive, PTL

\* The analysis stored with a completed run is that of its archived log.
THEOREM AnalysesMatchLogs == Spec => []AnalysisMatchesLog
<1>1. IInv => AnalysisMatchesLog
  BY DEF IInv
<1>2. QED
  BY <1>1, Inductive, PTL

\* No process outlives its request while the backend is up.
THEOREM NoProcessIsOrphaned == Spec => []NoOrphans
<1>1. IInv => NoOrphans
  BY DEF IInv, RunInv, NoOrphans
<1>2. QED
  BY <1>1, Inductive, PTL

\* A final run never changes again.
THEOREM FinalRunsNeverChange == Spec => FinalRunsStay
<1>1. ASSUME IInv, [Next]_vars, NEW q \in Runs, row[q] \in {"COMPLETED", "FAILED"}
      PROVE  /\ row'[q] = row[q]
             /\ run_log'[q] = run_log[q]
             /\ analyzed'[q] = analyzed[q]
  <2>1. ~InFlight(q) /\ pc[q] # "new"
    BY <1>1 DEF IInv, RunInv
  <2>2. CASE BeginShutdown \/ Stop \/ Restart \/ UNCHANGED vars
    BY <2>2 DEF BeginShutdown, Stop, Restart, vars, fileVars
  <2>3. ASSUME NEW r \in Runs, CreateRun(r) \/ Handle(r) \/ Execute(r)
        PROVE  /\ row'[q] = row[q]
               /\ run_log'[q] = run_log[q]
               /\ analyzed'[q] = analyzed[q]
    <3>1. CASE Execute(r)
      BY <3>1 DEF Execute, OpenLog, WriteLine, Exit, fileVars
    <3>2. CASE CreateRun(r) \/ Handle(r)
      <4>1. r # q
        BY <2>1, <3>2 DEF InFlight, CreateRun, Handle, StartRuntime, TimeOut,
           Interrupt, RuntimeFailed, CopyLog, Analyze
      <4>2. QED
        BY <1>1, <3>2, <4>1 DEF IInv, TypeOK, CreateRun, Handle, StartRuntime, TimeOut,
           Interrupt, RuntimeFailed, CopyLog, Analyze, MarkFailed, Answer, fileVars
    <3>3. QED
      BY <2>3, <3>1, <3>2
  <2>4. QED
    BY <1>1, <2>2, <2>3 DEF Next
<1>2. IInv /\ [Next]_vars =>
        [\A r \in Runs :
           row[r] \in {"COMPLETED", "FAILED"} =>
             /\ row'[r] = row[r]
             /\ run_log'[r] = run_log[r]
             /\ analyzed'[r] = analyzed[r]]_vars
  BY <1>1
<1>3. QED
  BY <1>2, Inductive, PTL DEF Spec, FinalRunsStay
-------------------------------------------------------------------------------
(***************************************************************************)
(* Clients that wait.  At most one request is in flight and at most one    *)
(* runtime alive, so that the active log holds what that runtime has       *)
(* written, and all of it once it has succeeded.                           *)
(***************************************************************************)
Busy(r) == InFlight(r) \/ Alive(r)

OwnInv ==
  /\ \A r, q \in Runs : Busy(r) /\ Busy(q) => r = q
  /\ \A r \in Runs :
       /\ process[r] = "writing" => active_log = [i \in 1..offset[r] |-> r]
       /\ pc[r] = "waiting" /\ process[r] = "succeeded" => active_log = OwnLog(r)
  /\ RunLogIsOwn

\* Writing the next line of a log that holds only the writer's lines so far.
LEMMA WrittenNext ==
  ASSUME NEW n \in Nat, NEW r \in Runs
  PROVE  Written([i \in 1..n |-> r], n, r) = [i \in 1..(n + 1) |-> r]
<1> DEFINE log == [i \in 1..n |-> r]
<1>1. log \in Seq(Runs)
  BY SeqDef
<1>2. Len(log) \in Nat /\ DOMAIN log = 1..Len(log)
  BY <1>1, LenProperties
<1>3. DOMAIN log = 1..n
  OBVIOUS
<1>4. Len(log) = n
  BY <1>2, <1>3
<1>5. Written(log, n, r) = [i \in 1..(n + 1) |-> IF i = n + 1 THEN r ELSE IF i <= n THEN log[i] ELSE Hole]
  BY <1>4 DEF Written
<1>6. \A i \in 1..(n + 1) : i # n + 1 => i \in 1..n /\ i <= n
  OBVIOUS
<1>7. QED
  BY <1>5, <1>6

LEMMA InitOwn == Init => OwnInv
  BY DEF Init, OwnInv, RunLogIsOwn, Busy, InFlight, Alive

\* Nobody becomes busy while somebody else is.
LEMMA BusyStep ==
  ASSUME Serialized, IInv, OwnInv, [Next]_vars
  PROVE  \A r, q \in Runs : Busy(r)' /\ Busy(q)' => r = q
<1>1. CASE BeginShutdown \/ Stop \/ Restart \/ UNCHANGED vars
  BY <1>1 DEF IInv, TypeOK, OwnInv, Busy, InFlight, Alive, BeginShutdown, Stop, Restart,
     vars, fileVars
<1>2. ASSUME NEW r \in Runs, Handle(r) \/ Execute(r) PROVE \A q \in Runs : Busy(q)' => Busy(q)
  BY <1>2 DEF IInv, TypeOK, RunInv, Busy, InFlight, Alive, Handle, Execute, StartRuntime, TimeOut,
     Interrupt, RuntimeFailed, CopyLog, Analyze, OpenLog, WriteLine, Exit, MarkFailed, Answer
<1>3. ASSUME NEW r \in Runs, CreateRun(r) PROVE \A q \in Runs : Busy(q)' => q = r
  <2>1. \A q \in Runs : ~InFlight(q) /\ ~Alive(q)
    BY <1>3 DEF IInv, RunInv, InFlight, CreateRun, MayAsk
  <2>2. QED
    BY <1>3, <2>1 DEF IInv, TypeOK, Busy, InFlight, Alive, CreateRun
<1>4. QED
  BY <1>1, <1>2, <1>3 DEF Next, OwnInv

LEMMA OwnStep == ASSUME Serialized, IInv, OwnInv, [Next]_vars PROVE OwnInv'
<1> DEFINE Holds(q) ==
      /\ process[q] = "writing" => active_log = [i \in 1..offset[q] |-> q]
      /\ pc[q] = "waiting" /\ process[q] = "succeeded" => active_log = OwnLog(q)
      /\ run_log[q] \in {NoLog, OwnLog(q)}
<1> SUFFICES ASSUME NEW q \in Runs PROVE Holds(q)'
  BY BusyStep DEF OwnInv, RunLogIsOwn
<1>1. Holds(q)
  BY DEF OwnInv, RunLogIsOwn
<1>2. CASE UNCHANGED vars
  BY <1>1, <1>2 DEF vars, fileVars, OwnLog
<1>3. CASE BeginShutdown \/ Stop
  BY <1>1, <1>3 DEF BeginShutdown, Stop, fileVars, OwnLog, IInv, TypeOK, InFlight
<1>4. CASE Restart
  BY <1>1, <1>4 DEF Restart, OwnLog, IInv, RunInv, InFlight, Alive
<1>5. ASSUME NEW r \in Runs, CreateRun(r) \/ Handle(r), ~CopyLog(r) PROVE Holds(q)'
  BY <1>1, <1>5 DEF IInv, TypeOK, RunInv, OwnLog, Handle, CreateRun, StartRuntime, TimeOut,
     Interrupt, RuntimeFailed, Analyze, MarkFailed, Answer, fileVars, Alive
<1>6. ASSUME NEW r \in Runs, CopyLog(r) PROVE Holds(q)'
  <2>1. active_log = OwnLog(r)
    BY <1>6 DEF OwnInv, CopyLog, HasSucceeded
  <2>2. QED
    BY <1>1, <1>6, <2>1 DEF IInv, TypeOK, CopyLog, MarkFailed, Answer, OwnLog
<1>7. ASSUME NEW r \in Runs, Exit(r) PROVE Holds(q)'
  BY <1>1, <1>7 DEF IInv, TypeOK, OwnLog, Exit, Alive, fileVars
<1>8. ASSUME NEW r \in Runs, OpenLog(r) PROVE Holds(q)'
  <2>1. CASE q = r
    BY <1>1, <1>8, <2>1 DEF IInv, TypeOK, RunInv, OwnLog, OpenLog, Opened
  <2>2. CASE q # r
    BY <1>1, <1>8, <2>2 DEF IInv, TypeOK, OwnInv, Busy, InFlight, Alive, OwnLog, OpenLog
  <2>3. QED
    BY <2>1, <2>2
<1>9. ASSUME NEW r \in Runs, WriteLine(r) PROVE Holds(q)'
  <2>1. CASE q = r
    <3>1. offset[r] \in Nat
      BY RunServiceAssumption DEF IInv, TypeOK
    <3>2. active_log = [i \in 1..offset[r] |-> r]
      BY <1>1, <1>9, <2>1 DEF WriteLine
    <3>3. active_log' = Written([i \in 1..offset[r] |-> r], offset[r], r)
      BY <1>9, <3>2 DEF WriteLine
    <3>4. active_log' = [i \in 1..(offset[r] + 1) |-> r]
      BY <3>1, <3>3, WrittenNext
    <3>5. QED
      BY <1>1, <1>9, <2>1, <3>4 DEF IInv, TypeOK, OwnLog, WriteLine
  <2>2. CASE q # r
    BY <1>1, <1>9, <2>2 DEF IInv, TypeOK, OwnInv, Busy, InFlight, Alive, OwnLog, WriteLine
  <2>3. QED
    BY <2>1, <2>2
<1>10. QED
  BY <1>2, <1>3, <1>4, <1>5, <1>6, <1>7, <1>8, <1>9 DEF Next, Handle, Execute

LEMMA OwnInductive == Serialized /\ Spec => []OwnInv
<1>1. Serialized /\ IInv /\ OwnInv /\ [Next]_vars => OwnInv'
  BY OwnStep
<1>2. CASE Serialized
  BY <1>1, <1>2, InitOwn, Inductive, PTL DEF Spec
<1>3. QED
  BY <1>2

\* With clients that wait, every archived log is its run's own, and complete.
THEOREM SerializedRunsOwnTheirLogs == Serialized /\ Spec => []RunLogIsOwn
<1>1. OwnInv => RunLogIsOwn
  BY DEF OwnInv
<1>2. QED
  BY <1>1, OwnInductive, PTL

LEMMA LifecycleStep ==
  ASSUME IInv, OwnInv, [Next]_vars
  PROVE  [Lifecycle!Next]_(Lifecycle!vars)
<1> USE DEF Lifecycle!Next, Lifecycle!vars
<1>1. CASE BeginShutdown \/ Stop \/ Restart \/ UNCHANGED vars
  BY <1>1 DEF BeginShutdown, Stop, Restart, vars
<1>2. ASSUME NEW r \in Runs, CreateRun(r) PROVE Lifecycle!Create(r)
  BY <1>2 DEF IInv, RunInv, CreateRun, Lifecycle!Create
<1>3. ASSUME NEW r \in Runs, InFlight(r), MarkFailed(r)
      PROVE  Lifecycle!Fail(r) \/ UNCHANGED <<row, analyzed>>
  BY <1>3 DEF IInv, RunInv, MarkFailed, Answer, Lifecycle!Fail
<1>4. ASSUME NEW r \in Runs, Analyze(r)
      PROVE  Lifecycle!Complete(r) \/ Lifecycle!Fail(r) \/ UNCHANGED <<row, analyzed>>
  <2>1. InFlight(r) /\ row[r] = "RUNNING" /\ run_log[r] = OwnLog(r)
    BY <1>4 DEF Analyze, InFlight, IInv, RunInv, OwnInv, RunLogIsOwn
  <2>2. CASE MarkFailed(r)
    BY <1>3, <2>1, <2>2
  <2>3. CASE ~MarkFailed(r)
    BY <1>4, <2>1, <2>3 DEF Analyze, AnalyzedLog, Answer, IInv, TypeOK, Lifecycle!Complete
  <2>4. QED
    BY <2>2, <2>3
<1>5. ASSUME NEW r \in Runs, Handle(r), ~Analyze(r)
      PROVE  Lifecycle!Fail(r) \/ UNCHANGED <<row, analyzed>>
  BY <1>3, <1>5 DEF Handle, InFlight, StartRuntime, TimeOut, Interrupt, RuntimeFailed, CopyLog
<1>6. ASSUME NEW r \in Runs, Execute(r) PROVE UNCHANGED <<row, analyzed>>
  BY <1>6 DEF Execute, OpenLog, WriteLine, Exit
<1>7. QED
  BY <1>1, <1>2, <1>4, <1>5, <1>6 DEF Next

\* With clients that wait, the service implements the lifecycle they expect.
THEOREM SerializedRunsImplementLifecycle == Serialized /\ Spec => ImplementsLifecycle
<1>1. Init => Lifecycle!Init
  BY DEF Init, Lifecycle!Init
<1>2. IInv /\ OwnInv /\ [Next]_vars => [Lifecycle!Next]_(Lifecycle!vars)
  BY LifecycleStep
<1>3. QED
  BY <1>1, <1>2, Inductive, OwnInductive, PTL DEF Spec, ImplementsLifecycle, Lifecycle!Spec
===============================================================================
