------------------------------ MODULE RunService ------------------------------
(***************************************************************************)
(* The backend's run orchestration.  Each POST /api/runs is a thread that  *)
(* saves a row, starts the runtime as a process and waits for it, copies   *)
(* the log the runtime wrote, has it analyzed and saves the outcome.  All  *)
(* runtimes write to one active log, which each truncates when it opens    *)
(* it and then writes at its own offset.  The backend may stop at any      *)
(* point, with its processes, and start again; a stop may first interrupt  *)
(* the threads that wait.                                                  *)
(*                                                                         *)
(* A log is the sequence of the runs that wrote its lines.                 *)
(***************************************************************************)
EXTENDS Integers, Sequences, FiniteSets

CONSTANTS
  Runs,         \* the run ids handed out, one per request
  Lines,        \* lines a runtime writes in a full execution
  Serialized,   \* clients wait for an answer before they ask again
  Hole,         \* what a file holds where nothing was written
  NoLog         \* a file that does not exist

ASSUME RunServiceAssumption ==
  /\ Lines \in Nat \ {0}
  /\ Serialized \in BOOLEAN
  /\ Hole \notin Runs
  /\ NoLog \notin Seq(Runs \union {Hole})

VARIABLES
  backend,      \* "up", "stopping" or "down"
  pc,           \* where the thread of each request is
  row,          \* status of each run in the database
  process,      \* state of each run's runtime process
  offset,       \* lines each runtime has written
  active_log,   \* logs/runtime_logs.jsonl
  run_log,      \* runs/<runId>/runtime_logs.jsonl of each run
  analyzed      \* the log each completed row's analysis was made from

fileVars == <<active_log, run_log>>
vars == <<backend, pc, row, process, offset, fileVars, analyzed>>

Log == Seq(Runs \union {Hole})
OwnLog(r) == [i \in 1..Lines |-> r]

InFlight(r) == pc[r] \in {"start", "waiting", "analyze"}
Alive(r) == process[r] \in {"started", "writing"}

Init ==
  /\ backend = "up"
  /\ pc = [r \in Runs |-> "new"]
  /\ row = [r \in Runs |-> "none"]
  /\ process = [r \in Runs |-> "none"]
  /\ offset = [r \in Runs |-> 0]
  /\ active_log = NoLog
  /\ run_log = [r \in Runs |-> NoLog]
  /\ analyzed = [r \in Runs |-> NoLog]
-------------------------------------------------------------------------------
(* The request thread *)

\* The client asks; a client that waits has no other request under way.
MayAsk == Serialized => \A r \in Runs : ~InFlight(r)

\* createRun saves the row before it runs anything.
CreateRun(r) ==
  /\ backend = "up"
  /\ pc[r] = "new"
  /\ MayAsk
  /\ pc' = [pc EXCEPT ![r] = "start"]
  /\ row' = [row EXCEPT ![r] = "RUNNING"]
  /\ UNCHANGED <<backend, process, offset, fileVars, analyzed>>

\* The outcome is saved and answered, or the save fails and the exception is
\* not caught: the request ends and the row stays as it is.
Answer(r, status) ==
  \/ /\ row' = [row EXCEPT ![r] = status]
     /\ pc' = [pc EXCEPT ![r] = "answered"]
  \/ /\ UNCHANGED row
     /\ pc' = [pc EXCEPT ![r] = "aborted"]

MarkFailed(r) == Answer(r, "FAILED") /\ UNCHANGED analyzed

\* The directories are made and the process is started; a missing binary,
\* configuration or directory is an IOException.
StartRuntime(r) ==
  /\ backend # "down"
  /\ pc[r] = "start"
  /\ \/ /\ process' = [process EXCEPT ![r] = "started"]
        /\ pc' = [pc EXCEPT ![r] = "waiting"]
        /\ UNCHANGED <<row, analyzed>>
     \/ MarkFailed(r) /\ UNCHANGED process
  /\ UNCHANGED <<backend, offset, fileVars>>

\* Mutants: there is no timeout; a timeout comes after the answer; a runtime
\* that timed out is left running.
TimeOut_None(r) == FALSE
TimeOut_Late(r) ==
  /\ backend # "down"
  /\ pc[r] \in {"waiting", "answered"}
  /\ process' = [process EXCEPT ![r] = IF Alive(r) THEN "killed" ELSE @]
  /\ MarkFailed(r)
  /\ UNCHANGED <<backend, offset, fileVars>>
TimeOut_LeftRunning(r) ==
  /\ backend # "down"
  /\ pc[r] = "waiting"
  /\ MarkFailed(r)
  /\ UNCHANGED <<backend, process, offset, fileVars>>

\* waitFor returns without the process having ended: it is killed.  One that
\* ends in that instant is no different.
TimeOut(r) ==
  /\ backend # "down"
  /\ pc[r] = "waiting"
  /\ process' = [process EXCEPT ![r] = IF Alive(r) THEN "killed" ELSE @]
  /\ MarkFailed(r)
  /\ UNCHANGED <<backend, offset, fileVars>>

\* An interrupt of the waiting thread leaves the process alone.
Interrupt(r) ==
  /\ backend = "stopping"
  /\ pc[r] = "waiting"
  /\ MarkFailed(r)
  /\ UNCHANGED <<backend, process, offset, fileVars>>

\* The runtime ended with an error.
RuntimeFailed(r) ==
  /\ backend # "down"
  /\ pc[r] = "waiting"
  /\ process[r] = "failed"
  /\ MarkFailed(r)
  /\ UNCHANGED <<backend, process, offset, fileVars>>

\* Mutant: the log is copied without waiting for the runtime to end.
HasSucceeded_Started(r) == process[r] \in {"writing", "succeeded"}

HasSucceeded(r) == process[r] = "succeeded"

\* The runtime succeeded: the active log, as it is now, is copied to the run's
\* directory.  A log that is missing or a copy that fails leaves no file there.
CopyLog(r) ==
  /\ backend # "down"
  /\ pc[r] = "waiting"
  /\ HasSucceeded(r)
  /\ \/ /\ run_log' = [run_log EXCEPT ![r] = active_log]
        /\ pc' = [pc EXCEPT ![r] = "analyze"]
        /\ UNCHANGED <<row, analyzed>>
     \/ MarkFailed(r) /\ UNCHANGED run_log
  /\ UNCHANGED <<backend, process, offset, active_log>>

\* Mutant: the analyzer reads the active log.
AnalyzedLog_Active(r) == active_log

\* The log the analyzer is run on.
AnalyzedLog(r) == run_log[r]

\* The analyzer is run on the copy and its report is parsed: the run completes,
\* or the analyzer fails, is killed at the timeout or is interrupted, or the
\* parser throws what is not caught.
Analyze(r) ==
  /\ backend # "down"
  /\ pc[r] = "analyze"
  /\ \/ /\ Answer(r, "COMPLETED")
        /\ analyzed' = IF row'[r] = "COMPLETED"
                       THEN [analyzed EXCEPT ![r] = AnalyzedLog(r)]
                       ELSE analyzed
     \/ MarkFailed(r)
  /\ UNCHANGED <<backend, process, offset, fileVars>>
-------------------------------------------------------------------------------
(* The runtime process *)

\* The active log when a runtime has opened it.
Opened == <<>>

OpenLog(r) ==
  /\ process[r] = "started"
  /\ process' = [process EXCEPT ![r] = "writing"]
  /\ active_log' = Opened
  /\ UNCHANGED <<backend, pc, row, offset, run_log, analyzed>>

\* A file after a line was written at an offset; a gap before it is a hole.
Written(log, at, r) ==
  [i \in 1..(IF Len(log) > at THEN Len(log) ELSE at + 1) |->
     IF i = at + 1 THEN r ELSE IF i <= Len(log) THEN log[i] ELSE Hole]

WriteLine(r) ==
  /\ process[r] = "writing"
  /\ offset[r] < Lines
  /\ active_log' = Written(active_log, offset[r], r)
  /\ offset' = [offset EXCEPT ![r] = @ + 1]
  /\ UNCHANGED <<backend, pc, row, process, run_log, analyzed>>

\* The runtime ends: well, once it has written everything, or at any time with
\* an error.
Exit(r) ==
  /\ \/ /\ process[r] = "writing" /\ offset[r] = Lines
        /\ process' = [process EXCEPT ![r] = "succeeded"]
     \/ /\ Alive(r)
        /\ process' = [process EXCEPT ![r] = "failed"]
  /\ UNCHANGED <<backend, pc, row, offset, fileVars, analyzed>>
-------------------------------------------------------------------------------
(* The backend itself *)

BeginShutdown ==
  /\ backend = "up"
  /\ backend' = "stopping"
  /\ UNCHANGED <<pc, row, process, offset, fileVars, analyzed>>

\* The container stops, after a shutdown or by a crash, and every process in it.
Stop ==
  /\ backend # "down"
  /\ backend' = "down"
  /\ pc' = [r \in Runs |-> IF InFlight(r) THEN "aborted" ELSE pc[r]]
  /\ process' = [r \in Runs |-> IF Alive(r) THEN "killed" ELSE process[r]]
  /\ UNCHANGED <<row, offset, fileVars, analyzed>>

\* It starts again: the run directories are on a volume, the active log is not.
\* Nothing looks for the rows that were left RUNNING.
Restart ==
  /\ backend = "down"
  /\ backend' = "up"
  /\ active_log' \in {active_log, NoLog}
  /\ UNCHANGED <<pc, row, process, offset, run_log, analyzed>>

Handle(r) ==
  \/ StartRuntime(r) \/ TimeOut(r) \/ Interrupt(r)
  \/ RuntimeFailed(r) \/ CopyLog(r) \/ Analyze(r)
Execute(r) == OpenLog(r) \/ WriteLine(r) \/ Exit(r)

Next ==
  \/ \E r \in Runs : CreateRun(r) \/ Handle(r) \/ Execute(r)
  \/ BeginShutdown \/ Stop \/ Restart

\* A request's thread goes on, and a wait ends at the timeout at the latest;
\* nothing is assumed of the runtime.
Fairness == \A r \in Runs : WF_vars(Handle(r))

Spec == Init /\ [][Next]_vars /\ Fairness
-------------------------------------------------------------------------------
TypeOK ==
  /\ backend \in {"up", "stopping", "down"}
  /\ pc \in [Runs -> {"new", "start", "waiting", "analyze", "answered", "aborted"}]
  /\ row \in [Runs -> {"none", "RUNNING", "COMPLETED", "FAILED"}]
  /\ process \in [Runs -> {"none", "started", "writing", "succeeded", "failed", "killed"}]
  /\ offset \in [Runs -> 0..Lines]
  /\ active_log \in Log \union {NoLog}
  /\ run_log \in [Runs -> Log \union {NoLog}]
  /\ analyzed \in [Runs -> Log \union {NoLog}]

\* A run's archived log is its own: every line is its, and none is missing.
\* It takes clients that wait; the code itself does not keep runs apart.
RunLogIsOwn == \A r \in Runs : run_log[r] \in {NoLog, OwnLog(r)}

\* The analysis stored with a completed run is the analysis of the log that is
\* shown with it, whatever the two contain, and only a completed run has one.
AnalysisMatchesLog ==
  \A r \in Runs :
    IF row[r] = "COMPLETED"
    THEN run_log[r] # NoLog /\ analyzed[r] = run_log[r]
    ELSE analyzed[r] = NoLog

\* No process outlives its request while the backend takes new ones: killed at
\* the timeout, waited for, or stopped with the backend.
NoOrphans == backend = "up" => \A r \in Runs : Alive(r) => pc[r] = "waiting"

\* A run that completed or failed never changes again: neither its status, nor
\* its log, nor its analysis, across other runs, crashes and restarts.
FinalRunsStay ==
  [][\A r \in Runs :
       row[r] \in {"COMPLETED", "FAILED"} =>
         /\ row'[r] = row[r]
         /\ run_log'[r] = run_log[r]
         /\ analyzed'[r] = analyzed[r]]_vars

Lifecycle == INSTANCE RunLifecycle WITH
  status <- row,
  log <- analyzed

\* With clients that wait, the service is the lifecycle a client expects.
ImplementsLifecycle == Lifecycle!Spec

\* Every request ends, although a runtime may hang.
EveryRequestEnds == \A r \in Runs : InFlight(r) ~> ~InFlight(r)

-------------------------------------------------------------------------------
(* What the documentation says and the code does not ensure. *)

\* A run is marked COMPLETED or FAILED in the end (the run storage flow).
EveryRunIsDecided ==
  \A r \in Runs : row[r] = "RUNNING" ~> row[r] \in {"COMPLETED", "FAILED"}
===============================================================================
