----------------------------- MODULE FaultInjector -----------------------------
(***************************************************************************)
(* The one fault a configuration may inject.  Once start_after_ms has      *)
(* passed it stays active to the end of the run: every execution of the    *)
(* target is slowed, or the target crashes, or messages from or to the     *)
(* target may be dropped.                                                  *)
(***************************************************************************)
EXTENDS Integers

CONSTANTS
  FaultType,           \* the fault enabled, or "none"
  FaultTarget,         \* target_task
  StartAfter,          \* start_after_ms
  ExtraExecutionTime,  \* extra_execution_time_ms
  DropPercent          \* drop_probability_percent

ASSUME FaultAssumption ==
  /\ FaultType \in {"none", "slow_task", "cpu_spike", "task_crash", "dropped_messages"}
  /\ StartAfter \in Nat
  /\ ExtraExecutionTime \in Nat
  /\ FaultType \in {"slow_task", "cpu_spike"} => ExtraExecutionTime > 0
  /\ DropPercent \in 0..100

\* Mutant: the fault acts at its start only.
Active_AtStart(type, timestamp) == FaultType = type /\ timestamp = StartAfter

Active(type, timestamp) == FaultType = type /\ timestamp >= StartAfter

\* Slow-task and CPU-spike extras are computed apart and added up; one
\* configuration has at most one of them.
ExtraExecutionTimeMs(task, timestamp) ==
  IF task = FaultTarget /\ (Active("slow_task", timestamp) \/ Active("cpu_spike", timestamp))
  THEN ExtraExecutionTime
  ELSE 0

ShouldCrashTask(task, timestamp) ==
  task = FaultTarget /\ Active("task_crash", timestamp)

\* What shouldDropMessage may answer: the draw against the probability is free
\* except at 0 and 100 percent.
ShouldDropMessage(source, target, timestamp) ==
  IF ~Active("dropped_messages", timestamp) \/ FaultTarget \notin {source, target}
     \/ DropPercent <= 0
  THEN {FALSE}
  ELSE IF DropPercent >= 100 THEN {TRUE} ELSE BOOLEAN
================================================================================
