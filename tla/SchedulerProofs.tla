---------------------------- MODULE SchedulerProofs ----------------------------
(***************************************************************************)
(* Proofs about the scheduler for every set of tasks, every configuration, *)
(* every fault and every timing of the thread.  The scheduler implements   *)
(* the environment of the watchdog and of the message bus, so that what is *)
(* proved of the two holds of the runtime they are part of.                *)
(***************************************************************************)
EXTENDS Scheduler, SumLemmas, TLAPS

DogTheorems == INSTANCE WatchdogProofs
BusTheorems == INSTANCE MessageBusProofs

Executing(t) == pc \in {"execute", "running"} /\ current = t

-------------------------------------------------------------------------------
(* Types of the thread's own variables *)

LEMMA InitThreadType == Init => ThreadTypeOK
<1> SUFFICES ASSUME Init PROVE ThreadTypeOK
  OBVIOUS
<1>1. current \in Tasks
  BY SchedulerAssumption DEF Init
<1>2. clock = 0
  BY DEF Init, Dog!Init
<1>3. overtaken \in [Tasks -> [Tasks -> Nat]]
  BY DEF Init
<1>4. /\ stall \in 0..MaxStall
      /\ dispatch_time \in [Tasks -> Nat \union {Dog!None}]
      /\ next_run_time \in [Tasks -> Int]
  BY SchedulerAssumption DEF Init
<1>5. QED
  BY <1>1, <1>2, <1>3, <1>4 DEF Init, ThreadTypeOK

LEMMA ThreadTypeStep == ASSUME ThreadTypeOK, [Next]_vars PROVE ThreadTypeOK'
<1> USE SchedulerAssumption DEF ThreadTypeOK, Goto, taskVars, history, threadVars
<1>1. CASE StartCycle
  <2>1. batch' \subseteq Tasks
    BY <1>1 DEF StartCycle
  <2>2. wake_time' \in Nat /\ batch_time' \in Nat /\ pc' \in {"idle", "pick"}
    BY <1>1 DEF StartCycle
  <2>3. ran_task_this_cycle' \in BOOLEAN
    BY <1>1 DEF StartCycle
  <2>4. stall' \in 0..MaxStall
    BY <1>1 DEF StartCycle
  <2>5. UNCHANGED <<current, dispatch_time, total_execution_time, clock, taskVars, overtaken>>
    BY <1>1 DEF StartCycle
  <2>6. QED
    BY <2>1, <2>2, <2>3, <2>4, <2>5
<1>2. CASE Finish
  BY <1>2 DEF Finish
<1>3. CASE EndCycle
  BY <1>3 DEF EndCycle
<1>4. CASE Wake
  BY <1>4 DEF Wake
<1>5. ASSUME NEW task \in Tasks, Dispatch(task) PROVE ThreadTypeOK'
  <2>1. overtaken' \in [Tasks -> [Tasks -> Nat]]
    BY <1>5 DEF Dispatch
  <2>2. QED
    BY <1>5, <2>1 DEF Dispatch, TakeNext
<1>6. ASSUME NEW task \in Tasks, PassOver(task) PROVE ThreadTypeOK'
  BY <1>6 DEF PassOver, TakeNext
<1>7. CASE SkipFailedTask
  BY <1>7 DEF SkipFailedTask, Reschedule, Dog!None
<1>8. CASE CrashTask
  <2>1. dispatch_time[current] + Period[current] \in Int
    BY DEF Dog!None
  <2>2. next_run_time' \in [Tasks -> Int]
    BY <1>8, <2>1 DEF CrashTask, Reschedule
  <2>3. failed_tasks' \subseteq Tasks /\ task_failed' \in [Tasks -> Nat]
    BY <1>8 DEF CrashTask
  <2>4. QED
    BY <1>8, <2>2, <2>3 DEF CrashTask
<1>9. CASE BeginExecution
  <2>1. ExtraExecutionTimeMs(current, clock) \in Nat
    BY FaultAssumption DEF ExtraExecutionTimeMs
  <2>2. total_execution_time' \in Nat
    BY <1>9, <2>1 DEF BeginExecution
  <2>3. QED
    BY <1>9, <2>2 DEF BeginExecution
<1>10. CASE CompleteExecution
  BY <1>10 DEF CompleteExecution, Reschedule, Dog!None
<1>11. CASE Tick
  BY <1>11 DEF Tick
<1>12. CASE UNCHANGED vars
  BY <1>12 DEF vars
<1>13. QED
  BY <1>1, <1>2, <1>3, <1>4, <1>5, <1>6, <1>7, <1>8, <1>9, <1>10, <1>11, <1>12 DEF Next, Step

LEMMA ThreadTypeCorrect == Spec => []ThreadTypeOK
  BY InitThreadType, ThreadTypeStep, PTL DEF Spec
-------------------------------------------------------------------------------
(* The watchdog and the message bus inside the scheduler *)

\* Only a completed execution reaches the watchdog or the bus.
LEMMA OnlyCompletion ==
  ASSUME [Next]_vars
  PROVE  \/ CompleteExecution
         \/ UNCHANGED <<dogVars, busVars>> /\ (Tick \/ UNCHANGED clock)
  BY DEF Next, Step, StartCycle, Finish, EndCycle, Wake, Dispatch, PassOver, SkipFailedTask,
     CrashTask, BeginExecution, Tick, vars

LEMMA WatchdogStep == ASSUME ThreadTypeOK, [Next]_vars PROVE [Dog!Next]_(Dog!vars)
<1> USE DEF Dog!vars, Dog!environmentVars, Dog!watchdogVars, Dog!watchdogMaps, dogVars
<1>1. CASE CompleteExecution
  <2>1. MissedDeadline \in BOOLEAN
    BY DEF MissedDeadline
  <2>2. QED
    BY <1>1, <2>1 DEF CompleteExecution, InspectionTime, Dog!Next, ThreadTypeOK
<1>2. CASE UNCHANGED dogVars /\ Tick
  BY <1>2 DEF Tick, Dog!Next, Dog!Tick
<1>3. CASE UNCHANGED <<dogVars, clock>>
  BY <1>3
<1>4. QED
  BY <1>1, <1>2, <1>3, OnlyCompletion

\* The scheduler is the environment the watchdog relies on.
THEOREM SchedulerFeedsWatchdog == Spec => FeedsWatchdog
<1>1. Init => Dog!Init
  BY DEF Init
<1>2. ThreadTypeOK /\ [Next]_vars => [Dog!Next]_(Dog!vars)
  BY WatchdogStep
<1>3. QED
  BY <1>1, <1>2, ThreadTypeCorrect, PTL DEF Spec, FeedsWatchdog, Dog!Spec

LEMMA BusStep == ASSUME ThreadTypeOK, [Next]_vars PROVE [Bus!BusNext]_(Bus!busVars)
<1> USE DEF Bus!busVars, busVars
<1>1. CASE CompleteExecution
  <2>1. ShouldDropMessage(current, LoggerTask, clock) \subseteq BOOLEAN
    BY DEF ShouldDropMessage
  <2>2. QED
    BY <1>1, <2>1 DEF CompleteExecution, Bus!BusNext, ThreadTypeOK
<1>2. QED
  BY <1>1, OnlyCompletion

LEMMA SchedulerUsesBus == Spec => Bus!BusSpec
<1>1. Init => Bus!BusInit
  BY DEF Init
<1>2. ThreadTypeOK /\ [Next]_vars => [Bus!BusNext]_(Bus!busVars)
  BY BusStep
<1>3. QED
  BY <1>1, <1>2, ThreadTypeCorrect, PTL DEF Spec, Bus!BusSpec
-------------------------------------------------------------------------------
(* What is proved of the two modules holds of the scheduler's use of them. *)

DogAssumption ==
  /\ WatchdogEnabled \in BOOLEAN
  /\ RecoveryEnabled \in BOOLEAN
  /\ MaxConsecutiveMisses \in Nat \ {0}
  /\ RecoveryCooldown \in Nat

\* The proofs are about instances of their own, which say the same.
LEMMA SameWatchdog == Dog!Spec => DogTheorems!Spec
<1>1. Dog!Init => DogTheorems!Init
  BY DEF Dog!Init, DogTheorems!Init, Dog!None, DogTheorems!None
<1>2. [Dog!Next]_(Dog!vars) => [DogTheorems!Next]_(DogTheorems!vars)
  BY DEF Dog!Next, DogTheorems!Next, Dog!vars, DogTheorems!vars,
     Dog!environmentVars, DogTheorems!environmentVars, Dog!watchdogVars, DogTheorems!watchdogVars,
     Dog!watchdogMaps, DogTheorems!watchdogMaps, Dog!Tick, DogTheorems!Tick,
     Dog!Execute, DogTheorems!Execute, Dog!InspectTask, DogTheorems!InspectTask,
     Dog!LogAlert, DogTheorems!LogAlert, Dog!Alerts, DogTheorems!Alerts,
     Dog!Recovers, DogTheorems!Recovers, Dog!ConsecutiveAfter, DogTheorems!ConsecutiveAfter,
     Dog!AllowedAfter, DogTheorems!AllowedAfter, Dog!ConsecutiveMisses,
     DogTheorems!ConsecutiveMisses, Dog!PreviousMissCount, DogTheorems!PreviousMissCount,
     Dog!None, DogTheorems!None
<1>3. QED
  BY <1>1, <1>2, PTL DEF Dog!Spec, DogTheorems!Spec

LEMMA SchedulerIsBusUser == Spec => BusTheorems!BusSpec
<1>1. Bus!BusInit => BusTheorems!BusInit
  BY DEF Bus!BusInit, BusTheorems!BusInit, Bus!Events, BusTheorems!Events
<1>2. [Bus!BusNext]_(Bus!busVars) => [BusTheorems!BusNext]_(BusTheorems!busVars)
  BY DEF Bus!BusNext, BusTheorems!BusNext, Bus!busVars, BusTheorems!busVars,
     Bus!HandleTaskMessaging, BusTheorems!HandleTaskMessaging,
     Bus!SendMessageToLoggerTask, BusTheorems!SendMessageToLoggerTask,
     Bus!ReceiveMessageForTask, BusTheorems!ReceiveMessageForTask,
     Bus!NextSequenceId, BusTheorems!NextSequenceId, Bus!Accepts, BusTheorems!Accepts,
     Bus!Enqueued, BusTheorems!Enqueued, Bus!Dequeued, BusTheorems!Dequeued,
     Bus!Logged, BusTheorems!Logged
<1>3. QED
  BY <1>1, <1>2, SchedulerUsesBus, PTL DEF Bus!BusSpec, BusTheorems!BusSpec

\* Every variable keeps its type.
THEOREM TypeCorrect == Spec => []TypeOK
<1>1. DogAssumption
  BY SchedulerAssumption DEF DogAssumption
<1>2. DogTheorems!Spec => []DogTheorems!TypeOK
  BY <1>1, DogTheorems!TypeCorrect, PTL DEF DogAssumption
<1>3. DogTheorems!TypeOK => Dog!TypeOK
  BY DEF DogTheorems!TypeOK, Dog!TypeOK, DogTheorems!None, Dog!None
<1>4. LoggerTask \notin Producers /\ QueueLimit \in [Tasks -> Nat \ {0}]
  BY SchedulerAssumption
<1>5. BusTheorems!BusSpec => [](BusTheorems!BusTypeOK /\ BusTheorems!Accounting
                               /\ BusTheorems!Ordered /\ BusTheorems!Bounded)
  BY <1>4, BusTheorems!BusInvariant, PTL
<1>6. BusTheorems!BusTypeOK => Bus!BusTypeOK
  BY DEF BusTheorems!BusTypeOK, Bus!BusTypeOK, BusTheorems!Message, Bus!Message,
     BusTheorems!Events, Bus!Events
<1>7. QED
  BY <1>2, <1>3, <1>5, <1>6, ThreadTypeCorrect, SchedulerFeedsWatchdog, SameWatchdog,
     SchedulerIsBusUser, PTL DEF TypeOK, FeedsWatchdog

\* What the watchdog promises holds of every run: a timeout follows enough misses
\* in a row, recoveries are a cooldown apart and long streaks are reported.
THEOREM WatchdogInRuns ==
  Spec => /\ DogTheorems!TimeoutOnlyAfterConsecutiveMisses
          /\ DogTheorems!RecoveriesAreSpaced
          /\ DogTheorems!LongStreakIsReported
<1>1. DogAssumption
  BY SchedulerAssumption DEF DogAssumption
<1>2. DogTheorems!Spec => DogTheorems!TimeoutOnlyAfterConsecutiveMisses
  BY <1>1, DogTheorems!TimeoutsAreEarned, PTL DEF DogAssumption
<1>3. DogTheorems!Spec => DogTheorems!RecoveriesAreSpaced
  BY <1>1, DogTheorems!RecoveriesKeepCooldown, PTL DEF DogAssumption
<1>4. DogTheorems!Spec => DogTheorems!LongStreakIsReported
  BY <1>1, DogTheorems!StreaksAreReported, PTL DEF DogAssumption
<1>5. QED
  BY <1>2, <1>3, <1>4, SchedulerFeedsWatchdog, SameWatchdog, PTL DEF FeedsWatchdog

\* The tasks of a run see the lossy channel the bus promises.
THEOREM SchedulerDeliversInOrder == Spec => DeliversInOrder
<1>1. LoggerTask \notin Producers /\ QueueLimit \in [Tasks -> Nat \ {0}]
  BY SchedulerAssumption
<1>2. BusTheorems!BusSpec => BusTheorems!ImplementsChannel
  BY <1>1, BusTheorems!BusImplementsChannel, PTL
<1>3. BusTheorems!Channel!Init => Bus!Channel!Init
  BY DEF BusTheorems!Channel!Init, Bus!Channel!Init, BusTheorems!Waiting, Bus!Waiting
<1>4. [BusTheorems!Channel!Next]_(BusTheorems!Channel!vars) => [Bus!Channel!Next]_(Bus!Channel!vars)
  BY DEF BusTheorems!Channel!Next, Bus!Channel!Next, BusTheorems!Channel!vars, Bus!Channel!vars,
     BusTheorems!Channel!Produce, Bus!Channel!Produce, BusTheorems!Channel!Deliver,
     Bus!Channel!Deliver, BusTheorems!Waiting, Bus!Waiting
<1>5. QED
  BY <1>2, <1>3, <1>4, SchedulerIsBusUser, PTL
     DEF DeliversInOrder, Bus!ImplementsChannel, BusTheorems!ImplementsChannel,
         Bus!Channel!Spec, BusTheorems!Channel!Spec
-------------------------------------------------------------------------------
(* A late task does not catch up *)

\* A task that is not being executed is next due a period after its dispatch.
Rescheduled ==
  \A t \in Tasks :
    \/ dispatch_time[t] = Dog!None
    \/ Executing(t)
    \/ next_run_time[t] = dispatch_time[t] + Period[t]

LEMMA RescheduledStep == ASSUME ThreadTypeOK, Rescheduled, [Next]_vars PROVE Rescheduled'
<1> USE DEF ThreadTypeOK, Rescheduled, Executing, Goto, taskVars, threadVars
<1>1. CASE StartCycle \/ Finish \/ EndCycle \/ Wake \/ Tick \/ UNCHANGED vars
  BY <1>1 DEF StartCycle, Finish, EndCycle, Wake, Tick, vars
<1>2. ASSUME NEW task \in Tasks, Dispatch(task) \/ PassOver(task) PROVE Rescheduled'
  BY <1>2 DEF Dispatch, PassOver, TakeNext
<1>3. CASE SkipFailedTask \/ CrashTask \/ CompleteExecution
  BY <1>3 DEF SkipFailedTask, CrashTask, CompleteExecution, Reschedule
<1>4. CASE BeginExecution
  BY <1>4 DEF BeginExecution
<1>5. QED
  BY <1>1, <1>2, <1>3, <1>4 DEF Next, Step

LEMMA DispatchSpaced ==
  ASSUME ThreadTypeOK, Rescheduled, [Next]_vars, NEW t \in Tasks,
         dispatch_time'[t] # dispatch_time[t], dispatch_time[t] # Dog!None
  PROVE  dispatch_time'[t] >= dispatch_time[t] + Period[t]
<1>1. PICK task \in Tasks : Dispatch(task)
  BY DEF Next, Step, StartCycle, Finish, EndCycle, Wake, Tick, PassOver, SkipFailedTask,
     CrashTask, BeginExecution, CompleteExecution, vars, threadVars
<1>2. task = t /\ dispatch_time'[t] = clock
  BY <1>1 DEF Dispatch, ThreadTypeOK
<1>3. next_run_time[t] = dispatch_time[t] + Period[t]
  BY <1>1 DEF Dispatch, TakeNext, Rescheduled, Executing
<1>4. QED
  BY <1>1, <1>2, <1>3 DEF Dispatch, ShouldRun

\* Two dispatches of a task are a period apart, however late it was.
THEOREM LateTasksDoNotCatchUp == Spec => DispatchesAreSpaced
<1>1. Init => Rescheduled
  BY DEF Init, Rescheduled
<1>2. ThreadTypeOK /\ Rescheduled /\ [Next]_vars => Rescheduled'
  BY RescheduledStep
<1>3. ThreadTypeOK /\ Rescheduled /\ [Next]_vars =>
        [\A t \in Tasks :
           (dispatch_time'[t] # dispatch_time[t] /\ dispatch_time[t] # Dog!None)
             => dispatch_time'[t] >= dispatch_time[t] + Period[t]]_vars
  BY DispatchSpaced
<1>4. QED
  BY <1>1, <1>2, <1>3, ThreadTypeCorrect, PTL DEF Spec, DispatchesAreSpaced
-------------------------------------------------------------------------------
(* A crashed task stays down *)

CrashInv ==
  /\ pc = "running" => current \notin failed_tasks
  /\ \A t \in Tasks : task_failed[t] = IF t \in failed_tasks THEN 1 ELSE 0

LEMMA CrashStep == ASSUME ThreadTypeOK, CrashInv, [Next]_vars PROVE CrashInv'
<1> USE DEF ThreadTypeOK, CrashInv, Goto, taskVars, threadVars, InFailedState
<1>1. CASE StartCycle \/ Finish \/ EndCycle \/ Wake \/ Tick \/ UNCHANGED vars
  BY <1>1 DEF StartCycle, Finish, EndCycle, Wake, Tick, vars
<1>2. ASSUME NEW task \in Tasks, Dispatch(task) \/ PassOver(task) PROVE CrashInv'
  BY <1>2 DEF Dispatch, PassOver
<1>3. CASE SkipFailedTask \/ CompleteExecution \/ BeginExecution
  BY <1>3 DEF SkipFailedTask, CompleteExecution, BeginExecution
<1>4. CASE CrashTask
  BY <1>4 DEF CrashTask
<1>5. QED
  BY <1>1, <1>2, <1>3, <1>4 DEF Next, Step

\* An execution counts for the current task only.
LEMMA RunCountStep ==
  ASSUME ThreadTypeOK, [Next]_vars, NEW t \in Tasks, run_count \in [Tasks -> Nat]
  PROVE  run_count'[t] = run_count[t] \/ (pc = "running" /\ t = current)
<1>1. CASE CompleteExecution
  BY <1>1 DEF CompleteExecution, Dog!Execute
<1>2. CASE UNCHANGED dogVars
  BY <1>2 DEF dogVars
<1>3. QED
  BY <1>1, <1>2, OnlyCompletion

LEMMA CrashIsFinal ==
  ASSUME ThreadTypeOK, CrashInv, [Next]_vars, NEW t \in failed_tasks
  PROVE  t \in failed_tasks'
  BY DEF Next, Step, StartCycle, Finish, EndCycle, Wake, Tick, Dispatch, PassOver, SkipFailedTask,
     CrashTask, BeginExecution, CompleteExecution, vars, taskVars

\* A crashed task is reported once and never completes an execution again.
THEOREM CrashedTasksAreFinal == Spec => CrashedTasksStayDown
<1>1. Init => CrashInv
  BY DEF Init, CrashInv
<1>2. ThreadTypeOK /\ CrashInv /\ [Next]_vars => CrashInv'
  BY CrashStep
<1>3. TypeOK => run_count \in [Tasks -> Nat]
  BY DEF TypeOK, Dog!TypeOK
<1>4. TypeOK /\ CrashInv /\ CrashInv' /\ [Next]_vars =>
        [\A t \in Tasks :
           /\ t \in failed_tasks =>
                /\ t \in failed_tasks'
                /\ run_count'[t] = run_count[t]
           /\ task_failed'[t] = IF t \in failed_tasks' THEN 1 ELSE 0]_vars
  BY <1>3, RunCountStep, CrashIsFinal DEF TypeOK, CrashInv
<1>5. QED
  BY <1>1, <1>2, <1>4, TypeCorrect, ThreadTypeCorrect, PTL DEF Spec, CrashedTasksStayDown
-------------------------------------------------------------------------------
(* A cycle ranks what it knows in order *)

InCycle == pc \in {"pick", "execute", "running"}

\* Whatever was due when the batch was taken is in it still, or was dispatched
\* and rescheduled; the clock and the dispatches are not older than the batch.
BatchInv ==
  InCycle =>
    /\ batch_time <= clock
    /\ pc \in {"execute", "running"} => dispatch_time[current] >= batch_time
    /\ \A u \in Tasks : next_run_time[u] <= batch_time => u \in batch \/ Executing(u)

LEMMA LaterByAPeriod ==
  ASSUME NEW dispatched \in Int, NEW period \in Nat \ {0}, NEW taken \in Nat,
         dispatched >= taken
  PROVE  dispatched + period > taken
  OBVIOUS

LEMMA BatchStep == ASSUME ThreadTypeOK, BatchInv, [Next]_vars PROVE BatchInv'
<1> USE SchedulerAssumption
        DEF ThreadTypeOK, BatchInv, InCycle, Executing, Goto, taskVars, threadVars, history
<1>1. CASE StartCycle
  BY <1>1 DEF StartCycle, ShouldRun
<1>2. CASE Finish \/ EndCycle \/ Wake \/ Tick \/ UNCHANGED vars
  BY <1>2 DEF Finish, EndCycle, Wake, Tick, vars
<1>3. ASSUME NEW task \in Tasks, Dispatch(task) PROVE BatchInv'
  BY <1>3 DEF Dispatch, TakeNext
<1>4. ASSUME NEW task \in Tasks, PassOver(task) PROVE BatchInv'
  BY <1>4 DEF PassOver, TakeNext, ShouldRun
<1>5. CASE SkipFailedTask \/ CrashTask \/ CompleteExecution
  <2>1. dispatch_time[current] + Period[current] > batch_time
    <3>1. dispatch_time[current] >= batch_time
      BY <1>5 DEF SkipFailedTask, CrashTask, CompleteExecution
    <3>2. dispatch_time[current] \in Int /\ Period[current] \in Nat \ {0} /\ batch_time \in Nat
      BY DEF Dog!None
    <3>3. QED
      BY <3>1, <3>2, LaterByAPeriod
  <2>2. next_run_time' = [next_run_time EXCEPT ![current] = dispatch_time[current] + Period[current]]
    BY <1>5 DEF SkipFailedTask, CrashTask, CompleteExecution, Reschedule
  <2>3. pc' = "pick" /\ UNCHANGED <<batch, batch_time, clock, current>>
    BY <1>5 DEF SkipFailedTask, CrashTask, CompleteExecution
  <2>4. pc \in {"execute", "running"}
    BY <1>5 DEF SkipFailedTask, CrashTask, CompleteExecution
  <2>5. ASSUME NEW u \in Tasks, next_run_time'[u] <= batch_time PROVE u \in batch
    <3>1. u # current
      BY <2>1, <2>2, <2>5 DEF Dog!None
    <3>2. next_run_time[u] <= batch_time
      BY <2>2, <2>5, <3>1
    <3>3. QED
      BY <2>4, <3>1, <3>2
  <2>6. QED
    BY <2>3, <2>4, <2>5
<1>6. CASE BeginExecution
  BY <1>6 DEF BeginExecution
<1>7. QED
  BY <1>1, <1>2, <1>3, <1>4, <1>5, <1>6 DEF Next, Step

\* The head of the batch is no less urgent than the rest of it.
LEMMA HeadIsMostUrgent ==
  ASSUME ThreadTypeOK, NEW task \in Tasks, NEW u \in Tasks, Precedes(task, u)
  PROVE  ~MoreUrgent(u, task)
<1>1. \A t \in Tasks : Priority[t] \in Int /\ next_run_time[t] + Deadline[t] \in Int
  BY SchedulerAssumption DEF ThreadTypeOK
<1>2. CASE Mode = "round_robin"
  BY <1>2 DEF MoreUrgent
<1>3. CASE Mode = "priority"
  <2>1. HigherPriority(task, u)
    BY <1>3 DEF Precedes
  <2>2. QED
    BY <1>1, <1>3, <2>1 DEF HigherPriority, MoreUrgent
<1>4. CASE Mode = "earliest_deadline_first"
  <2>1. \/ AbsoluteDeadline(task) < AbsoluteDeadline(u)
        \/ AbsoluteDeadline(task) = AbsoluteDeadline(u) /\ HigherPriority(task, u)
    BY <1>4 DEF Precedes
  <2>2. QED
    BY <1>1, <1>4, <2>1 DEF HigherPriority, AbsoluteDeadline, MoreUrgent
<1>5. QED
  BY <1>2, <1>3, <1>4, SchedulerAssumption

LEMMA DispatchInOrder ==
  ASSUME ThreadTypeOK, BatchInv, [Next]_vars, pc = "pick", pc' = "execute",
         NEW u \in Tasks \ {current'}, MoreUrgent(u, current')
  PROVE  next_run_time[u] > batch_time
<1>1. PICK task \in Tasks : Dispatch(task)
  BY DEF Next, Step, StartCycle, Finish, EndCycle, Wake, Tick, PassOver, SkipFailedTask, CrashTask,
     BeginExecution, CompleteExecution, vars, threadVars, Goto
<1>2. current' = task
  BY <1>1 DEF Dispatch
<1>3. u \notin batch
  BY <1>1, <1>2, HeadIsMostUrgent DEF Dispatch, TakeNext
<1>4. QED
  BY <1>3 DEF BatchInv, InCycle, Executing, ThreadTypeOK

\* Only a task that became due after the batch was taken is passed by one that
\* is less urgent.
THEOREM BatchesAreInOrder == Spec => InversionOnlyByLateArrival
<1>1. Init => BatchInv
  BY DEF Init, BatchInv, InCycle
<1>2. ThreadTypeOK /\ BatchInv /\ [Next]_vars => BatchInv'
  BY BatchStep
<1>3. ThreadTypeOK /\ BatchInv /\ [Next]_vars =>
        [pc = "pick" /\ pc' = "execute" =>
           \A u \in Tasks \ {current'} :
             ShouldRun(u) /\ MoreUrgent(u, current') => next_run_time[u] > batch_time]_vars
  BY DispatchInOrder
<1>4. QED
  BY <1>1, <1>2, <1>3, ThreadTypeCorrect, PTL DEF Spec, InversionOnlyByLateArrival
-------------------------------------------------------------------------------
(***************************************************************************)
(* No task starves.  How often u may have been dispatched ahead of t       *)
(* depends on which of the two the cycle still holds.  In round-robin mode *)
(* a task that comes after t was passed ahead of it at most in the cycle   *)
(* that passed over t, one that comes before it at most in this cycle.  In *)
(* the other modes u counts once for a cycle taken before t was due and    *)
(* once for the cycle that holds t.                                        *)
(***************************************************************************)
Comes(t, u) == ConfigIndex[t] < ConfigIndex[u]

Allowed(t, u) ==
  CASE Mode = "round_robin" /\ Comes(t, u) -> IF t \in batch \/ u \notin batch THEN 1 ELSE 0
    [] Mode = "round_robin" /\ ~Comes(t, u) -> IF t \in batch /\ u \notin batch THEN 1 ELSE 0
    [] Mode # "round_robin" ->
         (IF t \in batch THEN 1 ELSE 0) + (IF u \in batch THEN 0 ELSE 1)

\* The batch is what is left of a cycle.
BatchShape ==
  /\ pc \in {"loop", "idle", "done"} => batch = {}
  /\ Mode = "round_robin" => \A t \in batch, u \in Tasks : Comes(t, u) => u \in batch

\* A task that is not due, or is being executed, waits for nobody.
NotWaiting ==
  /\ \A t \in Tasks : overtaken[t][t] = 0
  /\ \A t, u \in Tasks : ~ShouldRun(t) \/ Executing(t) => overtaken[t][u] = 0

WithinAllowed ==
  clock < Duration => \A t, u \in Tasks : t # u => overtaken[t][u] <= Allowed(t, u)

LEMMA ComesTotal ==
  ASSUME NEW t \in Tasks, NEW u \in Tasks
  PROVE  /\ ~(Comes(t, u) /\ Comes(u, t))
         /\ t # u => Comes(t, u) \/ Comes(u, t)
<1>1. ConfigIndex[t] \in Nat /\ ConfigIndex[u] \in Nat
  BY SchedulerAssumption
<1>2. t # u => ConfigIndex[t] # ConfigIndex[u]
  BY SchedulerAssumption
<1>3. QED
  BY <1>1, <1>2 DEF Comes

LEMMA BatchShapeStep == ASSUME ThreadTypeOK, BatchShape, [Next]_vars PROVE BatchShape'
<1> USE SchedulerAssumption DEF ThreadTypeOK, BatchShape, Comes, Goto, threadVars
<1>1. CASE StartCycle
  BY <1>1 DEF StartCycle
<1>2. CASE Finish \/ EndCycle \/ Wake \/ Tick \/ UNCHANGED vars
  BY <1>2 DEF Finish, EndCycle, Wake, Tick, vars
<1>3. ASSUME NEW task \in Tasks, Dispatch(task) \/ PassOver(task) PROVE BatchShape'
  <2>1. batch' = batch \ {task} /\ pc' \in {"execute", "pick"}
    BY <1>3 DEF Dispatch, PassOver, TakeNext
  <2>2. Mode = "round_robin" => \A t \in batch \ {task} : Comes(task, t)
    BY <1>3 DEF Dispatch, PassOver, TakeNext, Precedes
  <2>3. ASSUME Mode = "round_robin", NEW t \in batch', NEW u \in Tasks, Comes(t, u)
        PROVE  u \in batch'
    <3>1. u \in batch /\ Comes(task, t) /\ t \in Tasks
      BY <2>1, <2>2, <2>3
    <3>2. u # task
      BY <2>3, <3>1, ComesTotal
    <3>3. QED
      BY <2>1, <3>1, <3>2
  <2>4. QED
    BY <2>1, <2>3
<1>4. CASE SkipFailedTask \/ CrashTask \/ BeginExecution \/ CompleteExecution
  BY <1>4 DEF SkipFailedTask, CrashTask, BeginExecution, CompleteExecution
<1>5. QED
  BY <1>1, <1>2, <1>3, <1>4 DEF Next, Step

\* What a dispatch adds.
LEMMA DispatchCounts ==
  ASSUME ThreadTypeOK, NEW task \in Tasks, Dispatch(task), NEW t \in Tasks, NEW u \in Tasks
  PROVE  overtaken'[t][u] =
           IF t = task THEN 0
           ELSE IF ShouldRun(t) /\ u = task THEN overtaken[t][u] + 1
           ELSE overtaken[t][u]
  BY DEF Dispatch, ThreadTypeOK

\* Every other step counts nothing, and changes the release of nobody but the
\* task that was executed.
LEMMA OtherSteps ==
  ASSUME ThreadTypeOK, [Next]_vars
  PROVE  \/ \E task \in Tasks : Dispatch(task)
         \/ /\ UNCHANGED overtaken
            /\ \/ UNCHANGED next_run_time
               \/ /\ pc \in {"execute", "running"}
                  /\ pc' = "pick"
                  /\ UNCHANGED clock
                  /\ \A t \in Tasks : t # current => next_run_time'[t] = next_run_time[t]
<1> USE DEF vars, taskVars, history, Goto
<1>1. CASE StartCycle \/ Finish \/ EndCycle \/ Wake \/ BeginExecution \/ Tick \/ UNCHANGED vars
  BY <1>1 DEF StartCycle, Finish, EndCycle, Wake, BeginExecution, Tick
<1>2. CASE \E task \in Tasks : PassOver(task)
  BY <1>2 DEF PassOver
<1>3. CASE SkipFailedTask \/ CrashTask \/ CompleteExecution
  BY <1>3 DEF SkipFailedTask, CrashTask, CompleteExecution, Reschedule, ThreadTypeOK
<1>4. QED
  BY <1>1, <1>2, <1>3 DEF Next, Step

LEMMA NotWaitingStep == ASSUME ThreadTypeOK, NotWaiting, [Next]_vars PROVE NotWaiting'
<1>1. ASSUME NEW task \in Tasks, Dispatch(task) PROVE NotWaiting'
  <2>1. /\ pc = "pick" /\ pc' = "execute" /\ current' = task
        /\ UNCHANGED <<clock, next_run_time>>
    BY <1>1 DEF Dispatch, TakeNext, Goto, taskVars
  <2>2. ASSUME NEW t \in Tasks, NEW u \in Tasks, t = u \/ (~ShouldRun(t) \/ Executing(t))'
        PROVE  overtaken'[t][u] = 0
    <3>1. CASE t = task
      BY <1>1, <3>1, DispatchCounts
    <3>2. CASE t # task /\ t = u
      <4>1. overtaken'[t][u] = overtaken[t][u]
        BY <1>1, <3>2, DispatchCounts
      <4>2. QED
        BY <3>2, <4>1 DEF NotWaiting
    <3>3. CASE t # task /\ t # u
      <4>1. ~ShouldRun(t)
        BY <2>1, <2>2, <3>3 DEF ShouldRun, Executing
      <4>2. QED
        BY <1>1, <3>3, <4>1, DispatchCounts DEF NotWaiting
    <3>4. QED
      BY <3>1, <3>2, <3>3
  <2>3. QED
    BY <2>2 DEF NotWaiting
<1>2. CASE ~\E task \in Tasks : Dispatch(task)
  <2>1. UNCHANGED overtaken
    BY <1>2, OtherSteps
  <2>2. clock' = clock \/ (clock' = clock + 1 /\ UNCHANGED <<pc, current, next_run_time>>)
    BY DEF Next, Step, StartCycle, Finish, EndCycle, Wake, Dispatch, PassOver, SkipFailedTask,
       CrashTask, BeginExecution, CompleteExecution, Tick, vars, threadVars, taskVars
  <2>3. pc' = "execute" => pc = "execute"
    BY <1>2 DEF Next, Step, StartCycle, Finish, EndCycle, Wake, PassOver, SkipFailedTask,
       CrashTask, BeginExecution, CompleteExecution, Tick, vars, threadVars, Goto
  <2>4. pc' = "running" => pc \in {"execute", "running"}
    BY DEF Next, Step, StartCycle, Finish, EndCycle, Wake, Dispatch, PassOver, SkipFailedTask,
       CrashTask, BeginExecution, CompleteExecution, Tick, vars, threadVars, Goto
  <2>5. current' = current
    BY <1>2 DEF Next, Step, StartCycle, Finish, EndCycle, Wake, PassOver, SkipFailedTask,
       CrashTask, BeginExecution, CompleteExecution, Tick, vars, threadVars
  <2>6. ASSUME NEW t \in Tasks, NEW u \in Tasks, (~ShouldRun(t) \/ Executing(t))'
        PROVE  overtaken[t][u] = 0
    <3>1. CASE Executing(t)
      BY <3>1 DEF NotWaiting
    <3>2. CASE ~Executing(t)
      <4>1. ~Executing(t)'
        BY <2>3, <2>4, <2>5, <3>2 DEF Executing
      <4>2. next_run_time'[t] = next_run_time[t]
        BY <1>2, <3>2, OtherSteps DEF Executing
      <4>3. next_run_time[t] \in Int /\ clock \in Nat
        BY DEF ThreadTypeOK
      <4>4. ~ShouldRun(t)
        BY <2>2, <2>6, <4>1, <4>2, <4>3 DEF ShouldRun
      <4>5. QED
        BY <4>4 DEF NotWaiting
    <3>3. QED
      BY <3>1, <3>2
  <2>7. QED
    BY <2>1, <2>6 DEF NotWaiting
<1>3. QED
  BY <1>1, <1>2

\* What a step does to the batch while the duration lasts.
LEMMA BatchMoves ==
  ASSUME ThreadTypeOK, BatchShape, [Next]_vars, clock' < Duration
  PROVE  /\ clock < Duration
         /\ \/ UNCHANGED batch /\ UNCHANGED overtaken
            \/ batch = {} /\ StartCycle
            \/ \E task \in Tasks : Dispatch(task) \/ PassOver(task)
<1> USE DEF vars, threadVars, history
<1>1. CASE StartCycle
  BY <1>1 DEF StartCycle, BatchShape
<1>2. CASE EndCycle
  BY <1>2, SchedulerAssumption DEF EndCycle, CycleIsOver, ThreadTypeOK
<1>3. CASE Finish \/ Wake \/ SkipFailedTask \/ CrashTask \/ BeginExecution \/ CompleteExecution
           \/ UNCHANGED vars
  BY <1>3 DEF Finish, Wake, SkipFailedTask, CrashTask, BeginExecution, CompleteExecution
<1>4. CASE Tick
  BY <1>4, SchedulerAssumption DEF Tick, ThreadTypeOK
<1>5. ASSUME NEW task \in Tasks, Dispatch(task) \/ PassOver(task) PROVE clock < Duration
  BY <1>5 DEF Dispatch, PassOver, TakeNext
<1>6. QED
  BY <1>1, <1>2, <1>3, <1>4, <1>5 DEF Next, Step

LEMMA WithinAllowedStep ==
  ASSUME ThreadTypeOK, BatchShape, NotWaiting, WithinAllowed, [Next]_vars
  PROVE  WithinAllowed'
<1> SUFFICES ASSUME clock' < Duration, NEW t \in Tasks, NEW u \in Tasks, t # u
             PROVE  overtaken'[t][u] <= Allowed(t, u)'
  BY DEF WithinAllowed
<1>1. clock < Duration
  BY BatchMoves
<1>2. overtaken[t][u] \in Nat /\ overtaken[t][u] <= Allowed(t, u)
  BY <1>1 DEF WithinAllowed, ThreadTypeOK
<1>3. CASE UNCHANGED batch /\ UNCHANGED overtaken
  BY <1>2, <1>3 DEF Allowed, Comes
<1>4. CASE batch = {} /\ StartCycle
  <2>1. UNCHANGED overtaken /\ batch' = IF Mode = "round_robin" THEN Tasks
                                        ELSE {x \in Tasks : ShouldRun(x)}
    BY <1>4 DEF StartCycle
  <2>2. CASE Mode = "round_robin"
    BY <1>2, <1>4, <2>1, <2>2 DEF Allowed, Comes
  <2>3. CASE Mode # "round_robin" /\ ShouldRun(t)
    BY <1>2, <1>4, <2>1, <2>3 DEF Allowed
  <2>4. CASE Mode # "round_robin" /\ ~ShouldRun(t)
    <3>1. overtaken'[t][u] = 0
      BY <2>1, <2>4 DEF NotWaiting
    <3>2. QED
      BY <2>4, <3>1 DEF Allowed
  <2>5. QED
    BY <2>2, <2>3, <2>4
<1>5. ASSUME NEW task \in Tasks, Dispatch(task) \/ PassOver(task)
      PROVE  overtaken'[t][u] <= Allowed(t, u)'
  <2>1. batch' = batch \ {task} /\ task \in batch
    BY <1>5 DEF Dispatch, PassOver, TakeNext
  <2>2. Mode = "round_robin" => \A x \in batch \ {task} : Comes(task, x)
    BY <1>5 DEF Dispatch, PassOver, TakeNext, Precedes, Comes
  <2>3. CASE task # t /\ task # u
    <3>1. overtaken'[t][u] = overtaken[t][u]
      BY <1>5, <2>3, DispatchCounts DEF PassOver, history
    <3>2. (t \in batch' <=> t \in batch) /\ (u \in batch' <=> u \in batch)
      BY <2>1, <2>3
    <3>3. QED
      BY <1>2, <3>1, <3>2 DEF Allowed, Comes
  <2>4. CASE task = t
    <3>1. overtaken'[t][u] = 0
      <4>1. CASE Dispatch(task)
        BY <2>4, <4>1, DispatchCounts
      <4>2. CASE PassOver(task)
        BY <2>4, <4>2 DEF PassOver, history, NotWaiting
      <4>3. QED
        BY <1>5, <4>1, <4>2
    <3>2. QED
      BY <3>1 DEF Allowed, Comes
  <2>5. CASE task = u
    <3>1. CASE overtaken'[t][u] = overtaken[t][u]
      BY <1>2, <2>1, <2>5, <3>1 DEF Allowed, Comes
    <3>2. CASE overtaken'[t][u] # overtaken[t][u]
      <4>1. overtaken'[t][u] = overtaken[t][u] + 1
        BY <1>5, <2>5, <3>2, DispatchCounts DEF PassOver, history
      <4>2. CASE Mode = "round_robin" /\ Comes(t, u)
        <5>1. t \notin batch
          BY <2>2, <2>5, <4>2, ComesTotal
        <5>2. QED
          BY <1>2, <2>1, <2>5, <4>1, <4>2, <5>1 DEF Allowed, Comes
      <4>3. CASE Mode = "round_robin" /\ ~Comes(t, u)
        <5>1. t \in batch
          BY <2>1, <2>5, <4>3, ComesTotal DEF BatchShape
        <5>2. QED
          BY <1>2, <2>1, <2>5, <4>1, <4>3, <5>1 DEF Allowed, Comes
      <4>4. CASE Mode # "round_robin"
        BY <1>2, <2>1, <2>5, <4>1, <4>4 DEF Allowed
      <4>5. QED
        BY <4>2, <4>3, <4>4
    <3>3. QED
      BY <3>1, <3>2
  <2>6. QED
    BY <2>3, <2>4, <2>5
<1>6. QED
  BY <1>3, <1>4, <1>5, BatchMoves

OvertakingInv == BatchShape /\ NotWaiting /\ WithinAllowed /\ BoundedOvertaking

LEMMA OvertakingStep ==
  ASSUME ThreadTypeOK, ThreadTypeOK', OvertakingInv, [Next]_vars
  PROVE  OvertakingInv'
<1>1. BatchShape' /\ NotWaiting' /\ WithinAllowed'
  BY BatchShapeStep, NotWaitingStep, WithinAllowedStep DEF OvertakingInv
<1>2. ASSUME NEW t \in Tasks, NEW u \in Tasks
      PROVE  overtaken'[t][u] <= IF Mode = "round_robin" THEN 1 ELSE 2
  <2>1. CASE UNCHANGED overtaken
    BY <2>1 DEF OvertakingInv, BoundedOvertaking
  <2>2. CASE t = u
    BY <1>1, <2>2 DEF NotWaiting
  <2>3. CASE ~UNCHANGED overtaken /\ t # u
    <3>1. clock' < Duration
      <4>1. PICK task \in Tasks : Dispatch(task)
        BY <2>3, OtherSteps
      <4>2. QED
        BY <4>1 DEF Dispatch, TakeNext
    <3>2. overtaken'[t][u] <= Allowed(t, u)'
      BY <1>1, <2>3, <3>1 DEF WithinAllowed
    <3>3. overtaken'[t][u] \in Nat
      BY DEF ThreadTypeOK
    <3>4. Allowed(t, u)' \in Nat /\ Allowed(t, u)' <= IF Mode = "round_robin" THEN 1 ELSE 2
      BY DEF Allowed
    <3>5. QED
      BY <3>2, <3>3, <3>4
  <2>4. QED
    BY <2>1, <2>2, <2>3
<1>3. QED
  BY <1>1, <1>2 DEF OvertakingInv, BoundedOvertaking

\* Whatever the mode, the configuration and the load, no task starves: another
\* one is dispatched ahead of it at most once in round-robin mode and at most
\* twice in the others.
THEOREM NoTaskStarves == Spec => []BoundedOvertaking
<1>1. Init => OvertakingInv
  BY DEF Init, OvertakingInv, BatchShape, NotWaiting, WithinAllowed, BoundedOvertaking, Allowed,
     Comes
<1>2. ThreadTypeOK /\ ThreadTypeOK' /\ OvertakingInv /\ [Next]_vars => OvertakingInv'
  BY OvertakingStep
<1>3. OvertakingInv => BoundedOvertaking
  BY DEF OvertakingInv
<1>4. QED
  BY <1>1, <1>2, <1>3, ThreadTypeCorrect, PTL DEF Spec
-------------------------------------------------------------------------------
(* The log's totals match the runs *)

Sends == Tasks \intersect Producers

\* A completed execution counts for the current task; one of a producer numbers
\* a message, one of LoggerTask takes at most one.
LEMMA CompletionCounts ==
  ASSUME ThreadTypeOK, Bus!BusTypeOK, run_count \in [Tasks -> Nat], CompleteExecution
  PROVE  /\ run_count' = [run_count EXCEPT ![current] = @ + 1]
         /\ next_message_sequence_id' =
              next_message_sequence_id + (IF current \in Sends THEN 1 ELSE 0)
         /\ bus_log'["received"] <=
              bus_log["received"] + (IF current = LoggerTask THEN 1 ELSE 0)
<1> USE DEF ThreadTypeOK, Sends
<1>1. run_count' = [run_count EXCEPT ![current] = @ + 1]
  BY DEF CompleteExecution, Dog!Execute
<1>2. PICK dropped \in ShouldDropMessage(current, LoggerTask, clock) :
        Bus!HandleTaskMessaging(current, dropped)
  BY DEF CompleteExecution
<1>3. bus_log \in [Bus!Events -> Nat] /\ "received" \in Bus!Events /\ next_message_sequence_id \in Nat
  BY DEF Bus!BusTypeOK, Bus!Events
<1>4. CASE current \in Producers /\ Bus!SendMessageToLoggerTask(current, dropped)
  <2>1. next_message_sequence_id' = next_message_sequence_id + 1
    BY <1>4 DEF Bus!SendMessageToLoggerTask, Bus!NextSequenceId
  <2>2. bus_log'["received"] = bus_log["received"]
    BY <1>3, <1>4 DEF Bus!SendMessageToLoggerTask, Bus!Logged
  <2>3. QED
    BY <1>1, <1>3, <1>4, <2>1, <2>2
<1>5. CASE current = LoggerTask /\ Bus!ReceiveMessageForTask(current)
  <2>1. UNCHANGED next_message_sequence_id
    BY <1>5 DEF Bus!ReceiveMessageForTask, Bus!busVars
  <2>2. bus_log'["received"] <= bus_log["received"] + 1
    BY <1>3, <1>5 DEF Bus!ReceiveMessageForTask, Bus!busVars, Bus!Logged
  <2>3. QED
    BY <1>1, <1>3, <1>5, <2>1, <2>2, SchedulerAssumption
<1>6. CASE current \notin Producers \union {LoggerTask} /\ UNCHANGED Bus!busVars
  BY <1>1, <1>3, <1>6 DEF Bus!busVars
<1>7. QED
  BY <1>2, <1>4, <1>5, <1>6 DEF Bus!HandleTaskMessaging

LEMMA MessagesStep ==
  ASSUME TypeOK, TypeOK', MessagesMatchRuns, [Next]_vars
  PROVE  MessagesMatchRuns'
<1>1. run_count \in [Tasks -> Nat] /\ current \in Tasks /\ next_message_sequence_id \in Nat
      /\ bus_log["received"] \in Nat
  BY DEF TypeOK, ThreadTypeOK, Dog!TypeOK, Bus!BusTypeOK, Bus!Events
<1>2. IsFiniteSet(Sends)
  BY SchedulerAssumption, FS_Subset DEF Sends
<1>3. SumFunctionOnSet(run_count, Sends) \in Nat
  BY <1>1, <1>2, SumNat DEF Sends
<1>4. CASE UNCHANGED <<dogVars, busVars>>
  BY <1>4 DEF MessagesMatchRuns, dogVars, busVars
<1>5. CASE CompleteExecution
  <2>1. /\ run_count' = [run_count EXCEPT ![current] = @ + 1]
        /\ next_message_sequence_id' =
             next_message_sequence_id + (IF current \in Sends THEN 1 ELSE 0)
        /\ bus_log'["received"] <=
             bus_log["received"] + (IF current = LoggerTask THEN 1 ELSE 0)
    BY <1>1, <1>5, CompletionCounts DEF TypeOK
  <2>2. \A t \in Sends : /\ run_count[t] \in Nat
                        /\ run_count'[t] = IF t = current THEN run_count[t] + 1 ELSE run_count[t]
    BY <1>1, <2>1 DEF Sends
  <2>3. SumFunctionOnSet(run_count', Sends) =
          SumFunctionOnSet(run_count, Sends) + (IF current \in Sends THEN 1 ELSE 0)
    BY <1>2, <2>2, SumIncrement
  <2>4. next_message_sequence_id' - 1 = SumFunctionOnSet(run_count', Sends)
    BY <1>1, <1>3, <2>1, <2>3 DEF MessagesMatchRuns, Sends
  <2>5. bus_log'["received"] \in Nat
    BY DEF TypeOK, Bus!BusTypeOK, Bus!Events
  <2>6. LoggerTask \in Tasks => bus_log'["received"] <= run_count'[LoggerTask]
    BY <1>1, <2>1, <2>5 DEF MessagesMatchRuns
  <2>7. QED
    BY <2>4, <2>6 DEF MessagesMatchRuns, Sends
<1>6. QED
  BY <1>4, <1>5, OnlyCompletion

\* The totals of every run's log match its executions, whatever is dropped.
THEOREM LogTotalsMatchRuns == Spec => []MessagesMatchRuns
<1>1. Init => MessagesMatchRuns
  <2> SUFFICES ASSUME Init PROVE MessagesMatchRuns
    OBVIOUS
  <2>1. run_count = [t \in Tasks |-> 0] /\ next_message_sequence_id = 1 /\ bus_log["received"] = 0
    BY DEF Init, Dog!Init, Bus!BusInit, Bus!Events
  <2>2. IsFiniteSet(Sends) /\ \A t \in Sends : run_count[t] = 0
    BY <2>1, SchedulerAssumption, FS_Subset DEF Sends
  <2>3. SumFunctionOnSet(run_count, Sends) = 0
    BY <2>2, SumOfZeroes
  <2>4. QED
    BY <2>1, <2>3 DEF MessagesMatchRuns, Sends
<1>2. TypeOK /\ TypeOK' /\ MessagesMatchRuns /\ [Next]_vars => MessagesMatchRuns'
  BY MessagesStep
<1>3. QED
  BY <1>1, <1>2, TypeCorrect, PTL DEF Spec
-------------------------------------------------------------------------------
(***************************************************************************)
(* The run ends in time.  The thread works for the task dispatched last    *)
(* before the end; each position of the thread bounds the clock by how far *)
(* that execution is and by what the thread lost on the way.               *)
(***************************************************************************)
TimeInv ==
  /\ \E t \in Tasks : total_execution_time <= ExecutionTime[t] + ExtraExecutionTime
  /\ pc \in {"execute", "running"} => ran_task_this_cycle
  /\ pc = "execute" => clock <= Duration - 1 + stall
  /\ pc = "running" => /\ wake_time <= Duration - 1 + MaxStall + total_execution_time
                       /\ clock <= wake_time + stall
  /\ pc = "pick" =>
       clock <= Duration - 1 + stall
                  + (IF ran_task_this_cycle THEN 2 * MaxStall + total_execution_time ELSE 0)
  /\ pc = "idle" => wake_time <= Duration + MaxStall /\ clock <= wake_time + stall
  /\ pc = "loop" => clock <= Duration + 3 * MaxStall + total_execution_time + stall
  /\ pc = "done" => clock <= Duration + 4 * MaxStall + total_execution_time

LEMMA TimeOfBegin == ASSUME ThreadTypeOK, TimeInv, BeginExecution PROVE TimeInv'
<1>1. pc = "execute" /\ pc' = "running" /\ stall' = 0 /\ clock' = clock
      /\ ran_task_this_cycle' = ran_task_this_cycle
  BY DEF BeginExecution, Goto
<1>2. ExtraExecutionTimeMs(current, clock) \in Nat
      /\ ExtraExecutionTimeMs(current, clock) <= ExtraExecutionTime
  BY FaultAssumption DEF ExtraExecutionTimeMs
<1>3. current \in Tasks /\ clock \in Nat /\ stall \in 0..MaxStall
  BY DEF ThreadTypeOK
<1>4. ExecutionTime[current] \in Nat /\ ExtraExecutionTime \in Nat /\ Duration \in Nat /\ MaxStall \in Nat
  BY <1>3, SchedulerAssumption, FaultAssumption
<1> DEFINE total == ExecutionTime[current] + ExtraExecutionTimeMs(current, clock)
<1>5. total_execution_time' = total /\ wake_time' = clock + total
  BY DEF BeginExecution
<1>6. total \in Nat /\ total <= ExecutionTime[current] + ExtraExecutionTime
  BY <1>2, <1>4
<1>7. clock <= Duration - 1 + stall /\ ran_task_this_cycle
  BY <1>1 DEF TimeInv
<1> HIDE DEF total
<1>8. clock + total <= Duration - 1 + MaxStall + total /\ clock <= clock + total + 0
  BY <1>3, <1>4, <1>6, <1>7
<1>9. QED
  BY <1>1, <1>3, <1>5, <1>6, <1>7, <1>8 DEF TimeInv

LEMMA TimeStep == ASSUME ThreadTypeOK, TimeInv, [Next]_vars PROVE TimeInv'
<1> USE SchedulerAssumption DEF ThreadTypeOK, TimeInv, Goto, threadVars
<1>1. CASE StartCycle
  BY <1>1 DEF StartCycle
<1>2. CASE Finish
  BY <1>2 DEF Finish
<1>3. CASE EndCycle
  BY <1>3 DEF EndCycle
<1>4. CASE Wake
  BY <1>4 DEF Wake
<1>5. ASSUME NEW task \in Tasks, Dispatch(task) PROVE TimeInv'
  BY <1>5 DEF Dispatch, TakeNext
<1>6. ASSUME NEW task \in Tasks, PassOver(task) PROVE TimeInv'
  BY <1>6 DEF PassOver, TakeNext
<1>7. CASE SkipFailedTask \/ CrashTask \/ CompleteExecution
  BY <1>7 DEF SkipFailedTask, CrashTask, CompleteExecution
<1>8. CASE BeginExecution
  BY <1>8, TimeOfBegin
<1>9. CASE Tick
  BY <1>9 DEF Tick, Sleeping
<1>10. CASE UNCHANGED vars
  BY <1>10 DEF vars
<1>11. QED
  BY <1>1, <1>2, <1>3, <1>4, <1>5, <1>6, <1>7, <1>8, <1>9, <1>10 DEF Next, Step

LEMMA TimeBound == ASSUME ThreadTypeOK, TimeInv PROVE RunEndsInTime
<1>1. PICK t \in Tasks : total_execution_time <= ExecutionTime[t] + ExtraExecutionTime
  BY DEF TimeInv
<1>2. clock <= Duration + 4 * MaxStall + total_execution_time
  BY SchedulerAssumption DEF TimeInv, ThreadTypeOK
<1>3. ExecutionTime[t] \in Nat /\ ExtraExecutionTime \in Nat /\ Duration \in Nat /\ MaxStall \in Nat
  BY SchedulerAssumption, FaultAssumption
<1>4. QED
  BY <1>1, <1>2, <1>3 DEF RunEndsInTime, ThreadTypeOK

\* A run overruns its duration by at most one execution and four stalls.
THEOREM RunsEndInTime == Spec => []RunEndsInTime
<1>1. Init => TimeInv
  <2> SUFFICES ASSUME Init PROVE TimeInv
    OBVIOUS
  <2>1. pc = "loop" /\ clock = 0 /\ stall = 0 /\ total_execution_time = 0
    BY DEF Init, Dog!Init
  <2>2. PICK t \in Tasks : ExecutionTime[t] \in Nat
    BY SchedulerAssumption
  <2>3. QED
    BY <2>1, <2>2, SchedulerAssumption, FaultAssumption DEF TimeInv
<1>2. ThreadTypeOK /\ TimeInv /\ [Next]_vars => TimeInv'
  BY TimeStep
<1>3. ThreadTypeOK /\ TimeInv => RunEndsInTime
  BY TimeBound
<1>4. QED
  BY <1>1, <1>2, <1>3, ThreadTypeCorrect, PTL DEF Spec
-------------------------------------------------------------------------------
(***************************************************************************)
(* Tasks keep their rate.  Dispatches are a period apart, so the number of *)
(* completed executions bounds the time of the dispatch from below; what   *)
(* an injected fault changes, it changes for all dispatches from its start *)
(* on.                                                                     *)
(***************************************************************************)
RateInv ==
  \A t \in Tasks :
    /\ run_count[t] > 0 => /\ dispatch_time[t] \in Nat
                           /\ (run_count[t] - 1) * Period[t] <= dispatch_time[t]
    /\ Executing(t) => /\ dispatch_time[t] \in Nat
                       /\ run_count[t] * Period[t] <= dispatch_time[t]
    /\ dispatch_time[t] \in Nat => dispatch_time[t] <= clock

\* Neither a dispatch nor a completion: the executed task stays or is left.
LEMMA QuietSteps ==
  ASSUME ThreadTypeOK, [Next]_vars, ~CompleteExecution, ~\E task \in Tasks : Dispatch(task)
  PROVE  /\ UNCHANGED <<dispatch_time, dogVars>>
         /\ \A t \in Tasks : Executing(t)' => Executing(t)
         /\ clock' = clock \/ clock' = clock + 1
<1> USE DEF Executing, Goto, vars, threadVars
<1>1. UNCHANGED dogVars /\ (clock' = clock \/ clock' = clock + 1)
  BY OnlyCompletion DEF Tick
<1>2. CASE StartCycle \/ Finish \/ EndCycle \/ Wake \/ Tick \/ UNCHANGED vars
  BY <1>1, <1>2 DEF StartCycle, Finish, EndCycle, Wake, Tick
<1>3. CASE \E task \in Tasks : PassOver(task)
  BY <1>1, <1>3 DEF PassOver
<1>4. CASE SkipFailedTask \/ CrashTask \/ BeginExecution
  BY <1>1, <1>4 DEF SkipFailedTask, CrashTask, BeginExecution
<1>5. QED
  BY <1>2, <1>3, <1>4 DEF Next, Step

LEMMA OnePeriodMore ==
  ASSUME NEW n \in Nat, NEW period \in Nat \ {0}
  PROVE  /\ (n - 1) * period + period = n * period
         /\ (n + 1 - 1) * period = n * period
         /\ (n - 1) * period <= n * period
         /\ n * period \in Nat /\ (n - 1) * period \in Int
         /\ n = 0 => n * period = 0
  OBVIOUS

LEMMA RateStep ==
  ASSUME ThreadTypeOK, Rescheduled, RateInv, run_count \in [Tasks -> Nat], [Next]_vars
  PROVE  RateInv'
<1> SUFFICES ASSUME NEW t \in Tasks
             PROVE  /\ run_count'[t] > 0 => /\ dispatch_time'[t] \in Nat
                                            /\ (run_count'[t] - 1) * Period[t] <= dispatch_time'[t]
                    /\ Executing(t)' => /\ dispatch_time'[t] \in Nat
                                        /\ run_count'[t] * Period[t] <= dispatch_time'[t]
                    /\ dispatch_time'[t] \in Nat => dispatch_time'[t] <= clock'
  BY DEF RateInv
<1>1. run_count[t] \in Nat /\ Period[t] \in Nat \ {0} /\ clock \in Nat
  BY SchedulerAssumption DEF ThreadTypeOK
<1>2. /\ run_count[t] > 0 => /\ dispatch_time[t] \in Nat
                             /\ (run_count[t] - 1) * Period[t] <= dispatch_time[t]
      /\ Executing(t) => /\ dispatch_time[t] \in Nat
                         /\ run_count[t] * Period[t] <= dispatch_time[t]
      /\ dispatch_time[t] \in Nat => dispatch_time[t] <= clock
  BY DEF RateInv
<1>3. /\ (run_count[t] - 1) * Period[t] + Period[t] = run_count[t] * Period[t]
      /\ (run_count[t] + 1 - 1) * Period[t] = run_count[t] * Period[t]
      /\ (run_count[t] - 1) * Period[t] <= run_count[t] * Period[t]
      /\ run_count[t] * Period[t] \in Nat /\ (run_count[t] - 1) * Period[t] \in Int
      /\ run_count[t] = 0 => run_count[t] * Period[t] = 0
  BY <1>1, OnePeriodMore
<1>4. CASE ~CompleteExecution /\ ~\E task \in Tasks : Dispatch(task)
  <2>1. /\ dispatch_time' = dispatch_time /\ run_count' = run_count
        /\ Executing(t)' => Executing(t)
        /\ clock' = clock \/ clock' = clock + 1
    BY <1>4, QuietSteps DEF dogVars
  <2>2. QED
    BY <1>1, <1>2, <2>1
<1>5. CASE CompleteExecution
  <2>1. /\ dispatch_time' = dispatch_time /\ clock' = clock /\ ~Executing(t)'
        /\ run_count'[t] = IF t = current THEN run_count[t] + 1 ELSE run_count[t]
        /\ pc = "running"
    BY <1>5 DEF CompleteExecution, Dog!Execute, Goto, Executing
  <2>2. CASE t = current
    <3>1. Executing(t)
      BY <2>1, <2>2 DEF Executing
    <3>2. (run_count'[t] - 1) * Period[t] <= dispatch_time[t]
      BY <1>2, <1>3, <2>1, <2>2, <3>1
    <3>3. QED
      BY <1>2, <2>1, <3>1, <3>2
  <2>3. CASE t # current
    BY <1>2, <2>1, <2>3
  <2>4. QED
    BY <2>2, <2>3
<1>6. ASSUME NEW task \in Tasks, Dispatch(task)
      PROVE  /\ run_count'[t] > 0 => /\ dispatch_time'[t] \in Nat
                                     /\ (run_count'[t] - 1) * Period[t] <= dispatch_time'[t]
             /\ Executing(t)' => /\ dispatch_time'[t] \in Nat
                                 /\ run_count'[t] * Period[t] <= dispatch_time'[t]
             /\ dispatch_time'[t] \in Nat => dispatch_time'[t] <= clock'
  <2>1. /\ pc = "pick" /\ ShouldRun(task) /\ current' = task
        /\ run_count' = run_count /\ clock' = clock
        /\ dispatch_time'[t] = IF t = task THEN clock ELSE dispatch_time[t]
    BY <1>6 DEF Dispatch, TakeNext, dogVars, ThreadTypeOK
  <2>2. CASE t # task
    BY <1>2, <2>1, <2>2 DEF Executing
  <2>3. CASE t = task
    <3>1. run_count[t] * Period[t] <= clock
      <4>1. CASE run_count[t] = 0
        BY <1>1, <1>3, <4>1
      <4>2. CASE run_count[t] > 0
        <5>1. dispatch_time[t] \in Nat /\ (run_count[t] - 1) * Period[t] <= dispatch_time[t]
          BY <1>2, <4>2
        <5>2. next_run_time[t] = dispatch_time[t] + Period[t] /\ next_run_time[t] <= clock
          BY <2>1, <2>3, <5>1 DEF Rescheduled, Executing, ShouldRun, Dog!None
        <5>3. QED
          BY <1>1, <1>3, <5>1, <5>2
      <4>3. QED
        BY <1>1, <4>1, <4>2
    <3>2. (run_count[t] - 1) * Period[t] <= clock
      BY <1>1, <1>3, <3>1
    <3>3. QED
      BY <1>1, <2>1, <2>3, <3>1, <3>2
  <2>4. QED
    BY <2>2, <2>3
<1>7. QED
  BY <1>4, <1>5, <1>6

LEMMA KeepsRate == Spec => []RateInv
<1>1. Init => Rescheduled /\ RateInv
  BY DEF Init, Dog!Init, Rescheduled, RateInv, Executing, Dog!None
<1>2. ThreadTypeOK /\ Rescheduled /\ [Next]_vars => Rescheduled'
  BY RescheduledStep
<1>3. TypeOK => ThreadTypeOK /\ run_count \in [Tasks -> Nat]
  BY DEF TypeOK, Dog!TypeOK
<1>4. TypeOK /\ Rescheduled /\ RateInv /\ [Next]_vars => RateInv'
  BY <1>3, RateStep
<1>5. QED
  BY <1>1, <1>2, <1>3, <1>4, TypeCorrect, PTL DEF Spec

\* What the bus promises holds of every run.
THEOREM BusInRuns == Spec => [](Bus!Accounting /\ Bus!Ordered /\ Bus!Bounded)
<1>1. LoggerTask \notin Producers /\ QueueLimit \in [Tasks -> Nat \ {0}]
  BY SchedulerAssumption
<1>2. BusTheorems!BusSpec => [](BusTheorems!BusTypeOK /\ BusTheorems!Accounting
                               /\ BusTheorems!Ordered /\ BusTheorems!Bounded)
  BY <1>1, BusTheorems!BusInvariant, PTL
<1>3. /\ BusTheorems!Accounting => Bus!Accounting
      /\ BusTheorems!Ordered => Bus!Ordered
      /\ BusTheorems!Bounded => Bus!Bounded
  BY DEF BusTheorems!Accounting, Bus!Accounting, BusTheorems!Ordered, Bus!Ordered,
     BusTheorems!Bounded, Bus!Bounded, BusTheorems!Waiting, Bus!Waiting
<1>4. QED
  BY <1>2, <1>3, SchedulerIsBusUser, PTL

\* Fewer periods fit before an earlier time.
LEMMA FewerPeriods ==
  ASSUME NEW m \in Int, NEW n \in Int, m <= n, NEW period \in Nat \ {0}
  PROVE  m * period <= n * period
<1>1. (n - m) * period >= 0
  OBVIOUS
<1>2. QED
  BY <1>1

LEMMA DrainBound ==
  ASSUME TypeOK, RateInv, MessagesMatchRuns, Bus!Accounting, Bus!Bounded
  PROVE  LoggerDrainsAtItsRate
<1> DEFINE kept == next_message_sequence_id - 1 - bus_log["queue_full"]
                     - bus_log["fault_injected_drop"]
<1> SUFFICES ASSUME LoggerTask \in Tasks
             PROVE  (kept - QueueLimit[LoggerTask] - 1) * Period[LoggerTask] <= clock
  BY DEF LoggerDrainsAtItsRate
<1>1. /\ next_message_sequence_id \in Nat /\ clock \in Nat /\ run_count[LoggerTask] \in Nat
      /\ bus_log["sent"] \in Nat /\ bus_log["received"] \in Nat
      /\ bus_log["queue_full"] \in Nat /\ bus_log["fault_injected_drop"] \in Nat
      /\ queues[LoggerTask] \in Seq(Bus!Message)
  BY DEF TypeOK, ThreadTypeOK, Dog!TypeOK, Bus!BusTypeOK, Bus!Events
<1>2. QueueLimit[LoggerTask] \in Nat /\ Period[LoggerTask] \in Nat \ {0}
  BY SchedulerAssumption
<1>3. Len(queues[LoggerTask]) \in Nat /\ Len(queues[LoggerTask]) <= QueueLimit[LoggerTask]
  BY <1>1 DEF Bus!Bounded
<1>4. kept = bus_log["received"] + Len(queues[LoggerTask])
  BY <1>1, <1>3 DEF Bus!Accounting, Bus!Waiting
<1>5. bus_log["received"] <= run_count[LoggerTask]
  BY DEF MessagesMatchRuns
<1> HIDE DEF kept
<1> DEFINE m == kept - QueueLimit[LoggerTask] - 1
           n == run_count[LoggerTask] - 1
<1>6. m \in Int /\ n \in Int /\ m <= n
  BY <1>1, <1>2, <1>3, <1>4, <1>5
<1>7. m * Period[LoggerTask] <= n * Period[LoggerTask]
  <2> HIDE DEF m, n
  <2>1. QED
    BY <1>2, <1>6, FewerPeriods
<1>8. (run_count[LoggerTask] - 1) * Period[LoggerTask] <= clock
  <2>1. CASE run_count[LoggerTask] = 0
    BY <1>1, <1>2, <2>1
  <2>2. CASE run_count[LoggerTask] > 0
    <3>1. /\ dispatch_time[LoggerTask] \in Nat /\ dispatch_time[LoggerTask] <= clock
          /\ (run_count[LoggerTask] - 1) * Period[LoggerTask] <= dispatch_time[LoggerTask]
      BY <2>2 DEF RateInv
    <3>2. (run_count[LoggerTask] - 1) * Period[LoggerTask] \in Int
      BY <1>1, <1>2
    <3>3. QED
      BY <1>1, <3>1, <3>2
  <2>3. QED
    BY <1>1, <2>1, <2>2
<1>9. m * Period[LoggerTask] \in Int /\ n * Period[LoggerTask] \in Int
  <2> HIDE DEF m, n
  <2>1. QED
    BY <1>2, <1>6
<1>10. QED
  BY <1>1, <1>7, <1>8, <1>9

\* What LoggerTask cannot take at its rate, and its queue not hold, was dropped.
THEOREM LoggerKeepsItsRate == Spec => []LoggerDrainsAtItsRate
<1>1. TypeOK /\ RateInv /\ MessagesMatchRuns /\ Bus!Accounting /\ Bus!Bounded
        => LoggerDrainsAtItsRate
  BY DrainBound
<1>2. QED
  BY <1>1, TypeCorrect, KeepsRate, LogTotalsMatchRuns, BusInRuns, PTL
-------------------------------------------------------------------------------
(***************************************************************************)
(* Injected faults act on every execution from their start on.  What runs  *)
(* as if there were no fault was dispatched before it, and no more such    *)
(* dispatches fit before start_after_ms than periods do.                   *)
(***************************************************************************)
Overruns ==
  /\ FaultType \in {"slow_task", "cpu_spike"}
  /\ FaultTarget \in Tasks
  /\ ExecutionTime[FaultTarget] + ExtraExecutionTime > Deadline[FaultTarget]

Crashes == FaultType = "task_crash" /\ FaultTarget \in Tasks

\* The execution under way began before the fault.
BeforeFault == dispatch_time[FaultTarget] < StartAfter

FaultInv ==
  /\ \A t \in Tasks : deadline_miss_count[t] <= run_count[t]
  /\ Overruns =>
       /\ (run_count[FaultTarget] - deadline_miss_count[FaultTarget] - 1) * Period[FaultTarget]
            < StartAfter
       /\ pc = "running" /\ current = FaultTarget =>
            total_execution_time > Deadline[FaultTarget] \/ BeforeFault
  /\ Crashes =>
       /\ (run_count[FaultTarget] - 1) * Period[FaultTarget] < StartAfter
       /\ pc = "running" /\ current = FaultTarget => BeforeFault

Counts == run_count \in [Tasks -> Nat] /\ deadline_miss_count \in [Tasks -> Nat]

LEMMA CompletionMisses ==
  ASSUME ThreadTypeOK, Counts, CompleteExecution, NEW t \in Tasks
  PROVE  /\ run_count'[t] = IF t = current THEN run_count[t] + 1 ELSE run_count[t]
         /\ deadline_miss_count'[t] =
              IF t = current /\ MissedDeadline THEN deadline_miss_count[t] + 1
              ELSE deadline_miss_count[t]
  BY DEF CompleteExecution, Dog!Execute, Counts, ThreadTypeOK

\* Without a completion only the beginning of an execution matters.
LEMMA BeginsOrKeeps ==
  ASSUME ThreadTypeOK, [Next]_vars, ~CompleteExecution, pc' = "running"
  PROVE  \/ BeginExecution
         \/ pc = "running" /\ UNCHANGED <<current, dispatch_time, total_execution_time>>
<1> USE DEF Goto, vars, threadVars
<1>1. CASE StartCycle \/ Finish \/ EndCycle \/ Wake \/ Tick \/ UNCHANGED vars
  BY <1>1 DEF StartCycle, Finish, EndCycle, Wake, Tick
<1>2. CASE SkipFailedTask \/ CrashTask \/ \E task \in Tasks : Dispatch(task) \/ PassOver(task)
  BY <1>2 DEF SkipFailedTask, CrashTask, Dispatch, PassOver
<1>3. QED
  BY <1>1, <1>2 DEF Next, Step

LEMMA FaultAtBegin ==
  ASSUME ThreadTypeOK, RateInv, BeginExecution, current = FaultTarget
  PROVE  /\ dispatch_time' = dispatch_time
         /\ Overruns => total_execution_time' > Deadline[FaultTarget] \/ BeforeFault
         /\ Crashes => BeforeFault
<1>1. /\ dispatch_time' = dispatch_time
      /\ total_execution_time' = ExecutionTime[current] + ExtraExecutionTimeMs(current, clock)
      /\ ~ShouldCrashTask(current, clock)
      /\ Executing(current)
  BY DEF BeginExecution, Executing
<1>2. dispatch_time[FaultTarget] \in Nat /\ dispatch_time[FaultTarget] <= clock /\ clock \in Nat
  BY <1>1 DEF RateInv, ThreadTypeOK
<1>3. CASE clock < StartAfter
  BY <1>1, <1>2, <1>3, FaultAssumption DEF BeforeFault
<1>4. CASE clock >= StartAfter
  <2>1. Overruns => ExtraExecutionTimeMs(current, clock) = ExtraExecutionTime
    BY <1>4 DEF Overruns, ExtraExecutionTimeMs, Active
  <2>2. ~Crashes
    BY <1>1, <1>4 DEF Crashes, ShouldCrashTask, Active
  <2>3. QED
    BY <1>1, <2>1, <2>2 DEF Overruns
<1>5. QED
  BY <1>2, <1>3, <1>4, FaultAssumption

\* One more clean execution fits if it was dispatched in time.
LEMMA CleanExecutionFits ==
  ASSUME NEW runs \in Nat, NEW misses \in Nat, NEW period \in Nat \ {0}, NEW start \in Nat,
         NEW dispatched \in Nat, runs * period <= dispatched, dispatched < start
  PROVE  (runs + 1 - misses - 1) * period < start
<1>1. (runs + 1 - misses - 1) * period <= runs * period
  <2>1. misses * period \in Nat
    OBVIOUS
  <2>2. (runs + 1 - misses - 1) * period = runs * period - misses * period
    OBVIOUS
  <2>3. QED
    BY <2>1, <2>2
<1>2. (runs + 1 - misses - 1) * period \in Int /\ runs * period \in Int
  OBVIOUS
<1>3. QED
  BY <1>1, <1>2

LEMMA FaultCompletion ==
  ASSUME ThreadTypeOK, RateInv, FaultInv, Counts, CompleteExecution
  PROVE  FaultInv'
<1> DEFINE F == FaultTarget
<1>1. pc = "running" /\ pc' = "pick" /\ current \in Tasks /\ Executing(current)
  BY DEF CompleteExecution, Goto, ThreadTypeOK, Executing
<1>2. \A t \in Tasks : run_count[t] \in Nat /\ deadline_miss_count[t] \in Nat
  BY DEF Counts
<1>3. \A t \in Tasks : deadline_miss_count'[t] <= run_count'[t]
  <2> SUFFICES ASSUME NEW t \in Tasks PROVE deadline_miss_count'[t] <= run_count'[t]
    OBVIOUS
  <2>1. deadline_miss_count[t] <= run_count[t]
    BY DEF FaultInv
  <2>2. QED
    BY <1>2, <2>1, CompletionMisses
<1>4. ASSUME Overruns
      PROVE  (run_count'[F] - deadline_miss_count'[F] - 1) * Period[F] < StartAfter
  <2>1. F \in Tasks /\ Period[F] \in Nat \ {0} /\ Deadline[F] \in Nat /\ StartAfter \in Nat
    BY <1>4, SchedulerAssumption, FaultAssumption DEF Overruns
  <2>2. (run_count[F] - deadline_miss_count[F] - 1) * Period[F] < StartAfter
    BY <1>4 DEF FaultInv
  <2>3. CASE current # F
    BY <2>1, <2>2, <2>3, CompletionMisses
  <2>4. CASE current = F /\ MissedDeadline
    <3>1. run_count'[F] - deadline_miss_count'[F] - 1 = run_count[F] - deadline_miss_count[F] - 1
      BY <1>2, <2>1, <2>4, CompletionMisses
    <3>2. QED
      BY <2>2, <3>1
  <2>5. CASE current = F /\ ~MissedDeadline
    <3>1. BeforeFault
      BY <1>1, <1>4, <2>5 DEF FaultInv, MissedDeadline
    <3>2. dispatch_time[F] \in Nat /\ run_count[F] * Period[F] <= dispatch_time[F]
      BY <1>1, <2>5 DEF RateInv
    <3>3. run_count'[F] = run_count[F] + 1 /\ deadline_miss_count'[F] = deadline_miss_count[F]
      BY <2>1, <2>5, CompletionMisses
    <3>4. QED
      BY <1>2, <2>1, <3>1, <3>2, <3>3, CleanExecutionFits DEF BeforeFault
  <2>6. QED
    BY <2>3, <2>4, <2>5
<1>5. ASSUME Crashes PROVE (run_count'[F] - 1) * Period[F] < StartAfter
  <2>1. F \in Tasks /\ Period[F] \in Nat \ {0} /\ StartAfter \in Nat
    BY <1>5, SchedulerAssumption, FaultAssumption DEF Crashes
  <2>2. CASE current # F
    <3>1. (run_count[F] - 1) * Period[F] < StartAfter
      BY <1>5 DEF FaultInv
    <3>2. QED
      BY <2>1, <2>2, <3>1, CompletionMisses
  <2>3. CASE current = F
    <3>1. BeforeFault
      BY <1>1, <1>5, <2>3 DEF FaultInv
    <3>2. dispatch_time[F] \in Nat /\ run_count[F] * Period[F] <= dispatch_time[F]
      BY <1>1, <2>3 DEF RateInv
    <3>3. run_count'[F] - 1 = run_count[F]
      BY <1>2, <2>1, <2>3, CompletionMisses
    <3>4. run_count[F] * Period[F] < StartAfter
      <4>1. run_count[F] * Period[F] \in Int
        BY <1>2, <2>1
      <4>2. QED
        BY <2>1, <3>1, <3>2, <4>1 DEF BeforeFault
    <3>5. QED
      BY <3>3, <3>4
  <2>4. QED
    BY <2>2, <2>3
<1>6. QED
  BY <1>1, <1>3, <1>4, <1>5 DEF FaultInv, Overruns, Crashes

LEMMA FaultStep ==
  ASSUME ThreadTypeOK, RateInv, FaultInv, Counts, [Next]_vars
  PROVE  FaultInv'
<1>1. CASE CompleteExecution
  BY <1>1, FaultCompletion
<1>2. CASE ~CompleteExecution
  <2>1. run_count' = run_count /\ deadline_miss_count' = deadline_miss_count
    BY <1>2, OnlyCompletion DEF dogVars
  <2>2. ASSUME pc' = "running", current' = FaultTarget
        PROVE  /\ Overruns => total_execution_time' > Deadline[FaultTarget] \/ BeforeFault'
               /\ Crashes => BeforeFault'
    <3>1. CASE BeginExecution
      BY <2>2, <3>1, FaultAtBegin DEF BeginExecution, BeforeFault
    <3>2. CASE pc = "running" /\ UNCHANGED <<current, dispatch_time, total_execution_time>>
      BY <2>2, <3>2 DEF FaultInv, BeforeFault
    <3>3. QED
      BY <1>2, <2>2, <3>1, <3>2, BeginsOrKeeps
  <2>3. QED
    BY <2>1, <2>2 DEF FaultInv, Overruns, Crashes
<1>3. QED
  BY <1>1, <1>2

LEMMA FaultsAct == Spec => []FaultInv
<1>1. Init => FaultInv
  <2> SUFFICES ASSUME Init PROVE FaultInv
    OBVIOUS
  <2>1. /\ run_count = [t \in Tasks |-> 0] /\ deadline_miss_count = [t \in Tasks |-> 0]
        /\ pc = "loop"
    BY DEF Init, Dog!Init
  <2>2. FaultTarget \in Tasks =>
          /\ (0 - 0 - 1) * Period[FaultTarget] < StartAfter
          /\ (0 - 1) * Period[FaultTarget] < StartAfter
    BY SchedulerAssumption, FaultAssumption
  <2>3. QED
    BY <2>1, <2>2 DEF FaultInv, Overruns, Crashes
<1>2. TypeOK => ThreadTypeOK /\ Counts
  BY DEF TypeOK, Dog!TypeOK, Counts
<1>3. TypeOK /\ RateInv /\ FaultInv /\ [Next]_vars => FaultInv'
  BY <1>2, FaultStep
<1>4. QED
  BY <1>1, <1>3, TypeCorrect, KeepsRate, PTL DEF Spec

\* Every execution an active fault pushes over its deadline counts a miss.
THEOREM OverrunsAreNeverPassedOver == Spec => []OverrunsAreMissed
<1>1. FaultInv => OverrunsAreMissed
  BY DEF FaultInv, Overruns, OverrunsAreMissed
<1>2. QED
  BY <1>1, FaultsAct, PTL

\* A task that is to crash completes nothing dispatched after the fault's start.
THEOREM CrashesEndExecutions == Spec => []CrashEndsExecutions
<1>1. FaultInv => CrashEndsExecutions
  BY DEF FaultInv, Crashes, CrashEndsExecutions
<1>2. QED
  BY <1>1, FaultsAct, PTL
================================================================================
