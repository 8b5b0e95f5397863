----------------------------- MODULE MCScheduler -----------------------------
(***************************************************************************)
(* The three tasks of the shipped configurations, scaled down: the order   *)
(* of periods, deadlines and priorities is that of configs/*.json, and the *)
(* deadline of LoggerTask leaves the least room, so that misses happen.    *)
(***************************************************************************)
EXTENDS Scheduler
CONSTANTS ControlTask, NetworkTask

MCTasks == {ControlTask, NetworkTask, LoggerTask}
MCProducers == {ControlTask, NetworkTask}

\* A value for each task.
Each(control, network, logger) ==
  [t \in MCTasks |-> CASE t = ControlTask -> control
                       [] t = NetworkTask -> network
                       [] t = LoggerTask -> logger]

MCConfigIndex == Each(1, 2, 3)
MCReversedIndex == Each(3, 2, 1)
MCPeriod == Each(3, 5, 7)
MCDeadline == Each(2, 4, 6)
MCPriority == Each(1, 2, 3)
MCExecutionTime == Each(1, 1, 2)
MCQueueLimit == Each(1, 1, 2)
===============================================================================
