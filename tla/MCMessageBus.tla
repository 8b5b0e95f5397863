----------------------------- MODULE MCMessageBus -----------------------------
EXTENDS MessageBus
CONSTANTS
  ControlTask, NetworkTask, IdleTask,
  MaxSequence  \* ids handed out

MCTasks == {ControlTask, NetworkTask, IdleTask, LoggerTask}
MCProducers == {ControlTask, NetworkTask}
MCQueueLimit == [t \in MCTasks |-> IF t = LoggerTask THEN 3 ELSE 1]

\* Twice as many messages as the queue holds, and one more.
MCNext == BusNext /\ next_message_sequence_id' <= MaxSequence + 1

MCSpec == BusInit /\ [][MCNext]_busVars
===============================================================================
