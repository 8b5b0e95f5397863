CONSTANTS
  ControlTask = ControlTask
  NetworkTask = NetworkTask
  IdleTask = IdleTask
  LoggerTask = LoggerTask
  Tasks <- MCTasks
  Producers <- MCProducers
  QueueLimit <- MCQueueLimit
  MaxSequence = 7
SPECIFICATION MCSpec
INVARIANTS Accounting
PROPERTIES ImplementsChannel
