CONSTANTS
  ControlTask = ControlTask
  NetworkTask = NetworkTask
  LoggerTask = LoggerTask
  Tasks <- MCTasks
  Producers <- MCProducers
  ConfigIndex <- MCReversedIndex
  Period <- MCPeriod
  Deadline <- MCDeadline
  Priority <- MCPriority
  ExecutionTime <- MCExecutionTime
  QueueLimit <- MCQueueLimit
  Mode = "priority"
  Duration = 13
  FaultType = "dropped_messages"
  FaultTarget = LoggerTask
  StartAfter = 4
  ExtraExecutionTime = 0
  DropPercent = 50
  WatchdogEnabled = FALSE
  RecoveryEnabled = TRUE
  MaxConsecutiveMisses = 2
  RecoveryCooldown = 4
  StartLag = 1
  MaxStall = 1
SPECIFICATION Spec
INVARIANTS BoundedOvertaking MessagesMatchRuns LoggerDrainsAtItsRate
PROPERTIES InversionOnlyByLateArrival
CHECK_DEADLOCK FALSE
