CONSTANTS
  ControlTask = ControlTask
  NetworkTask = NetworkTask
  LoggerTask = LoggerTask
  Tasks <- MCTasks
  Producers <- MCProducers
  ConfigIndex <- MCReversedIndex
  Period <- MCPeriod
  Deadline <- MCDeadline
  Priority <- MCPriority
  ExecutionTime <- MCExecutionTime
  QueueLimit <- MCQueueLimit
  Mode = "earliest_deadline_first"
  Duration = 18
  FaultType = "task_crash"
  FaultTarget = NetworkTask
  StartAfter = 6
  ExtraExecutionTime = 0
  DropPercent = 0
  WatchdogEnabled = TRUE
  RecoveryEnabled = TRUE
  MaxConsecutiveMisses = 2
  RecoveryCooldown = 4
  StartLag = 0
  MaxStall = 1
SPECIFICATION Spec
INVARIANTS CrashEndsExecutions
PROPERTIES InversionOnlyByLateArrival CrashedTasksStayDown
CHECK_DEADLOCK FALSE
