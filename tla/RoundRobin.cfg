CONSTANTS
  ControlTask = ControlTask
  NetworkTask = NetworkTask
  LoggerTask = LoggerTask
  Tasks <- MCTasks
  Producers <- MCProducers
  ConfigIndex <- MCConfigIndex
  Period <- MCPeriod
  Deadline <- MCDeadline
  Priority <- MCPriority
  ExecutionTime <- MCExecutionTime
  QueueLimit <- MCQueueLimit
  Mode = "round_robin"
  Duration = 18
  FaultType = "slow_task"
  FaultTarget = ControlTask
  StartAfter = 2
  ExtraExecutionTime = 2
  DropPercent = 0
  WatchdogEnabled = TRUE
  RecoveryEnabled = TRUE
  MaxConsecutiveMisses = 2
  RecoveryCooldown = 4
  StartLag = 0
  MaxStall = 1
SPECIFICATION Spec
INVARIANTS TypeOK OverrunsAreMissed RunEndsInTime
PROPERTIES DispatchesAreSpaced FeedsWatchdog Terminates
CHECK_DEADLOCK FALSE
