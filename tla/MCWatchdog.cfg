CONSTANTS
  Tasks = {ControlTask, NetworkTask}
  WatchdogEnabled = TRUE
  RecoveryEnabled = TRUE
  MaxConsecutiveMisses = 2
  RecoveryCooldown = 3
  MaxRuns = 5
  MaxClock = 6
SPECIFICATION MCSpec
INVARIANTS MissesPayForTimeouts CountsTheStreak
PROPERTIES TimeoutOnlyAfterConsecutiveMisses RecoveriesAreSpaced LongStreakIsReported
CHECK_DEADLOCK FALSE
