CONSTANTS
  Runs = {r1}
  Lines = 1
  Serialized = TRUE
  Hole = Hole
  NoLog = NoLog
  MaxRestarts = 1
SPECIFICATION MCSpec
PROPERTIES EveryRunIsDecided
CHECK_DEADLOCK FALSE
