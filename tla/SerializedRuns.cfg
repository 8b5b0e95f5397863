CONSTANTS
  Runs = {r1, r2, r3}
  Lines = 2
  Serialized = TRUE
  Hole = Hole
  NoLog = NoLog
  MaxRestarts = 1
SPECIFICATION MCSpec
INVARIANTS RunLogIsOwn
PROPERTIES ImplementsLifecycle
CHECK_DEADLOCK FALSE
