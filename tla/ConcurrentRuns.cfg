CONSTANTS
  Runs = {r1, r2}
  Lines = 2
  Serialized = FALSE
  Hole = Hole
  NoLog = NoLog
  MaxRestarts = 1
SPECIFICATION MCSpec
INVARIANTS AnalysisMatchesLog NoOrphans
PROPERTIES FinalRunsStay EveryRequestEnds
CHECK_DEADLOCK FALSE
