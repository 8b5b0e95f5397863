CONSTANTS
  NumRuns = 2
  MaxLate = 1
SPECIFICATION Spec
INVARIANTS RawTabIsHonest  OneRunAtATime
PROPERTIES ListGoesBackOnlyAtFirstLoad 
