\* Five rounds of five nodes reach the default limit of 25.
CONSTANTS
  Slots = {1}
  Artifacts = {"a1"}
  MaxRounds = 5
  RecursionLimit = 25
  MaxRuns = 1
SPECIFICATION Spec
INVARIANT AskedRoundsAreRun
CHECK_DEADLOCK FALSE
