\* Two probes race in a round; five rounds are one more than fit in the limit;
\* the second exploration, a short one, finds what the first one left when it
\* failed. Two jobs can share a name or a stage or follow each other; two
\* questions can end in either order.
CONSTANTS
  Slots = {1, 2}
  Artifacts = {"a1"}
  MaxRounds = 5
  RecursionLimit = 25
  MaxRuns = 2
  Operations = {"survey", "explore", "evolve", "promote", "verify"}
  Jobs = {1, 2}
  Questions = {"q1", "q2"}
SPECIFICATION MCSpec
CONSTRAINT LaterRunsAreShort
INVARIANTS
  RoundsThatFitAreRun
  RoundsAreCommitted
  PlanActedAtMostTwice
  OneOperationPerName
  QuestionsAreCounted
  RunningIsBusy
PROPERTIES
  ExplorationEnds
  JobsEnd
CHECK_DEADLOCK FALSE
