\* One repair is enough to drop the materialized stages of the first plan.
CONSTANTS
  REACT_MAX_ATTEMPTS = 1
  REACT_OPTIMIZE_PASSES = 1
SPECIFICATION Spec
INVARIANT LearnedWasExecuted
CHECK_DEADLOCK FALSE
