CONSTANTS
  bad_plan = bad_plan
  bad_sql = bad_sql
  db_error = db_error
  r1 = r1
  r2 = r2
  l1 = l1
  l2 = l2
  terms = terms
  Prints = {bad_plan, bad_sql, db_error}
  Infra = {db_error}
  Requests = {r1, r2}
  Loops = {l1, l2}
  NoLoop = NoLoop
  Files = {terms}
  StaleAfter = 1
  MaxJobs = 2
  MaxOccurrences = 1
  MaxCrashes = 1
CONSTRAINT TwoLearnersOrTwoFailures
SPECIFICATION FairSpec
INVARIANTS
  OneActiveRowPerFingerprint
  IncidentsDoNotMutate
  MergedAtMostOnce
  CompletedIsMergedAndRecorded
PROPERTIES
  PendingIsClaimed
  ImplementsFailureLedger
CHECK_DEADLOCK FALSE
