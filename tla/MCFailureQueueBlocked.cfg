CONSTANTS
  bad_plan = bad_plan
  bad_sql = bad_sql
  db_error = db_error
  r1 = r1
  r2 = r2
  l1 = l1
  l2 = l2
  terms = terms
  Prints = {bad_plan}
  Infra = {}
  Requests = {r1}
  Loops = {l1, l2}
  NoLoop = NoLoop
  Files = {terms}
  StaleAfter = 2
  MaxJobs = 1
  MaxOccurrences = 1
  MaxCrashes = 1
SPECIFICATION FairSpec
PROPERTY OrphanIsRequeued
CHECK_DEADLOCK FALSE
