\* Two questions and an exploration that learn and use one template while a
\* verification and a survey run; one thread is killed in mid-operation.
CONSTANTS
  q1 = q1
  q2 = q2
  x1 = x1
  s1 = s1
  v1 = v1
  t1 = t1
  Blank = Blank
  Garbled = Garbled
  Questions = {q1, q2}
  Explorers = {x1}
  Surveyors = {s1}
  Verifiers = {v1}
  Periodic = {v1}
  Templates = {t1}
  Claims = {2}
  MaxMerges = 1
  MaxCalls = 1
  MaxKills = 1
CONSTRAINT PromotionsAreQuiet
SPECIFICATION FairSpec
INVARIANTS
  ListedHasSql
  UsesNotOvercounted
PROPERTY EventuallyMarked
CHECK_DEADLOCK FALSE
