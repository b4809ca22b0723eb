\* Three repairs: a query can be repaired after a failed validation, a failed
\* execution and a rejection in the same run, and a plan can replace another.
CONSTANTS
  REACT_MAX_ATTEMPTS = 3
  REACT_OPTIMIZE_PASSES = 1
  Null = Null
  Tables <- MCTables
  Scans <- MCScans
  Default <- MCDefault
  Ids <- MCIds
  LowerCase <- MCLowerCase
  Values = {1}
  MeasureLists <- MCMeasureLists
  Aliases = {"order"}
  MaxStages = 4
  max_rows = 3
SPECIFICATION QuestionSpec
INVARIANTS
  WithinRecursionLimit
  ExecutesOnlyValidated
  NothingFailedPastTheGates
  AnsweredIsVerified
  LearnedIsAccepted
  GrainIsAKey
  TrueJoinsKeepMeasures
  ScratchMeansTheSame
CONSTRAINT LongPlansDeclareLittle
CHECK_DEADLOCK FALSE
