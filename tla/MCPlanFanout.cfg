CONSTANTS
  Null = Null
  Tables <- MCTables
  Scans <- MCScans
  Default <- MCDefault
  Ids <- MCIds
  LowerCase <- MCLowerCase
  Values = {1}
  MeasureLists <- MCMeasureLists
  Aliases = {"order"}
  MaxStages = 3
  max_rows = 3
SPECIFICATION PlanSpec
INVARIANT
  JoinsKeepMeasures
CHECK_DEADLOCK FALSE
