\* Six acquisitions fill the pool at the limit, halve it and regrow it.
CONSTANTS
  web1 = web1
  web2 = web2
  bg1 = bg1
  bg2 = bg2
  Threads <- MCThreads
  Interactive <- MCInteractive
  Impatient <- MCImpatient
  Minimum = 1
  Initial = 2
  Maximum = 3
  StableWindow = 2
  MaxCalls = 6
SPECIFICATION FairSpec
INVARIANTS
  SlotAccounting
  NoSleepingHead
  OverLimitOnlyAfterPressure
  GrowthEarned
PROPERTIES
  ImplementsPriorityPool
  InteractiveServed
CHECK_DEADLOCK FALSE
