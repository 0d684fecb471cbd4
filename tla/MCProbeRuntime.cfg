SPECIFICATION FairSpec
CONSTANTS
  cpu1 = cpu1  cpu2 = cpu2
  Cpu <- MCCpu
  NGroups = 2
  Waits = {1}
  NBegin = 1  NEnd = 1  NError = 1
  MAXERRORS = 0
  MAXSKIPPED = 0
  INTERRUPTIBLE = FALSE
  STP_OVERLOAD = TRUE
  MaxHits = 2
INVARIANTS MemorySafe ContextOwned BeApart EndSkippedOnError
CHECK_DEADLOCK FALSE
PROPERTY ExitCompletes
