SPECIFICATION FairSpec
PROPERTIES
  ShutdownCompletes
  MessagesRead
CHECK_DEADLOCK FALSE
CONSTANTS
  POOL = 4
  TRYLIMIT = 1
  MaxOob = 1
  MaxAttach = 0
  HasTarget = TRUE
  LoadOnly = {FALSE}
  MayDetach = FALSE
