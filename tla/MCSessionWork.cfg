SPECIFICATION Spec
INVARIANTS
  WorkCancelled
CHECK_DEADLOCK FALSE
CONSTANTS
  POOL = 3
  TRYLIMIT = 1
  MaxOob = 1
  MaxAttach = 1
  HasTarget = FALSE
  LoadOnly = {FALSE}
  MayDetach = FALSE
