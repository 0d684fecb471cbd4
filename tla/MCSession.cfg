SPECIFICATION Spec
INVARIANTS
  ExitMeansStopped
  TargetAfterProbes
  UnloadSafe
CHECK_DEADLOCK FALSE
CONSTANTS
  POOL = 2
  TRYLIMIT = 1
  MaxOob = 3
  MaxAttach = 1
  HasTarget = TRUE
  LoadOnly = {FALSE, TRUE}
  MayDetach = TRUE
