SPECIFICATION Spec
INVARIANTS
  NewestKept
CHECK_DEADLOCK FALSE
CONSTANTS
  Cpu = {c1}
  fsize_max = 2
  Limits = {1, 2, 3, 4}
  NEED_PPOLL = TRUE
  Sizes = {1, 3}
  MaxFnum = 8
  MaxSignals = 2
  MaxTime = 4
