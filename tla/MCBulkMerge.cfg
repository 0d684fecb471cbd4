SPECIFICATION FairSpec
CONSTANTS
  ncpus = 3
  Word = 256
  Lengths = {1, 2}
  MaxFlushes = 4
  MaxRefused = 2
INVARIANTS MergeExact DropsExact
PROPERTY MergeEnds
CHECK_DEADLOCK FALSE
