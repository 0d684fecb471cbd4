SPECIFICATION FairSpec
INVARIANTS
  Lossless
  FinalDrain
CHECK_DEADLOCK FALSE
CONSTANTS
  NSubbufs = 2
  SubbufSize = 2
  Builds <- MCBuilds
  MaxCells = 7
  MaxAttach = 1
  MaxDropped = 2
PROPERTIES DataRead JoinReturns
