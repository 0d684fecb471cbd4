SPECIFICATION FairSpec
CONSTANTS
  Name <- MCName
  Process <- MCProcess
  Modnames <- MCModnames
  NUMTRIES = 2
  BufSizes = {0, 129, 4095}
  FreeMB = 256
  MaxFaults = 1
INVARIANTS RootValid NothingLeft OwnChannelSafe RerunWorks BufferAsAsked
PROPERTY CallReturns
CHECK_DEADLOCK FALSE
