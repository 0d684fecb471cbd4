SPECIFICATION MCSpec
CONSTANTS
  Key = {1, 2, 3, 4, 5}
  Hash <- MCHash
  HashOf <- MCHashOf
  Value = {1, 2, 3}
  Sizes = {2, 5}
  Limits = {0, 1, 2, 3, 31}
  Word = 128
  ncpus = 2
  Sample = {1, 5}
  MaxEntries = 2
  MaxAdds = 3
  start = 2
  stop = 4
  interval = 2
  SmallKeys = {1, 2, 3}
  ArrayKeys = {1, 2, 3}
INVARIANTS
  NodesAccounted
  LoopsExact
  
PROPERTY
  ImplementsArray
CHECK_DEADLOCK FALSE
