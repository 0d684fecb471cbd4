SPECIFICATION FairSpec
CONSTANTS
  cpu1 = cpu1  cpu2 = cpu2  cpu3 = cpu3
  swap = swap  pows = pows  collect = collect  report = report  begin = begin
  Cpu <- MCCpu
  NGlobals = 4
  Stats <- MCStats
  Probe <- MCProbe
  Locking <- MCLocking
  Read <- MCRead
  Written <- MCWritten
  MAXTRYLOCK = 1
  MaxHits = 3
INVARIANTS NoDataRace LockWordsMatch
CHECK_DEADLOCK FALSE
PROPERTIES NeverStuck ImplementsAtomicProbes
