SPECIFICATION FairSpec
INVARIANTS
  ExitForTarget
PROPERTIES
  ReleaseNotLost
  NoticedAlone
CHECK_DEADLOCK FALSE
CONSTANTS
  NSystem = 3
  Interrupts = TRUE
