SPECIFICATION FairSpec
CONSTANTS
  None = None
  MaxVersion = 3
  Budget = 3
  LostChanges = FALSE
CHECK_DEADLOCK FALSE
INVARIANTS
  TypeOK
  NotForgotten
  
  SynchronizedIsCurrent
PROPERTIES
  Implements
  CatchesUp
