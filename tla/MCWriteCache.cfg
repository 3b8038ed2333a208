SPECIFICATION FairSpec
CONSTANTS
  None = None
  Thread = {t1, t2}
  Worker = {w1, w2}
  i1 = i1
  Inode = {i1}
  Chunk = {c1, c2}
  Parent <- MCParent
  CacheBlocks = 2
  CachePercentage = 50
  MaxParallel = 1
  MaxRetries = 2
  KernelLock = TRUE
  MaxSize = 2
  Budget = 3
INVARIANTS
  TypeOK
  OneJobPerChunk
  CacheConserved
  ReferencesHold
  FlushIsDurable
  LockMeansRetry
 
CHECK_DEADLOCK FALSE
