SPECIFICATION MCSpec
CHECK_DEADLOCK FALSE
INVARIANTS
  NoReadWaitsInVain
  ChunksReachReads
  IteratorHoldsLock
  BranchesGetAll
PROPERTIES
  ReadsAreAnswered
