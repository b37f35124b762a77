SPECIFICATION MCSpec
CHECK_DEADLOCK FALSE
INVARIANTS
  CacheIsTransparent
  
  PassMeansPassed
  
  KeysKeepTheirTerms
  
