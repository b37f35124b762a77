SPECIFICATION MCSpec
CHECK_DEADLOCK FALSE
INVARIANTS
  WholeBody
  
  ResponseTakenOnce
  HeadersAreAMap
  
