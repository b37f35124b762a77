SPECIFICATION MCSpec
CONSTANTS
  T = {t1, t2}
  None = None
  MaxItems = 4
  Signal = {s1, s2, s3}
  MaxSources = 2
SYMMETRY Symmetry
CHECK_DEADLOCK FALSE
INVARIANTS
  SlotsAreFree
  
  ListMatchesListeners
  CalledInOrder
  HandleIsSequential
  UrlKeepsWord
PROPERTIES
  ImplementsSlotMap
  ReasonStable
