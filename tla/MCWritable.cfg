SPECIFICATION MCSpec
CONSTANTS
  MaxCalls = 3
  Writers = {w1, w2}
  NoWriter = NoWriter
  Sizes = {1, 2}
  HWM = 1
  MaxDepth = 2
CHECK_DEADLOCK FALSE
INVARIANTS
  NoPanic
  WritableInStep
  SidesInStep
  PipeKeepsWord
PROPERTIES
  WritesInOrder
  CallsSettle
