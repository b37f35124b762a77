SPECIFICATION Spec
CONSTANTS
  MaxWrites = 2
  MaxReads = 2
  MaxChunks = 1
  Reader = r1
  NoReader = NoReader
  Writer = w1
  NoWriter = NoWriter
  HWMs = {0,1}
CHECK_DEADLOCK FALSE
INVARIANT NoPanic
