SPECIFICATION Spec
CONSTANTS
  MaxChunks = 2
  Reader = r1
  NoReader = NoReader
  Writer = w1
  NoWriter = NoWriter
CHECK_DEADLOCK FALSE
INVARIANT
  ShutdownStopsActivity
