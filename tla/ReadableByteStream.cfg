SPECIFICATION Spec
CONSTANTS
  MaxReads = 3
  MaxBytes = 4
  Readers = {r1, r2}
  NoReader = NoReader
  Views <- BytesAndPairs
  AutoSizes = {0, 2}
  HWM = 0
CHECK_DEADLOCK FALSE
INVARIANT NoPanic
