SPECIFICATION MCSpec
CONSTANTS
  SourceLen = 2
  Capacity = 1
  MaxCapacity = 2
  MaxWrites = 2
  MaxListens = 3
  MaxConns = 2
  Disciplines = {"quiet", "started", "any"}
  MaxBinds = 2
  MaxSends = 2
  MaxChunks = 2
  PipeSize = 1
  BufferSize = 1
CHECK_DEADLOCK FALSE
INVARIANTS
  
  OneListener
  
  CloseMeansAll

  
