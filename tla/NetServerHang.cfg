\* A connection outlives the "close" of its listen task.
SPECIFICATION ServerFairSpec
CONSTANTS
  MaxListens = 2
  MaxConns = 1
  Disciplines = {"started"}
PROPERTIES
  CloseAlwaysCompletes
CHECK_DEADLOCK FALSE
