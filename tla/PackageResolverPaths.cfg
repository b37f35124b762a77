SPECIFICATION Spec
CONSTANT MaxInstalls = 0
INVARIANT SearchesItsOwnPaths
CHECK_DEADLOCK FALSE
