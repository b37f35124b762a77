\* Two timers of every kind, one callback that calls require().
SPECIFICATION MCSpec
CONSTANTS
  MaxTimers = 2
  MaxTime = 4
  MaxRequires = 1
  Delays = {0, 2}
  MinSleep = 1
  FarFuture = 20
  ImmediateAge = 30
CHECK_DEADLOCK FALSE
INVARIANTS
  NoLostWakeup
  
  InvocationsInOrder
  
PROPERTIES
  RuntimeGoesOn
