SPECIFICATION Spec
CONSTANTS
  a = a
  b = b
  Sources = {a, b}
  Items = 1
  MayFail = FALSE
  MaxAbandons = 1
  None = None
  WakeUp = WakeUp
  Closed = Closed
INVARIANTS
  EndsWhenEverySourceHasEnded
CHECK_DEADLOCK FALSE
