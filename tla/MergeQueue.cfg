SPECIFICATION FairSpec
CONSTANTS
  a = a
  b = b
  Sources = {a, b}
  Items = 2
  MayFail = TRUE
  MaxAbandons = 2
  None = None
  WakeUp = WakeUp
  Closed = Closed
INVARIANTS
  EveryValueInItsPlace
  EndMeansComplete
  ParkedPopIsReachable
PROPERTIES
  MergedStreamEnds
CHECK_DEADLOCK FALSE
