SPECIFICATION Spec
CONSTANTS
  s1 = s1
  s2 = s2
  s3 = s3
  r1 = r1
  r2 = r2
  Sends = {s1, s2, s3}
  Recvs = {r1, r2}
  Bounded = TRUE
  Capacity = 1
  MaxSenders = 1
  None = None
SYMMETRY Symmetry
INVARIANTS
  ParkedReceiveHasNothing
  ParkedSendsFindItFull
  CompletesOnce
  AcceptedIsKept
  EndIsFinal
PROPERTIES
  IsOneFifoLine
CHECK_DEADLOCK FALSE
