SPECIFICATION FairSpec
CONSTANTS
  s1 = s1
  s2 = s2
  r1 = r1
  Sends = {s1, s2}
  Recvs = {r1}
  Bounded = TRUE
  Capacity = 0
  MaxSenders = 2
  None = None
PROPERTIES
  LastSenderEndsReceives
  CloseReleasesSends
CHECK_DEADLOCK FALSE
