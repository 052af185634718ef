SPECIFICATION FairSpec
CONSTANTS
  q1 = q1
  q2 = q2
  Requests = {q1, q2}
  MayCall <- CallBesideStream
  Items = 2
PROPERTIES
  ObjectsCanBeCreated
CHECK_DEADLOCK FALSE
