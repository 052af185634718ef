SPECIFICATION FairSpec
CONSTANTS
  s1 = s1
  s2 = s2
  c1 = c1
  o1 = o1
  k1 = k1
  k2 = k2
  d1 = d1
  d2 = d2
  Sessions = {s1, s2}
  Calls = {c1}
  Objects = {o1}
  Owner <- OneOwner
  Closers = {k1, k2}
  Droppers = {d1, d2}
  None = None
INVARIANTS
  CallHasOneHolder
  ObjectHasOneHolder
  NothingLeftBehind
  StoredObjectsAreReachable
PROPERTIES
  IsOwnership
  CallsAreAnswered
CHECK_DEADLOCK FALSE
