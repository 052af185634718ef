SPECIFICATION FairSpec
CONSTANTS
  o1 = o1
  o2 = o2
  c1 = c1
  c2 = c2
  w1 = w1
  w2 = w2
  None = None
  Ops = {o1, o2}
  Calls = {c1, c2}
  Waits = {w1, w2}
INVARIANTS
  EntryOutlivesBothSides
  NothingLeaks
PROPERTIES
  IsOnceCell
  WaitEndsAfterCompletion
CHECK_DEADLOCK FALSE
