SPECIFICATION FairSpec
CONSTANTS
  h1 = h1
  t1 = t1
  w1 = w1
  Scheds = {h1}
  Timers = {t1}
  Works = {w1}
  Abandoned = {h1, t1, w1}
INVARIANTS
  QueuedHopsAreAlive
  HandlesCloseOnce
  WorkDrainsBeforeStop
  StopLeavesNothing
PROPERTIES
  CompletionIsFinal
  StopReturns
  StartedOpsComplete
CHECK_DEADLOCK FALSE
