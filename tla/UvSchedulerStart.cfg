SPECIFICATION Spec
CONSTANTS
  h1 = h1
  Scheds = {h1}
  Timers = {}
  Works = {}
  Abandoned = {}
INVARIANTS
  NobodyTouchesTheDead
CHECK_DEADLOCK FALSE
