CONSTANTS
  s1 = s1
  s2 = s2
  c1 = c1
  SessionIds = {s1, s2}
  Calls = {c1, c2}
  Target <- OneEach
  Shutters = {t1}
  NoCall = NoCall
SPECIFICATION FairSpec
PROPERTIES CallbacksAreKept AcceptedCallsFire
CHECK_DEADLOCK FALSE
