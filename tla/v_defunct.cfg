SPECIFICATION FairSpec
CONSTANTS
  h1 = h1
  h2 = h2
  d1 = d1
  m1 = m1
  m2 = m2
  k1 = k1
  None = None
  Headless = {h1, h2}
  Desktop = {}
  Client = {m1}
  Task = {}
  Slow = FALSE
  MaxLost = 1
PROPERTY
  CallStartsCore
CHECK_DEADLOCK FALSE
