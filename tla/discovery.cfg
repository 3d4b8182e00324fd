SPECIFICATION Spec
CONSTANTS
  h1 = h1
  h2 = h2
  d1 = d1
  m1 = m1
  m2 = m2
  k1 = k1
  None = None
  Headless = {h1, h2}
  Desktop = {d1}
  Client = {m1, m2}
  Task = {k1}
  Slow = TRUE
  MaxLost = 1
SYMMETRY
  MCSymmetry
INVARIANTS
  TypeOK
  OneCore
  OneWorker
  OneRunner
CHECK_DEADLOCK FALSE
