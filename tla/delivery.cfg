SPECIFICATION Spec
CONSTANTS
  a = a
  b = b
  w = w
  t1 = t1
  t2 = t2
  m1 = m1
  m2 = m2
  Node = {a, b}
  Message = {m1, m2}
  Caller <- MCCaller
  From <- MCFrom
  To <- MCTo
  Size <- MCSize
  Window = 1
  SeenTTL = 2
  RelayTTL = 2
  Minute = 1
  RateLimit = 2
  MaxPending = 2
  MaxBytes = 3
  MaxTotalBytes = 3
  PageLimit = 2
  MaxSkew = 0
  MayRefuse = TRUE
  MaxTime = 2
  MaxDeliveries = 3
SYMMETRY MCSymmetry
CHECK_DEADLOCK FALSE
INVARIANTS
  TypeOK
  HandledOnce
  HandledInOrder
  LostOnlyWhenStale
