SPECIFICATION Spec
CONSTANTS
  x1 = x1
  x2 = x2
  x3 = x3
  t1 = t1
  t2 = t2
  Text = {x1, x2}
  TypeOf <- MCTypeOf
  TitleOf <- MCTitleOf
  Thread = {t1, t2}
  Path = {1, 2, 3}
  AutoDiscover = TRUE
  MaxRequests = 2
  MaxOwner = 1
  MaxOutages = 1
  MaxCrashes = 1
SYMMETRY MCSymmetry
INVARIANTS
  TypeOK
  NothingForgotten
PROPERTIES
  OwnNotesUntouched
  SourceIsKept
  IndexIsComplete
CHECK_DEADLOCK FALSE
