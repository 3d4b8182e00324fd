SPECIFICATION Spec
CONSTANTS
  m1 = m1
  m2 = m2
  p1 = p1
  s1 = s1
  t1 = t1
  t2 = t2
  Memory = {m1}
  Title = {"plan"}
  TitleOf <- MCTitleOf
  Secret = {}
  Peer = {p1}
  Intent <- MCIntent
  Card <- MCBothCards
  Session = {s1}
  Thread = {t1, t2}
  MaxClones = 2
  MaxTurns = 1
SYMMETRY MCSymmetry
INVARIANTS
  TypeOK
  DraftsActForNobody
PROPERTIES
  DeletionIsHeeded
  BlockIsHeeded
CHECK_DEADLOCK FALSE
