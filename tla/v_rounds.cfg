SPECIFICATION Spec
CONSTANTS
  s1 = s1
  s2 = s2
  v1 = v1
  v2 = v2
  v3 = v3
  t1 = t1
  t2 = t2
  Session = {s1}
  Value = {v1, v2, v3}
  Thread = {t1}
  IntentOf <- Meetings
  InitiatorOf <- AStarts
  Acceptable <- Overlap
  Offers <- OneEach
  HumanReview <- SomeReview
  MaxStarted = 1
  MaxCrashes = 0
  MaxDuplicates = 0
  MaxResolving = 2
  MayDiscard = FALSE
  MayReorder = FALSE
INVARIANTS
  CounterRoundsBounded
CHECK_DEADLOCK FALSE
