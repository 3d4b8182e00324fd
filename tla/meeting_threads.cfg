SPECIFICATION Spec
CONSTANTS
  s1 = s1
  s2 = s2
  v1 = v1
  v2 = v2
  v3 = v3
  t1 = t1
  t2 = t2
  Session = {s1}
  Value = {v1, v2, v3}
  Thread = {t1, t2}
  IntentOf <- Meetings
  InitiatorOf <- AStarts
  Acceptable <- Overlap
  Offers <- OneEach
  HumanReview <- NoReview
  MaxStarted = 1
  MaxCrashes = 1
  MaxDuplicates = 1
  MaxResolving = 2
  MayDiscard = TRUE
  MayReorder = TRUE
INVARIANTS
  TypeOK
  HistoriesAgree
CHECK_DEADLOCK FALSE
