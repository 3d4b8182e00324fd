SPECIFICATION FairSpec
CONSTANTS
  s1 = s1
  s2 = s2
  v1 = v1
  v2 = v2
  v3 = v3
  t1 = t1
  t2 = t2
  Session = {s1, s2}
  Value = {v1, v2, v3}
  Thread = {t1}
  IntentOf <- OneOfEach
  InitiatorOf <- AStarts
  Acceptable <- Overlap
  Offers <- OneEach
  HumanReview <- SomeOfB
  MaxStarted = 1
  MaxCrashes = 1
  MaxDuplicates = 0
  MaxResolving = 2
  MayDiscard = FALSE
  MayReorder = FALSE
INVARIANTS
  AgreementWithinLimits
PROPERTIES
  WaitingEnds
  EveryNegotiationConcludes
CHECK_DEADLOCK FALSE
