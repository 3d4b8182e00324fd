SPECIFICATION FairSpec
CONSTANTS
  k1 = k1
  k2 = k2
  n1 = n1
  r1 = r1
  r2 = r2
  Task = {k1, k2}
  NeedsOwner = {k1}
  Negotiation = {n1}
  Request = {r1, r2}
  MaxItems = 2
  MaxCrashes = 1
INVARIANTS
  TypeOK
  NothingUnapproved
  RunningIsWorkedOn
PROPERTIES
  RunningEnds
  ResolutionReachesTask
CHECK_DEADLOCK FALSE
