SPECIFICATION Spec
CONSTANTS
  CostRequest <- MCCostRequest
  MeetingRequest <- MCMeetingRequest
  TaskRequest <- MCTaskRequest
  MCTotals = {1000}
  MCReservations = {30, 50, 75}
  MCConcessions = {0, 50, 100}
  MaxChanges = 1
INVARIANTS
  TypeOK
  ReservationKept
  OffersConverge
  SlotFreeForBoth
  AgreedWasOffered
PROPERTY
  LocalConcludes
CHECK_DEADLOCK FALSE
