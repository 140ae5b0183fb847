SPECIFICATION FairSpec
CONSTANTS
  e1 = e1
  e2 = e2
  j1 = j1
  j2 = j2
  h1 = h1
  h2 = h2
  Endpoints = {e1}
  Jobs = {j1, j2}
  MaxDeliveryAttempts = 2
  MaxResends = 1
  MaxFaults = 1
  Handlers = {h1, h2}
  MaxReplays = 0
INVARIANTS
  TypeOK
  TakenAgainOnlyInDoubt
  AcknowledgedIsApplied
PROPERTIES
  DeliveryEnds
  EventIsApplied
CHECK_DEADLOCK FALSE
