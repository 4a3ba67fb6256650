SPECIFICATION Spec
CONSTANTS
  NotificationCount = 1
  Endpoints = {e1, e2}
  BatchLimit = 2
  MaxAttempts = 2
  MaxRegistrations = 3
  MaxFaults = 1
SYMMETRY EndpointSymmetry
INVARIANTS
  TypeOK
  ActiveDeliveriesAreClaimable
  NotificationSummarisesDeliveries
PROPERTIES
  SettledStaysSettled
  KeepsPromise
