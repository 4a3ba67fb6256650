SPECIFICATION FairSpec
CONSTANTS
  NotificationCount = 2
  Endpoints = {e1}
  BatchLimit = 1
  MaxAttempts = 2
  MaxRegistrations = 2
  MaxFaults = 2
INVARIANTS
  DuplicatesOnlyFromFaults
  AttemptsBounded
PROPERTIES
  NoCallAfterFinalAnswer
  EveryNotificationSettles
