SPECIFICATION Spec
CONSTANTS
  NotificationCount = 1
  Endpoints = {e1}
  BatchLimit = 1
  MaxAttempts = 2
  MaxRegistrations = 2
  MaxFaults = 0
PROPERTIES
  OnlyExpiredSubscriptionsExpire
