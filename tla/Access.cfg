SPECIFICATION Spec
CONSTANTS
  SourceCount = 3
  shared = shared
  polite = polite
  Scopes = {shared, polite}
  ScopeOf <- SourceScopes
  AskRobots = {polite}
  Typed = {1, 2}
  Interval = 2
  Base = 1
  Maximum = 3
  Delays = {0, 4}
  RobotsTTL = 3
  MaxTime = 6
  MaxFaults = 1
INVARIANTS
  CooldownKept
  RefusalEndsVisits
  RetryAtIsExact
PROPERTIES
  IntervalKept
  RobotsAnswerFresh
  KeepsAccessPromise
