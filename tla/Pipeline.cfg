SPECIFICATION Spec
CONSTANTS
  SourceCount = 2
  l1 = l1
  l2 = l2
  l3 = l3
  Listings = {l1, l3}
  SourceOf <- ListedBy
  Configurations <- SomeConfigurations
  Triggers = {manual, scheduled}
  Retriers = {r1}
  Limit = 1
  MaxRuns = 2
  MaxFaults = 1
  NoListing = NoListing
  Nobody = Nobody
INVARIANTS
  TypeOK
  RunningRowsExplained
  UnansweredAwaitDecision
PROPERTIES
  CompletedRunsAnalysedAll
  ReportMatchesManualChecks
  SuccessLostOnlyToOverlap
  RunsAreReported
CHECK_DEADLOCK FALSE
