SPECIFICATION Spec
CONSTANTS
  e1 = e1
  e2 = e2
  e3 = e3
  k1 = k1
  k2 = k2
  Entries = {e1, e2, e3}
  KeyOf <- EntryKeys
  Contents = {c1, c2}
  Absent = Absent
  MaxEdits = 3
  MaxFeedFaults = 1
  MaxListings = 2
  MaxVersions = 4
  Blocks = {b1, b2, b3}
  Finds = {u1, u2}
  Unknown = Unknown
  MaxRevisions = 3
  MaxGenericFaults = 2
  SummerOtherCities = TRUE
  Analyses <- SomeAnalyses
  SourceTrusts = {"official_ats", "secondary_aggregator"}
  NotAssessed = NotAssessed
  RobotsFiles <- SomeFiles
  FractionDigits = 3
  Instants <- SomeInstants
  api = api
  tool = tool
  Processes = {api, tool}
  Bundled <- Releases
  Retention = 1
  Day = 2
  MaxTime = 4
  MaxSetBack = 1
  MaxSnapshots = 3
  MaxFaults = 2
CHECK_DEADLOCK FALSE
INVARIANTS
  NotModifiedHidesNothing
  NewestRecipeInUse
  AskedOnce
  RestartServesTheSame
  GatesAgree
  VerdictIsLongestMatch
  TextOrderIsTimeOrder
  PublishedAreWhole
  MigratedOnce
PROPERTIES
  HandedOverOnce
  NewestAreKept
