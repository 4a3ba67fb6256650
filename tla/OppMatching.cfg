SPECIFICATION MCSpec
CONSTANTS
  ListingCount = 3
  Titles = {"a", "b"}
  Places = {X, Y}
  Absent = Absent
  Programs = {p1}
  ProgramTitle <- ProgramNames
  Fuzzy = {}
  Similar = {}
  MaxChanges = 2
SYMMETRY PlaceSymmetry
INVARIANTS
  TypeOK
  ListingsAreVisible
  AlertsFollowListings
  ActiveOpportunitiesHaveListings
PROPERTIES
  AlertedOncePerOpportunity
  StartupShowsPrograms
