SPECIFICATION Spec
CONSTANTS
  ListingCount = 2
  Titles = {"a", "b"}
  Places = {}
  Absent = Absent
  Programs = {}
  ProgramTitle <- ProgramNames
  Fuzzy = {}
  Similar = {}
  MaxChanges = 2
PROPERTIES
  SecondPassMovesNothing
