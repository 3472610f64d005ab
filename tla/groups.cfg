SPECIFICATION Spec
CONSTANTS
  ann = ann
  bob = bob
  friends = friends
  costco = costco
  lidl = lidl
  None = None
  Users <- Pair
  Groups <- OneGroup
  Runs <- TwoRuns
  MaxMembers = 2
  MaxGroups = 1
  MaxActiveRuns = 2
  MaxBids = 2
SYMMETRY Alike
INVARIANTS TypeOK AdminRemains DepartedAreOut
PROPERTY HandlersAreAtomic
CHECK_DEADLOCK FALSE
