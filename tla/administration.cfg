SPECIFICATION Spec
CONSTANTS
  ann = ann
  bob = bob
  milk = milk
  oats = oats
  aldi = aldi
  lidl = lidl
  friends = friends
  None = None
  Nobody = Nobody
  Users <- Pair
  Products <- TwoProducts
  Stores <- TwoStores
  Groups <- OneGroup
  MaxHere = 3
  MaxRows = 2
SYMMETRY Indistinct
INVARIANTS TypeOK OneParticipation AdminLeft
PROPERTY MergesAreAtomic
CHECK_DEADLOCK FALSE
