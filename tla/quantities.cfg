SPECIFICATION Spec
CONSTANTS
  ann = ann
  bob = bob
  cyd = cyd
  dan = dan
  rice = rice
  beans = beans
  None = None
  Users <- Four
  Creator = ann
  Products <- Rice
  BidInputs <- OneOrTwo
  AddInputs <- NoQuantity
  PurchaseInputs <- TwoOrThree
  ProductLimit = 2
  Whole = 1
  MaxItems = 1
  MaxCrashes = 1
  Togglers <- Nobody
  HelperCandidates <- Nobody
  Heirs <- Nobody
  Departing <- Nobody
SYMMETRY Alike
INVARIANT ReadsStayTrue
PROPERTY BoughtIsAllotted
CHECK_DEADLOCK FALSE
