SPECIFICATION Spec
CONSTANTS
  ann = ann
  bob = bob
  cyd = cyd
  dan = dan
  rice = rice
  beans = beans
  None = None
  Users <- Pair
  Creator = ann
  Products <- Rice
  BidInputs <- OneUnit
  AddInputs <- NoQuantity
  PurchaseInputs <- UpToTwo
  ProductLimit = 2
  Whole = 1
  MaxItems = 1
  MaxCrashes = 0
  Togglers <- Nobody
  HelperCandidates <- Nobody
  Heirs <- Nobody
  Departing <- OnlyBob
PROPERTY BoughtIsAllotted
CHECK_DEADLOCK FALSE
