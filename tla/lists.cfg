SPECIFICATION Spec
CONSTANTS
  ann = ann
  bob = bob
  cyd = cyd
  dan = dan
  rice = rice
  beans = beans
  None = None
  Users <- Pair
  Creator = ann
  Products <- Pantry
  BidInputs <- OneOrInterested
  AddInputs <- OnlyTwo
  PurchaseInputs <- OnlyTwo
  ProductLimit = 2
  Whole = 2
  MaxItems = 2
  MaxCrashes = 0
  Togglers <- OnlyBob
  HelperCandidates <- OnlyBob
  Heirs <- Nobody
  Departing <- Nobody
INVARIANT ListMatchesBids
PROPERTIES BoughtIsAllotted KeepsPromise
