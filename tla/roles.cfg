SPECIFICATION Spec
CONSTANTS
  ann = ann
  bob = bob
  cyd = cyd
  dan = dan
  rice = rice
  beans = beans
  None = None
  Users <- Trio
  Creator = ann
  Products <- Rice
  BidInputs <- OneUnit
  AddInputs <- OnlyOne
  PurchaseInputs <- OnlyOne
  ProductLimit = 2
  Whole = 1
  MaxItems = 1
  MaxCrashes = 0
  Togglers <- Nobody
  HelperCandidates <- OnlyBob
  Heirs <- BobAndCyd
  Departing <- Trio
INVARIANTS TypeOK OneLeader OfferIsLeaders MembersBids
PROPERTY KeepsPromise
