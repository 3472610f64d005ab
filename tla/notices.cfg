SPECIFICATION Spec
CONSTANTS
  costco = costco
  Other = Other
  Runs <- OneRun
  Window = 1
  MaxTime = 2
  MaxNotices = 3
  MaxAnswers = 1
INVARIANTS TypeOK BadgeIsTrue ListingIsComplete
CHECK_DEADLOCK FALSE
