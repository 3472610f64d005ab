SPECIFICATION FairSpec
CONSTANTS
  MaxAttempts = 5
  MaxVisits = 3
  MaxFailures = 6
INVARIANTS TypeOK HoldsItsSocket GivesUpLate NeverWithoutFailure
PROPERTY ComesToRest
CHECK_DEADLOCK FALSE
