SPECIFICATION FairSpec
CONSTANTS
  ann = ann
  bob = bob
  annie = annie
  Annie = Annie
  bobby = bobby
  x = x
  t1 = t1
  t2 = t2
  r1 = r1
  None = None
  Users <- OneUser
  Names <- OneName
  Lower <- OneInLowercase
  Passwords <- OnePassword
  Tokens <- TwoTokens
  Requests <- OneRequest
PROPERTY ExpiredAreSwept
CHECK_DEADLOCK FALSE
