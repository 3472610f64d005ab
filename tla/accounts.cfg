SPECIFICATION FairSpec
CONSTANTS
  ann = ann
  bob = bob
  annie = annie
  Annie = Annie
  bobby = bobby
  x = x
  t1 = t1
  t2 = t2
  r1 = r1
  None = None
  Users <- TwoUsers
  Names <- ThreeNames
  Lower <- InLowercase
  Passwords <- OnePassword
  Tokens <- TwoTokens
  Requests <- OneRequest
INVARIANTS TypeOK NamesUnique VoidStaysOut DictionaryIsTrue
PROPERTY SweptWhileAlive
CHECK_DEADLOCK FALSE
