SPECIFICATION Spec
CONSTANTS
  run = run
  group = group
  ann = ann
  bob = bob
  cyd = cyd
  confirmed = confirmed
  bid = bid
  None = None
  Sockets <- Visitors
  Names <- Pages
  RoomOf <- Visits
  Events <- Told
  Route <- Routes
INVARIANTS TypeOK IteratesTheRoom NobodyIsDropped
PROPERTY GhostsGo
CHECK_DEADLOCK FALSE
