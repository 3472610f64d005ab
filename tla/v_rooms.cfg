SPECIFICATION Spec
CONSTANTS
  run = run
  group = group
  ann = ann
  bob = bob
  cyd = cyd
  confirmed = confirmed
  bid = bid
  None = None
  Sockets <- Visitors
  Names <- Pages
  RoomOf <- Visits
  Events <- Told
  Route <- Routes
PROPERTY AllAreTold
CHECK_DEADLOCK FALSE
