SPECIFICATION Spec
CONSTANTS
  p1 = p1
  i1 = i1
  i2 = i2
  Profiles = {p1}
  NumSessions = 2
  ProfileOf <- MCProfileOf
  OwnSessions = {}
  Slots = {i1}
  NoSession = NoSession
  PullAttempts = 1
  MaxDrops = 0
  MaxListings = 0
  MaxRestarts = 0
  MaxFailures = 0
PROPERTY RunningGateStays
CHECK_DEADLOCK FALSE
