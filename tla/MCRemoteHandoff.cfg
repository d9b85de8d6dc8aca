SPECIFICATION Spec
CONSTANTS
  p1 = p1
  i1 = i1
  i2 = i2
  Profiles = {p1}
  NumSessions = 2
  ProfileOf <- MCProfileOf
  OwnSessions = {2}
  Slots = {i1, i2}
  NoSession = NoSession
  PullAttempts = 2
  MaxDrops = 0
  MaxListings = 1
  MaxRestarts = 0
  MaxFailures = 0
SYMMETRY Symmetry
INVARIANT TypeOK
INVARIANT OpenOnlyWhenPulled
CHECK_DEADLOCK FALSE
