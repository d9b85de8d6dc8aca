SPECIFICATION FairSpec
CONSTANTS
  p1 = p1
  i1 = i1
  i2 = i2
  Profiles = {p1}
  NumSessions = 2
  ProfileOf <- MCProfileOf
  OwnSessions = {}
  Slots = {i1}
  NoSession = NoSession
  PullAttempts = 1
  MaxDrops = 1
  MaxListings = 0
  MaxRestarts = 1
  MaxFailures = 1
INVARIANT PendingIsAttended
INVARIANT IndexIsTrue
PROPERTY EndedIsNoticed
CHECK_DEADLOCK FALSE
