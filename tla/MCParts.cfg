SPECIFICATION PartsSpec
CONSTANTS
  s1 = s1
  u1 = u1
  u2 = u2
  Installs = {m1, m2}
  Paths = {p1, p2}
  CriticalPaths = {p1}
  Biases = {"auto", "preferRemote", "reencrypt"}
  MaxClock = 2
  MaxEdits = 2
  MaxMishaps = 1
  Seats = {s1, s2}
  Users = {u1, u2}
  Owner <- MCOwner
  NoUser = NoUser
  Grace = 3
  MaxLosses = 1
  Downloads = {m1, m2}
  MaxConcurrent = 1
  Attempts = 2
  MaxRuns = 2
  MaxCalls = 4
  Clients = {a1}
  Loop = Loop
  Nothing = Nothing
  MaxSessions = 2
  MaxRotations = 1
  MaxTroubles = 1
  Hands = {m1, m2}
  NoHand = NoHand
  MaxRemovals = 3
  MaxBreaks = 1
  Launchers = {m1, m2}
  Checkers = {c1}
  Nobody = Nobody
  MaxWorkers = 2
  MaxFaults = 1
SYMMETRY MCSymmetry
CONSTRAINT Undecided
INVARIANT FilesTypeOK
INVARIANT NothingLost
PROPERTY CompletedAgrees
INVARIANT LeaseTypeOK
INVARIANT OneUserAtATime
INVARIANT RenewedInTime
INVARIANT NoLeftoverLock
INVARIANT TunnelTypeOK
INVARIANT FailedLaunchSparesOthers
INVARIANT WorkersAreKnown
INVARIANT OneTunnel
INVARIANT QueueTypeOK
INVARIANT CompletedIsDownloaded
INVARIANT NobodyStranded
PROPERTY QueueKeepsPromise
INVARIANT SessionTypeOK
INVARIANT SessionRenewable
INVARIANT NothingLeftBehind
INVARIANT TrashKeeps
CHECK_DEADLOCK FALSE
