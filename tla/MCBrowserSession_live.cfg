SPECIFICATION FairSpec
CONSTANTS
  Callers = {a, b}
  NoCaller = NoCaller
  Kinds = {"clear"}
  KeepDecrypted = FALSE
  MaxSessions = 2
  MaxCalls = 2
  MaxFailures = 0
PROPERTY LockIsReleased
PROPERTY EndedIsUploaded
CHECK_DEADLOCK FALSE
