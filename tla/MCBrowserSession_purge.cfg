SPECIFICATION Spec
CONSTANTS
  Callers = {a}
  NoCaller = NoCaller
  Kinds = {"protected"}
  KeepDecrypted = FALSE
  MaxSessions = 2
  MaxCalls = 2
  MaxFailures = 0
PROPERTY PurgedWhenSaved
CHECK_DEADLOCK FALSE
