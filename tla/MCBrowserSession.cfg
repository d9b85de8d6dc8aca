SPECIFICATION Spec
CONSTANTS
  Callers = {a, b}
  NoCaller = NoCaller
  Kinds = {"plain", "protected", "clear"}
  KeepDecrypted = FALSE
  MaxSessions = 2
  MaxCalls = 2
  MaxFailures = 1
SYMMETRY Symmetry
INVARIANT TypeOK
INVARIANT RunningHoldsLock
INVARIANT RunningDefersSync
INVARIANT WorkKept
PROPERTY OneBrowser
PROPERTY ReleasedWhenDealtWith
CHECK_DEADLOCK FALSE
