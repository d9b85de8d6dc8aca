SPECIFICATION Spec
CONSTANTS
  Devices = {a, b}
  MaxTime = 2
  MaxCalls = 1
  MaxTroubles = 1
SYMMETRY Symmetry
CONSTRAINT Undecided
INVARIANT TypeOK
INVARIANT SettledAgree
INVARIANT SettledDeleted
PROPERTY NewestKept
CHECK_DEADLOCK FALSE
