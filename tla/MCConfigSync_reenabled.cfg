SPECIFICATION Spec
CONSTANTS
  Devices = {a, b}
  MaxTime = 1
  MaxCalls = 3
  MaxTroubles = 0
PROPERTY ToldOfDeletions
CHECK_DEADLOCK FALSE
