SPECIFICATION FairSpec
CONSTANTS
  p1 = p1
  p2 = p2
  c1 = c1
  t1 = t1
  t2 = t2
  Profiles = {p1}
  Configs = {c1}
  KindOf <- MCKindOf
  Callers = {t1, t2}
  Loop = Loop
  NoOne = NoOne
  MaxCalls = 2
  MaxItems = 1
  MaxPanics = 1
INVARIANT TypeOK
INVARIANT RequestsHeld
INVARIANT DoomedNotDrained
CHECK_DEADLOCK FALSE
PROPERTY ReadyIsTaken
