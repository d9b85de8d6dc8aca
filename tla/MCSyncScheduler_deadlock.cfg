SPECIFICATION FairSpec
CONSTANTS
  p1 = p1
  p2 = p2
  c1 = c1
  t1 = t1
  t2 = t2
  Profiles = {p1}
  Configs = {}
  KindOf <- MCKindOf
  Callers = {t1, t2}
  Loop = Loop
  NoOne = NoOne
  MaxCalls = 3
  MaxItems = 0
  MaxPanics = 0
PROPERTY StoppedProfileSyncs
CHECK_DEADLOCK FALSE
