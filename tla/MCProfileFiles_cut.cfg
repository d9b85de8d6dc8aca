SPECIFICATION FilesSpec
CONSTANTS
  Installs = {m1, m2}
  Paths = {p1, p2}
  CriticalPaths = {p1}
  Biases = {"auto"}
  MaxClock = 2
  MaxEdits = 2
  MaxMishaps = 1
PROPERTY CutDownloadContinues
CHECK_DEADLOCK FALSE
