SPECIFICATION UpdateSpec
CONSTANTS
  Checks = {s, m1}
  AtStartup = s
  Sizes = {3}
  Chunks = {3}
  StallTimeout = 2
  MaxBytes = 4
  MaxInstalls = 2
  NoPercent = NoPercent
INVARIANTS InstalledOnce
CHECK_DEADLOCK FALSE
