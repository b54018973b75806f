SPECIFICATION UpdateFairSpec
CONSTANTS
  Checks = {s, m1, m2}
  AtStartup = s
  Sizes = {0, 3}
  Chunks = {0, 1, 2}
  StallTimeout = 2
  MaxBytes = 4
  MaxInstalls = 2
  NoPercent = NoPercent
INVARIANTS MenuTellsTheFlow
PROPERTIES ReportsFit FlowsEnd
