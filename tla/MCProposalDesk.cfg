SPECIFICATION FairSpec
CONSTANTS
  Contents = {"good", "bad"}
  Invalid = {"bad"}
  MaxRequests = 2
  MaxRenames = 1
  MaxRevision = 1
  MaxWork = 3
  None = None
CHECK_DEADLOCK FALSE
INVARIANTS WindowTellsTheTruth CorrectsOnlyUnproposed ListIsFresh
PROPERTIES PanelsSettle
