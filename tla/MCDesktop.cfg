SPECIFICATION FairSpec
CONSTANTS
  Calls = {c1}
  Launch = Launch
  Exit = Exit
  Restart = Restart
  Ports = 2
  None = None
INVARIANTS WindowKnows
PROPERTIES EndsInOrder NothingHangs
