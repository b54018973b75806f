SPECIFICATION FairSpec
CONSTANTS
  Requests = {r1, r2}
  Sessions = {s1, s2}
  Clients = {a}
  Keys = {k1}
  MaxSessions = 2
  Joiner = Joiner
  None = None
PROPERTIES DeadSessionsFreePermits ShutdownEnds
CHECK_DEADLOCK FALSE
