SPECIFICATION Spec
CONSTANTS
  Requests = {r1, r2}
  Sessions = {s1, s2}
  Clients = {a, b}
  Keys = {k1, k2}
  MaxSessions = 1
  Joiner = Joiner
  None = None
SYMMETRY Interchangeable
CHECK_DEADLOCK FALSE
INVARIANTS PermitsBalanced LiveSessionsHoldPermits ServedUnderOwner CleanShutdown
PROPERTIES DenialsAreLocal
