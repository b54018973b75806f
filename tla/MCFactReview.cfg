SPECIFICATION Spec
CONSTANTS
  work = work
  me = me
  t1 = t1
  t2 = t2
  v1 = v1
  v2 = v2
  role = role
  status = status
  None = None
  Blank = Blank
  Shared = Shared
  Scopes = {work}
  Texts = {t1, t2}
  BadDates = {}
  Values = {v1, v2}
  KnownPredicates = {role, status}
  OtherPredicates = {}
  Clients = {me}
  Humans = {me}
  RequestIds = {r1, r2, r3}
  Oversized = {}
  Workers = {w1, w2}
  MaxPending = 3
  FirstAffiliations = {work}
  DefaultScope <- MCDefaultScope
  Submissions <- MCSubmissions
  Seed <- MCSeed
SYMMETRY Interchangeable
INVARIANTS DecisionsTakeEffectOnce VersionsAgree PairsWellFormed
PROPERTIES ImplementsReviewedMemory
