SPECIFICATION Spec
CONSTANTS
  home = home
  away = away
  bot = bot
  me = me
  short = short
  huge = huge
  v = v
  role = role
  gossip = gossip
  None = None
  Blank = Blank
  Shared = Shared
  Scopes = {home, away}
  Texts = {short, huge}
  BadDates = {}
  Values = {v}
  KnownPredicates = {role}
  OtherPredicates = {gossip}
  Clients = {bot, me}
  Humans = {me}
  RequestIds = {r1, r2}
  Oversized = {huge}
  Workers = {w1}
  MaxPending = 1
  FirstAffiliations = {home}
  DefaultScope <- MCDefaultScope
  Submissions <- MCSubmissions
  Seed <- MCSeed
SYMMETRY Interchangeable
INVARIANTS SubmissionsHold SourcesAttached LinksInScope
