SPECIFICATION Spec
CONSTANTS
  home = home
  away = away
  lost = lost
  ann = ann
  anna = anna
  bob = bob
  guest = guest
  note = note
  None = None
  Blank = Blank
  Shared = Shared
  Scopes = {home, away, lost}
  Affiliations = {home, away}
  DefaultScope = {}
  Texts = {ann, anna, bob, guest, note}
  BadDates = {}
  Values = {}
  KnownPredicates = {}
  OtherPredicates = {}
  FactLimit = 2
  MaxApprovals = 2
  Normal <- MCNormal
  Seed <- MCSeed
  Approvals <- MCApprovals
  Asks <- MCAsks
INVARIANTS UnseenLeavesNoTrace FactsAreShownWhole KnownNamesKeepTheirPeople
