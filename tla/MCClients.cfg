SPECIFICATION FairSpec
CONSTANTS
  None = None
  me = me
  agent = agent
  bot = bot
  human = human
  worker = worker
  k1 = k1
  k2 = k2
  direct = direct
  link = link
  broken = broken
  work = work
  desktop = desktop
  cli = cli
  Names = {me, agent, bot}
  Identities = {human, worker}
  Keys = {k1, k2}
  Processes = {desktop, cli}
  Desktop = desktop
  Paths = {direct, link, broken}
  ConfigPath = direct
  Target <- MCTarget
  Edits <- MCEdits
  Start = None
  Human <- MCHuman
  Agent = agent
  HumanIdentity <- MCHumanIdentity
  AgentIdentity = worker
  Affiliation <- MCAffiliation
INVARIANTS EditsStayValid StoredKeysRetrievable NoCopyLeftSilently FirstRunHolds
PROPERTIES AuthorityKept LockGivenUp ImplementsClientRegistry
