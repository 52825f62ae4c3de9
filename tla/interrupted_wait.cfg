SPECIFICATION PollerSpec
CONSTANTS
  a = a
  b = b
  loop = loop
  client = client
  Sockets = {a}
  LoopThread = loop
  Clients = {}
  NoThread = NoThread
  Masks <- MCMasks
  Steps = {1}
  Conditions <- MCConditions
  DEFAULT_TIMEOUT_MS = 2
  InitialRoom = 3
  TimeModulus = 64
  IntModulus = 64
  MaxTime = 2
  MaxDrift = 1
INVARIANTS
  EntriesAreReports
