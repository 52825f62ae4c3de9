SPECIFICATION FairThreadSpec
CONSTANTS
  a = a
  loop = loop
  client = client
  Sockets = {a}
  LoopThread = loop
  Clients = {client}
  NoThread = NoThread
  Masks <- MCBothMasks
  Steps <- MCSteps
  Conditions <- MCConditions
  DEFAULT_TIMEOUT_MS = 2
  InitialRoom = 1
  TimeModulus = 64
  IntModulus = 64
  MaxTime = 2
  MaxDrift = 1
PROPERTIES
  StopEndsRun
  DeadlinesAreServed
  JoinReturns
  ImplementsPoller
