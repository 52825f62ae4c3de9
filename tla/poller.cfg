SPECIFICATION PollerSpec
CONSTANTS
  a = a
  b = b
  loop = loop
  client = client
  Sockets = {a}
  LoopThread = loop
  Clients = {client}
  NoThread = NoThread
  Masks <- MCMasks
  Steps <- MCSteps
  Conditions <- MCConditions
  DEFAULT_TIMEOUT_MS = 2
  InitialRoom = 3
  TimeModulus = 64
  IntModulus = 64
  MaxTime = 2
  MaxDrift = 1
INVARIANTS
  ScheduleMatchesContext
  OutEventsAreActive
  ActivityBeatsTimeout
  TimeoutsCountFromActivity
PROPERTIES
  CloseOnlyAfterSilence
  OversleepsOnlyAfterQuietCall
