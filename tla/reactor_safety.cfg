SPECIFICATION ReactorSpec
CONSTANTS
  a = a
  b = b
  loop = loop
  client = client
  Sockets = {a, b}
  LoopThread = loop
  Clients = {client}
  NoThread = NoThread
  Masks <- MCMasks
  Steps <- MCSteps
  Conditions <- MCInHup
  DEFAULT_TIMEOUT_MS = 2
  InitialRoom = 1
  TimeModulus = 64
  IntModulus = 64
  MaxTime = 2
  MaxDrift = 1
SYMMETRY MCSymmetry
INVARIANTS
  NoAssertionFails
  ClosedIsForgotten
  OnCloseOnce
  TimeoutStaysArmed
  NoLostWakeup
PROPERTIES
  EveryReportIsDispatched
