SPECIFICATION SchedulerSpec
CONSTANTS
  p1 = p1
  p2 = p2
  n1 = n1
  n2 = n2
  n3 = n3
  Payloads <- MCPayloads
  Nodes <- MCNodes
  End = End
  INVALID_TIME = 15
  MaxTime = 3
INVARIANTS
  ContainersAgree
  SleepIsExact
PROPERTIES
  ImplementsDeadlines
