SPECIFICATION Spec
CONSTANTS
  p1 = p1
  p2 = p2
  v1 = v1
  v2 = v2
  Producers <- MCProducers
  Consumer = Consumer
  NoThread = NoThread
  Values <- MCValues
  MaxSize = 2
INVARIANTS
  NoDataRace
  SleepersAreNotified
PROPERTIES
  ImplementsBoundedQueue
