SPECIFICATION FairSpec
CONSTANTS
  m_size <- MCSize
  Total <- MCTotal
  Capacity <- MCCapacity
INVARIANTS
  StreamIsIntact
  EofOnlyAtEnd
PROPERTY StreamIsDelivered
CHECK_DEADLOCK FALSE
