SPECIFICATION Spec
CONSTANTS
  a = a
  b = b
  p1 = p1
  p2 = p2
  Sockets = {a, b}
  Pollers = {p1, p2}
  None = None
  MaxReport = 1
SYMMETRY MCSymmetry
INVARIANTS
  RegisteredWhereAttached
  ClosedForGood
  CalledBackByOneLoop
  NoStaleReport
  DeadlocksAreCircularMoves
CHECK_DEADLOCK FALSE
