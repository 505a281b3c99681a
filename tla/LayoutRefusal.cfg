SPECIFICATION Spec
CONSTANTS
  p1 = p1
  p2 = p2
  Nobody = Nobody
  Procs = {p1, p2}
  Movers = {p1}
  Overriding = {}
  Faults = {"crash"}
  MaxStarts = 3
  MaxMoves = 1
  MaxRestores = 1
  MaxToken = 2
PROPERTY
  RefusesOnlyTheUnsafe
CHECK_DEADLOCK FALSE
