SPECIFICATION ShutdownSpec
CONSTANTS
  p1 = p1
  p2 = p2
  Nobody = Nobody
  Gone = Gone
  Procs = {p1, p2}
  Faults = {"crash", "lock"}
  MaxBodies = 1
  Writers = {1, 2}
  MaxFrames <- OneRouteTwoDisplays
INVARIANTS
  RouteSurvives
PROPERTIES
  ShutdownEnds
