SPECIFICATION KeepersSpec
CONSTANTS
  p1 = p1
  p2 = p2
  Nobody = Nobody
  Gone = Gone
  Procs = {p1, p2}
  Faults = {"crash", "io", "lock"}
  MaxBodies = 2
  k1 = k1
  k2 = k2
  KeepSessions = {k1, k2}
  KeepInstances = 2
  KeepTtl = 4
  KeepLead = 3
  KeepTimeout = 1
  KeepSafety = 1
  KeepHorizon = 6
  KeepTurns = 1
SYMMETRY AlikeKeepers
INVARIANTS
  OneKeeper
  SuccessorFindsTheLatest
  WarmthIsReal
