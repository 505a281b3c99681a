SPECIFICATION InstallationSpec
CONSTANTS
  p1 = p1
  p2 = p2
  p3 = p3
  Nobody = Nobody
  Procs = {p1, p2, p3}
  Movers = {p1}
  Overriding = {p3}
  Faults = {"stall", "crash", "older"}
  MaxStarts = 2
  MaxMoves = 1
  MaxRestores = 1
  MaxToken = 3
  MaxCredentials = 4
  MaxDeaths = 2
  MaxHostRuns = 3
INVARIANTS
  NoLoginIsLost
  NoDeadExchange
PROPERTIES
  ServesWhatWasMoved
  InterruptedSetupFinishes
CHECK_DEADLOCK FALSE
