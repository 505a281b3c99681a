CONSTANTS
  c1 = c1
  c2 = c2
  p1 = p1
  p2 = p2
  a1 = a1
  a2 = a2
  NoId = NoId
  NoCaller = NoCaller
  NRows = 1
  Account = {a1}
  Caller = {c1, c2}
  Process = {p1, p2}
  ProcOf <- TwoProcesses
  Asks <- PlainAsks
  MaxTok = 2
  MaxAttempts = 2
  MaxDisturb = 1
  Faults = {"crash", "timeout"}
  Primers = {1, 2}
  MaxResets = 1
  MaxLoads <- TwoLoadsAndOne
  MaxFailures = 1
SPECIFICATION ProgressSpec
PROPERTIES
  CallsSettle
  
  WindowsArePrimed
INVARIANTS
  OnePrimeAReset
